------------------------- MODULE MCStoreConnections -------------------------
(* A small instance of StoreConnections: the calls race for one file.      *)
EXTENDS StoreConnections, TLC

CONSTANTS c1, c2, f1

MCFileOf == [c \in Calls |-> f1]

MCKindsOf == [c \in Calls |-> IF c = c1 THEN {"pdf"} ELSE {"reprocess", "video", "audio"}]

MCOwnerSymmetry == Permutations(Owners)

=============================================================================
