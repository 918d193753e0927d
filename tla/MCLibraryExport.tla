--------------------------- MODULE MCLibraryExport ---------------------------
(* Instances of LibraryExport for TLC.                                     *)
EXTENDS LibraryExport, TLC

CONSTANTS e1, e2

Symmetry == Permutations({e1, e2})

=============================================================================
