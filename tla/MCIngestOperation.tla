------------------------- MODULE MCIngestOperation -------------------------
(* Instances of IngestOperation for TLC: one operation per route.          *)
EXTENDS IngestOperation

CONSTANTS pdf, video, audio

MCKindOf == [o \in Ops |-> CASE o = pdf -> "pdf" [] o = video -> "video" [] o = audio -> "audio"]

MCNone == {}

MCStubborn == {audio}

=============================================================================
