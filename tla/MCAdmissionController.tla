----------------------- MODULE MCAdmissionController -----------------------
(* Instances of AdmissionController for TLC.                               *)
EXTENDS AdmissionController

CONSTANTS t1, t2, t3, t4

=============================================================================
