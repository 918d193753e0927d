-------------------------- MODULE MCArtifactRefresh --------------------------
(* Instances of ArtifactRefresh for TLC.                                   *)
EXTENDS ArtifactRefresh, TLC

=============================================================================
