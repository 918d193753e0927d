--------------------------- MODULE MCRunLifecycle ---------------------------
(* Small instances of RunLifecycle.                                        *)
EXTENDS RunLifecycle, TLC

CONSTANTS s1, s2, a1, a2, revised, page, pymupdf, whisperVideo, whisperAudio

MCAssetOf == [s \in Sources |-> IF s = s1 THEN a1 ELSE a2]

\* A successful report of the whole document, with and without raster flags,
\* and the report of a failed extraction.
MCPdfReports ==
    {[failed |-> FALSE, pages |-> Items, raster |-> TRUE],
     [failed |-> FALSE, pages |-> Items, raster |-> FALSE],
     [failed |-> TRUE, pages |-> {}, raster |-> FALSE]}

MCNoReports == {}

MCRunSymmetry == Permutations(Runs)

=============================================================================
