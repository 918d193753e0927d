SPECIFICATION Spec
CONSTANTS
    s1 = s1
    s2 = s2
    a1 = a1
    a2 = a2
    revised = revised
    page = page
    pymupdf = pymupdf
    whisperVideo = whisperVideo
    whisperAudio = whisperAudio
    None = None
    Sources = {s1, s2}
    Assets = {a1, a2}
    AssetOf <- MCAssetOf
    Fingerprints = {pymupdf, whisperVideo, whisperAudio}
    VideoWhisper = {whisperVideo}
    AudioWhisper = {whisperAudio}
    PdfReports <- MCPdfReports
    Runs = {r1, r2}
    Items = {page, i2}
    RevisedAssets = {}
SYMMETRY MCRunSymmetry
INVARIANTS
    ActiveProjection
    LibraryReadable
    TranscriptBacked
PROPERTIES
    CandidateFrozen
    ImplementsPromise
    ObservationFrozen
CHECK_DEADLOCK FALSE
