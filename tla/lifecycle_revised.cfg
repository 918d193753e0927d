SPECIFICATION Spec
CONSTANTS
    s1 = s1
    s2 = s2
    a1 = a1
    a2 = a2
    revised = revised
    page = page
    pymupdf = pymupdf
    whisperVideo = whisperVideo
    whisperAudio = whisperAudio
    None = None
    Sources = {s1}
    Assets = {a1, revised}
    AssetOf <- MCAssetOf
    Fingerprints = {pymupdf}
    VideoWhisper = {}
    AudioWhisper = {}
    PdfReports <- MCNoReports
    Runs = {r1, r2}
    Items = {page}
    RevisedAssets = {revised}
INVARIANTS
    LibraryReadable
CHECK_DEADLOCK FALSE
