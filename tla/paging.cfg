SPECIFICATION Spec
CONSTANTS
    c1 = c1
    s1 = s1
    s2 = s2
    None = None
    Chains = {c1}
    Sources = {s1, s2}
    Texts <- MCTexts
    Contents <- MCContents
    Publications <- MCPublications
    Requests <- MCRequests
    Selected <- MCSelected
    Scanned <- MCScanned
    Metadata <- MCMetadata
    MaxLabel = 2
    MaxMode = 1
    MaxPageText = 13
    MaxExcerpt = 2
    MaxContent = 8
    MaxModel = 7
    MaxPool = 4
    MaxCandidates = 6
    MaxScan = 44
    MaxRevision = 2
    MaxOwners = 2
    MaxLost = 1
INVARIANTS
    PagesAreOneAnswer
    CompleteIsExhaustive
    ExpiredForCause
    RefusedOnlyIfItMust
PROPERTIES
    ChainEnds
CHECK_DEADLOCK FALSE
