SPECIFICATION Spec
CONSTANTS
    pdf = pdf
    video = video
    audio = audio
    Ops = {pdf, audio}
    KindOf <- MCKindOf
    Stubborn <- MCNone
CHECK_DEADLOCK FALSE
PROPERTIES
    CancelledIngestEnds
    ShutdownReapsChildren
