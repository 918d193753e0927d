SPECIFICATION Spec
CONSTANTS
    pdf = pdf
    video = video
    audio = audio
    Ops = {video, audio}
    KindOf <- MCKindOf
    Stubborn <- MCStubborn
CHECK_DEADLOCK FALSE
INVARIANTS
    ShutdownTerminatesEveryChild
