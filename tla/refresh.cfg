SPECIFICATION Spec
CONSTANTS
    None = None
    TargetCount = 4
    MaxRefreshes = 2
INVARIANTS
    SettledIsWhole
    MixedIsRecoverable
    FailureRollsBack
PROPERTIES
    ImplementsReplacement
