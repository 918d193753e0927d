SPECIFICATION Spec
CONSTANTS
    None = None
    TargetCount = 3
    MaxRefreshes = 1
INVARIANTS
    MixedIsAlwaysRecoverable
