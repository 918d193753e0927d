SPECIFICATION Spec
CONSTANTS
    c1 = c1
    c2 = c2
    f1 = f1
    None = None
    Calls = {c1, c2}
    Owners = {o1, o2, o3}
    Files = {f1}
    FileOf <- MCFileOf
    KindsOf <- MCKindsOf
SYMMETRY MCOwnerSymmetry
INVARIANTS
    OneRowPerKey
    DeadOwnersRunsEnd
PROPERTIES
    RecoverySparesOwnRuns
    ImplementsLifecycle
CHECK_DEADLOCK FALSE
