SPECIFICATION Spec
CONSTANTS
    e1 = e1
    e2 = e2
    Exports = {e1, e2}
    Nothing = Nothing
    Foreign = Foreign
    SourceCount = 2
    MaxDisturbances = 1
SYMMETRY Symmetry
CHECK_DEADLOCK FALSE
INVARIANTS
    FailureLeavesNothing
    MarkerMeansComplete
    SuccessIsExact
PROPERTIES
    ForeignSurvives
