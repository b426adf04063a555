SPECIFICATION Spec
CHECK_DEADLOCK FALSE
CONSTANTS
    MaxUnits = 5
    Scenarios <- MCScenarios
INVARIANTS
    CanonicalForm
    LeavesInOrder
