SPECIFICATION Spec
CHECK_DEADLOCK FALSE
CONSTANTS
    MaxUnits = 3
    Scenarios <- SimpleScenario
INVARIANTS
    Canonical
