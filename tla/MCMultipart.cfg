SPECIFICATION SplitSpec
CHECK_DEADLOCK FALSE
CONSTANTS
    MaxLines = 6
    Bodies <- MCBodies
INVARIANTS
    PartsOrdered
    NothingLost
    OnlyParts
PROPERTY
    Terminates
