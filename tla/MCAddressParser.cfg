SPECIFICATION Spec
CONSTANTS
    MaxChars = 3
    MaxPieces = 4
    MaxList = 2
    Givens <- MCGivens
    TldLengths <- MCTldLengths
INVARIANTS
    WrittenReadBack
    NothingInvented
PROPERTIES
    CallsMoveLeft
CHECK_DEADLOCK FALSE
