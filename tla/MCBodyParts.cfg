SPECIFICATION TreeSpec
CHECK_DEADLOCK FALSE
CONSTANTS
    Trees <- MCTrees
    Paths <- MCPaths
    MaxParts = 6
INVARIANTS
    NumbersInOrder
    LookupFinds
