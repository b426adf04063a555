CONSTANTS
    MaxTokens = 3
    MaxCalls = 4
    Texts <- MCTexts
    Charsets <- MCCharsets
SPECIFICATION Spec
INVARIANTS
    NoSpaceBetweenEncoded
PROPERTIES
    ImplementsCursor
    ProductionsProgress
    TriedInVain
CHECK_DEADLOCK FALSE
