SPECIFICATION CSpec
CHECK_DEADLOCK FALSE
CONSTANTS
    Strings <- MCStrings
    SomeBytes = {0, 90, 255}
    MaxBytes = 7
    LineLengths = {0, 4, 6, 8}
    MaxNoise = 1
    QPStrings <- MCQPStrings
    QPTexts <- MCQPTexts
INVARIANTS
    ReadBack
    EncodedLinesBounded
    NoSpaceBeforeBreak
