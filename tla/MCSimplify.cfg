SPECIFICATION Spec
CHECK_DEADLOCK FALSE
CONSTANTS
    Names <- MCNames
    Localparts <- MCLocalparts
    Domains <- MCDomains
    ToTitle <- MCToTitle
    DotEnded = {"b."}
    Scenarios <- MCScenarios
INVARIANTS
    CorrespondentsKept
    ContentMeaningKept
    KeepsValid
