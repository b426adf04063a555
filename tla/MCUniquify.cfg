SPECIFICATION UniquifySpec
CONSTANTS
    Names <- MCNames
    Localparts <- MCLocalparts
    Domains <- MCDomains
    ToTitle <- MCToTitle
    MaxLen = 3
INVARIANTS
    DictExact
    LoopInvariant
    Deduplicated
    KeepsFirst
    KeepsOrder
CHECK_DEADLOCK FALSE
