SPECIFICATION FieldSpec
CHECK_DEADLOCK FALSE
CONSTANTS
    Names <- MCNames
    Localparts <- MCLocalparts
    Domains <- MCDomains
    ToTitle <- MCToTitle
    DotEnded = {}
    AddressTexts <- MCAddressTexts
    TypeTexts <- MCTypeTexts
    Tokens <- MCTokens
    ParamSets <- MCParamSets
    Times <- MCTimes
INVARIANT
    ParsedShape
