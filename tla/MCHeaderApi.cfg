SPECIFICATION ApiSpec
CONSTANTS
    Names <- MCNames
    Localparts <- MCLocalparts
    Domains <- MCDomains
    ToTitle <- MCToTitle
    DotEnded = {}
    ParsedFields <- MCParsedFields
    FieldNames <- MCFieldNames
    Modes <- MCModes
    MaxFields = 4
    MaxAddresses = 2
INVARIANTS
    MergedOnce
    CachedVerdictSound
