SPECIFICATION Spec
CHECK_DEADLOCK FALSE
CONSTANTS
    Names <- MCNames
    Localparts <- MCLocalparts
    Domains <- MCDomains
    ToTitle <- MCToTitle
    Now = 36000
    Sensible <- MCSensible
    DotEnded = {"b."}
    BadSubjects <- MCBadSubjects
    EndOf <- MCEndOf
    LongLines = {"long"}
    Untrimmed = {"x "}
    Encodings = {"base64"}
    DomainShape <- MCDomainShape
    WithoutLabel <- MCWithoutLabel
    PostmasterName <- MCPostmasterName
    Reread <- MCReread
    Scenarios <- MCPipeline
INVARIANTS
    NoKindLost
    ContentFieldsClean
    VerdictFresh
    BoundaryGuessed
    
    FirstValidRetained
    HasFromAndDate
    GoodFromKept
    FromHasSource
PROPERTIES
    RepairOnlyRemoves
