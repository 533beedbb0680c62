\* Configurations made by three calls; every world of at most four options of a
\* backend, or of three with those that all backends have; three
\* versions of an object and three attempts.
CONSTANTS
    Table <- MCTable
    Environments <- MCEnvironments
    Spellings <- MCSpellings
    Values <- MCValues
    Scopes <- MCScopes
    Paths <- MCPaths
    MaxCalls = 3
    AtMost = 4
    Settings <- MCSettings
    Files <- MCFiles
    v1 = v1
    v2 = v2
    v3 = v3
    Versions = {v1, v2, v3}
    Size <- Sizes
    NoTag = NoTag
    AnyTag = AnyTag
    Conditions = {NoTag, AnyTag, v1}
    Cloud = TRUE
    OtherSuccess = {203}
    offset = 1
    length = 2
    FallbackLimits = {0, 1}
    MaxAttempts = 3
    UnreachableAttempts = 2
    MaxChanges = 2
SPECIFICATION RequestsSpec
INVARIANTS
    LookupIsNearest
    ScopeSharesValues
    EarlierSourceWins
    OnlyAsAsked
    OneVersion
    ShortOnlyAtEnd
    RequestsAreBounded
