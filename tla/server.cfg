SPECIFICATION ServerSpec
CONSTANTS
    Kids = {"k1", "k2"}
    Tokens <- MCTokens
    Never <- MCNever
    NoUser = ""
    Procs = {p1, p2}
    MaxKeys = 2
    MaxTime = 1
    Defaults <- MCDefaults
    Switches = {"tls", "auto-cert"}
    ParseBool <- MCParseBool
    YamlBool <- MCYamlBool
    Empty = ""
    Files <- MCFiles
    SourceSets <- MCSourceSets
    Passwords <- MCPasswords
    Logins <- MCLogins
INVARIANTS
    ServerTypeOK
    ActsOnlyForTheAuthenticated
    CutShortOnlyForCause
PROPERTIES
    SteadyKeyIsFound
    LastSourceDecides
    KeptClientGetsIn
    ShutdownEnds
CHECK_DEADLOCK FALSE
