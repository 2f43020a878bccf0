SPECIFICATION AuditSpec
CONSTANTS
    MaxHash = 3
    VirtualNodes = 2
    Clients = {c1, c2}
    Nodes <- TwoServers
    KeyHashes = {1, 3}
    Commands <- GetSet
    d = d
    k = k
    Data <- OneDatum
    Tokens <- OneToken
    MaxContinues = 4
    H404 = 2
    Interval = 1
    FailLimit = 1
    MaxDelay = 1
    MaxLate = 0
    NoItem = NoItem
    None = None
INVARIANT
    TypeOK
PROPERTIES
    OutOfServersMeansNoAnswer
    EveryServerTried
    FlushedEverywhere
    RestoredServerFallsBack
CHECK_DEADLOCK FALSE
SYMMETRY Symmetry
