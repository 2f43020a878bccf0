SPECIFICATION AuditSpec
CONSTANTS
    Threads = {t1, t2, t3}
    Procs = {p1}
    ProcOf <- OneProc
    Conns = {c1, c2, c3, c4}
    NoConn = NoConn
    MaxPool = 1
    FailLimit = 2
    Interval = 2
    MaxStall = 1
    MaxCrashes = 0
SYMMETRY Symmetry
INVARIANTS
    TypeOK
    ConnExclusive
    PoolBounded
    DeadHasDeadline
    LockNotLeaked
PROPERTIES
    NextReconnectAhead
    OneProbePerInterval
