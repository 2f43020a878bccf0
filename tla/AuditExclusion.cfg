SPECIFICATION AuditSpec
CONSTANTS
    Threads = {t1, t2}
    Procs = {p1}
    ProcOf <- OneProc
    Conns = {c1, c2, c3}
    NoConn = NoConn
    MaxPool = 1
    FailLimit = 1
    Interval = 2
    MaxStall = 1
    MaxCrashes = 0
SYMMETRY Symmetry
INVARIANT ReconnectExclusion
