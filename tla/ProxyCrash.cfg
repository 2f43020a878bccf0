SPECIFICATION FairSpec
CONSTANTS
    Threads = {t1, t2}
    Procs = {t1, t2}
    ProcOf <- ProcPerThread
    Conns = {c1, c2}
    NoConn = NoConn
    MaxPool = 1
    FailLimit = 2
    Interval = 1
    MaxStall = 1
    MaxCrashes = 1
PROPERTIES
    OutageIsNoticed
    RecoveryIsNoticed
