SPECIFICATION Spec
CONSTANTS
    Threads = {t1, t2, t3}
    Sole = t1
    NoThread = NoThread
    Conns = {c1, c2, c3, c4, c5}
    NoConn = NoConn
    MaxPool = 2
INVARIANT TypeOK
PROPERTY ImplementsPool
