SPECIFICATION USpec
CONSTANTS
    MaxHash = 3
    VirtualNodes = 2
    Clients = {c1, c2}
    Nodes <- OneServer
    KeyHashes = {1}
    Commands <- UpdateCommands
    Data <- Numbers
    Tokens = {1, 2, 3, 4, 5}
    MaxContinues = 2
    H404 = 0
    Interval = 0
    FailLimit = 1
    MaxDelay = 0
    MaxLate = 1
    NoItem = NoItem
    None = None
    Callback <- CountUp
    Iters = 2
SYMMETRY Symmetry
INVARIANT
    NoIterationInVain
PROPERTIES
    ImplementsRegister
CHECK_DEADLOCK FALSE
