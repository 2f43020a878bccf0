SPECIFICATION FairSpec
CONSTANTS
    ConnectTimeout = 0
    WriteTimeout = 0
    ReadTimeout = 1
    Calls = {"get", "add"}
    Happens = {"done", "missing", "present"}
    PacketIds = {0, 1}
    MaxData = 1
    MaxLate = 1
INVARIANTS
    TypeOK
    ResponseOfRequest
PROPERTIES
    ResultMeansOutcome
    ExchangeEnds
