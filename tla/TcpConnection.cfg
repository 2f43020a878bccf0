SPECIFICATION FairSpec
CONSTANTS
    ConnectTimeout = 1
    WriteTimeout = 1
    ReadTimeout = 2
    Ids = 2
    MaxData = 2
INVARIANTS
    TypeOK
    OneWait
    TimeoutMeansDeadline
    PendingHasDeadline
    ResponseOfRequest
PROPERTIES
    ResultMeansOutcome
    OperationEnds
