SPECIFICATION Spec
CONSTANTS
    MaxHash = 4
    VirtualNodes = 2
    Count = 3
INVARIANTS
    TypeOK
    WholeRing
    NoKeyTravels
    AddMovesOnlyToNew
    FailoverIsRemoval
PROPERTY
    WalkEnds
CHECK_DEADLOCK FALSE
