CONSTANTS
    MaxWord = 23
    Characters = {"a"}
    Strings <- MCStrings
    Longs <- MCLongs
    Floats = {4}
    Amounts = {8}
    Initial = 11
    UserFlags <- MCUserFlags
    DefaultIters = 2
    MaxLen = 3
SPECIFICATION Spec
INVARIANTS TypeOK TypedRead IncrTells
PROPERTIES UpdateSeesItem
