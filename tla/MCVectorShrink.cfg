SPECIFICATION Spec
CONSTANTS
    INITIAL_CAPACITY = 2
    Values = {v1, v2}
    NULL = NULL
    MaxSize = 6
    MaxCopies = 4
INVARIANT
    NoDoubleFree
CHECK_DEADLOCK FALSE
