SPECIFICATION DocumentSpec
CONSTANTS
    INITIAL_CAPACITY = 2
    Values = {empty, text}
    Empty = empty
    Text = text
    NULL = NULL
    MaxSize = 5
    MaxLines = 3
    MaxCopies = 4
INVARIANTS
    CapacityTight
    FreedOnce
PROPERTIES
    ImplementsList
    RoundTrip
CHECK_DEADLOCK FALSE
