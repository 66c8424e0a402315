SPECIFICATION FairSpec
CONSTANTS
    Clients = {ann, ben, cat}
    MAX_CLIENTS = 2
    MaxLines = 2
    MaxDepartures = 1
    NULL = NULL
INVARIANTS ListInBounds LinesWhole
PROPERTY LinesHeard
CHECK_DEADLOCK FALSE
