SPECIFICATION Spec
CONSTANTS
    Clients = {ann, ben, cat}
    MAX_CLIENTS = 2
    MaxLines = 2
    MaxDepartures = 1
    NULL = NULL
PROPERTY BroadcastReachesAll
CHECK_DEADLOCK FALSE
