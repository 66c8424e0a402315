SPECIFICATION FairSpec
CONSTANTS
    NULL = NULL
    Producers = {p1, p2}
    Consumers = {c1, c2}
    MaxCalls = 2
    MaxSizes <- Sizes
INVARIANTS
    LoneConsumerFindsItem
    NothingLeaks
PROPERTIES
    ImplementsFifo
    AllCallsReturn
CHECK_DEADLOCK FALSE
