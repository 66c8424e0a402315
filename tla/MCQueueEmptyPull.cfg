SPECIFICATION FairSpec
CONSTANTS
    NULL = NULL
    Producers = {p1, p2}
    Consumers = {c1, c2}
    MaxCalls = 2
    MaxSizes <- Sizes
INVARIANTS
    PullFindsItem
CHECK_DEADLOCK FALSE
