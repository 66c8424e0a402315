SPECIFICATION SolveFairSpec
CONSTANTS
    Threads = {t1, t2, t3}
    Rounds = 6
    UINT_MAX = 1
    Sizes = {1, 2, 5}
    GRANULARITY = 2
INVARIANTS
    RoundsInStep
    NeverLapped
    NoLostWakeup
    SameAsSerial
    StopTogether
PROPERTIES
    ImplementsPromise
    AllStop
