SPECIFICATION FairSpec
CONSTANTS
    Inputs <- InputFiles
    MaxCores = 2
    MaxQuantum = 2
    NULL = NULL
INVARIANTS
    PlacesAgree
    QueueInOrder
    BestJobsRun
    RoundRobinBound
    StatsTrue
PROPERTY
    AlwaysFinishes
CHECK_DEADLOCK FALSE
