SPECIFICATION FairSpec
CONSTANTS
    MaxCompanies = 3
    MaxInterns = 4
    Nobody = Nobody
INVARIANTS
    OwnersHold
    NeverExits
    NoCircularWait
PROPERTY
    MainEnds
CHECK_DEADLOCK FALSE
