SPECIFICATION TestFairSpec
INVARIANTS
    PrintsInOrder
    BothInBounds
PROPERTY
    AllOrdersPass
