SPECIFICATION FairSpec
CONSTANTS
    MaxLines = 3
    Lengths = {1, 3, 4, 6, 8}
    MaxLength = 8
    PAGE = 4
    Starts = {0, 3}
    Ends = {5, 9, 13}
    ThreadNums = {1, 2, 3, 4}
    Addresses = {a1, a2, a3}
    BlockSizes = {1, 3}
    MaxUsage = 8
    Words = {1, 2, 3, 4}
    MaxLookups = 2
INVARIANTS
    JournalInOrder
    CountRight
    AccountsTrue
    LookupsRight
PROPERTIES
    JournalEnds
CHECK_DEADLOCK FALSE
