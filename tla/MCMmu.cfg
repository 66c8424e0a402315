SPECIFICATION Spec
CONSTANTS
    NULL = NULL
    Processes = {p1, p2}
    num_addresses = 2
    num_iterations = 2
    VirtualAddresses <- Addresses
    MAX_NODES = 3
    MAX_PROCESS_ID = 2
    PAGE_NUMBER_LENGTH = 1
    OFFSET_LENGTH = 1
INVARIANTS
    TranslationsConsistent
    FaultsExact
    EverythingFreed
PROPERTIES
    ImplementsLru
CHECK_DEADLOCK FALSE
