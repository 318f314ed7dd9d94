SPECIFICATION Spec
CONSTANTS
    NumPages = 6
    NumSegments = 2
    SEGMENTSIZE = 2
    Pids = {1, 2}
    Sizes = {1, 3, 7}
    MaxBlocks = 1
    ReusesMemory = TRUE
    WildPointers = {1, 2}
    UserBytes = {7}
    StoresAway = FALSE
INVARIANTS
    PagesMapped
PROPERTIES
    Resident
    FreesBlocksOnly
