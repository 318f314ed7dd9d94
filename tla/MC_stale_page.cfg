SPECIFICATION Spec
CONSTANTS
    NumPages = 4
    NumSegments = 2
    SEGMENTSIZE = 2
    Pids = {1, 2}
    Sizes = {1}
    MaxBlocks = 3
    ReusesMemory = TRUE
    WildPointers = {}
    UserBytes = {0}
    StoresAway = FALSE
INVARIANTS
    PagesMapped
