SPECIFICATION Spec
CONSTANTS
    NumPages = 4
    NumSegments = 2
    SEGMENTSIZE = 2
    Pids = {0, 1}
    Sizes = {1, 3}
    MaxBlocks = 3
    ReusesMemory = FALSE
    WildPointers = {}
    UserBytes = {0, 7}
    StoresAway = FALSE
INVARIANTS
    TypeOK
    PagesMapped
    BlocksDisjoint
    NothingLeaks
PROPERTIES
    CallsReturn
