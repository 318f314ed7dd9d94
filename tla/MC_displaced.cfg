SPECIFICATION Spec
CONSTANTS
    NumPages = 4
    NumSegments = 2
    SEGMENTSIZE = 2
    Pids = {1, 2}
    Sizes = {1, 3}
    MaxBlocks = 3
    ReusesMemory = FALSE
    WildPointers = {}
    UserBytes = {0, 7}
    StoresAway = TRUE
PROPERTIES
    OnlyStraysRefused
