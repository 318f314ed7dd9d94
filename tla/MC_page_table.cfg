SPECIFICATION Spec
CONSTANTS
    HT_SIZE = 4
    NumPages = 3
    Pids = {0, 1}
    Keys = {0, 1}
    Vals = {0, 1}
    Null = Null
INVARIANT TypeOK
PROPERTY ImplementsPageTable
