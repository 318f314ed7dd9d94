SPECIFICATION Spec
CONSTANTS
    Creators = {c1, c2, c3}
    Calls = 2
INVARIANT UniqueIds
CHECK_DEADLOCK FALSE
