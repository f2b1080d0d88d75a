SPECIFICATION CursorSpec
CONSTANTS
    kMaxHeight = 2
    UserKeys = {1, 2, 3}
    MaxSequence = 5
    Layouts <- MCLayouts
INVARIANTS
    LevelsSound
    CursorExact
    MemGetExact
CHECK_DEADLOCK FALSE
