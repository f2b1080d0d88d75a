SPECIFICATION CursorSpec
CONSTANTS
    MaxByte = 3
    TagSize = 2
    Keys <- MCKeys
    Targets <- MCTargets
    Intervals = {1, 2}
    WriteFails = TRUE
INVARIANTS
    IterExact
    GetExact
CHECK_DEADLOCK FALSE
