SPECIFICATION CursorSpec
CONSTANTS
    MaxByte = 3
    TagSize = 2
    Keys <- LongKeys
    Targets <- LongKeys
    Intervals = {1}
    WriteFails = FALSE
INVARIANTS SeparatorsValid
CHECK_DEADLOCK FALSE
