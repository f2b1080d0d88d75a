SPECIFICATION FlushedSpec
CONSTANTS
    Ops <- ThreeKeys
    MaxWrites = 5
    WriteBufferSize = 1
    NumLevels = 3
    MaxMemCompactLevel = 1
    L0Trigger = 9
    MaxBytesForLevel1 = 9
    GrandParentLimit = 9
    ExpandLimit = 9
    MaxSSTSize = 1
    MaxSnapshots = 0
    Readers = {}
    Callers = {c1}
    Ranges <- Everything
    Faults = {}
INVARIANT LevelsDisjoint
CHECK_DEADLOCK FALSE
