SPECIFICATION Spec
CONSTANTS
    Ops <- TwoKeys
    MaxWrites = 3
    WriteBufferSize = 2
    NumLevels = 3
    MaxMemCompactLevel = 1
    L0Trigger = 2
    MaxBytesForLevel1 = 1
    GrandParentLimit = 0
    ExpandLimit = 4
    MaxSSTSize = 1
    MaxSnapshots = 2
    Readers = {}
    Callers = {}
    Ranges = {}
    Faults = {"flush", "move"}
INVARIANTS LevelsDisjoint ReadExact NewerAbove
CHECK_DEADLOCK FALSE
