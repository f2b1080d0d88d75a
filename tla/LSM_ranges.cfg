SPECIFICATION Spec
CONSTANTS
    Ops <- Puts
    MaxWrites = 3
    WriteBufferSize = 1
    NumLevels = 3
    MaxMemCompactLevel = 1
    L0Trigger = 2
    MaxBytesForLevel1 = 2
    GrandParentLimit = 0
    ExpandLimit = 4
    MaxSSTSize = 1
    MaxSnapshots = 0
    Readers = {r1}
    Callers = {c1, c2}
    Ranges <- Both
    Faults = {"flush", "compaction"}
SYMMETRY Symmetry
CONSTRAINT IteratorOrTwoCallers
INVARIANTS FilesPresent RefsExact RangeCompacted ManualAlive
CHECK_DEADLOCK FALSE
