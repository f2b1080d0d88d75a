SPECIFICATION Spec
CONSTANTS
    MaxWrites = 2
    MaxOpens = 3
    MaxBusy = 1
    MaxPower = 2
    MaxFaults = 1
    MaxSwitch = 4
    MaxCompact = 6
    WriteBufferSize = 1
    TargetFileSize = 3
CONSTRAINT Small
INVARIANTS
    OpenSucceeds
    CrashSafe
    SyncedSurvive
    RestartExact
    SequenceFresh
    NumbersFresh
    NoGarbage
CHECK_DEADLOCK FALSE
