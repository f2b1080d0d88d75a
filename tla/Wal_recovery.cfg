SPECIFICATION FairSpec
CONSTANTS
    BlockSize = 6
    HeaderSize = 2
    Sizes = {2, 3, 9}
    MaxRecords = 2
    MaxCrashes = 2
    WriteFails = TRUE
    ReuseLogs = TRUE
INVARIANTS
    NoPhantomRecords
    NoFalseAlarm
    ReadBack
PROPERTIES RecoveryEnds
CHECK_DEADLOCK FALSE
