SPECIFICATION FairSpec
CONSTANTS
    Calls = {w1, w2, w3}
    Readers = {}
    MaxBatch = 1
    SmallBatch = 1
    MaxGroup = 2
    WriteBufferSize = 0
    L0Trigger = 1
    L0Slowdown = 1
    L0Stop = 1
    Faults = {"manifest"}
    Batches <- FullBatches
    Syncs = {FALSE}
    Spurious = FALSE
INVARIANTS L0Bounded
PROPERTIES
    WritesReturn
    ImmFlushed
    CloseReturns
CHECK_DEADLOCK FALSE
