SPECIFICATION Spec
CONSTANTS
    Calls = {w1, w2, w3}
    Readers = {}
    MaxBatch = 1
    SmallBatch = 1
    MaxGroup = 2
    WriteBufferSize = 0
    L0Trigger = 1
    L0Slowdown = 1
    L0Stop = 2
    Faults = {"append"}
    Batches <- SmallBatches
    Syncs = {TRUE, FALSE}
    Spurious = FALSE
SYMMETRY Symmetry
INVARIANTS WalGuaranteesPersistence
CHECK_DEADLOCK FALSE
