SPECIFICATION Spec
CONSTANTS
    Calls = {w1, w2, w3}
    Readers = {r1}
    MaxBatch = 2
    SmallBatch = 1
    MaxGroup = 4
    WriteBufferSize = 0
    L0Trigger = 1
    L0Slowdown = 1
    L0Stop = 2
    Faults = {"append", "sync", "create", "close", "build", "manifest"}
    Batches <- AllBatches
    Syncs = {TRUE, FALSE}
    Spurious = TRUE
SYMMETRY Symmetry
CONSTRAINT ReadsBeforeErrors
INVARIANTS
    TypeOK
    SnapshotRead
    Recoverable
    SyncDurable
    NoWorkAfterClose
PROPERTIES ImplementsAtomicStore
CHECK_DEADLOCK FALSE
