CONSTANTS
    None = None
    Batch = {0, 1}
    N = 2
    F = 0
    Faulty = {}
    MaxEpoch = 3
    MaxSlot = 0
    Slot <- MCSlot
    MaxConcurrent = 1
    MaxOffset = 2
    DelayBc = TRUE
    Benchmark = FALSE
    Workers = 2
    Repeats = "never"
    BatchSize = 1
SPECIFICATION FairSpec
CHECK_DEADLOCK FALSE
CONSTRAINT OwnBatch
PROPERTY ImplementsAtomicBroadcast
PROPERTY Delivery
PROPERTY AgreedIsDelivered
