CONSTANTS
    None = None
    Batch = {0, 1}
    N = 4
    F = 1
    Faulty = {0}
    MaxEpoch = 1
    MaxSlot = 0
    Slot <- MCSlot
    MaxConcurrent = 1
    MaxOffset = 2
    DelayBc = FALSE
    Benchmark = TRUE
    Workers = 1
    Repeats = "never"
    BatchSize = 1
SPECIFICATION Spec
CHECK_DEADLOCK FALSE
CONSTRAINT OwnBatch
CONSTRAINT OneFirst
CONSTRAINT LastMisses
CONSTRAINT StartsUnseen
CONSTRAINT ZeroStops
INVARIANT WaitingEnds
