CONSTANTS
    x = x
    y = y
    None = None
    Batch = {x, y}
    N = 2
    F = 0
    Faulty = {}
    MaxEpoch = 4
    MaxSlot = 1
    Slot <- MCSlot
    MaxConcurrent = 1
    MaxOffset = 2
    DelayBc = FALSE
    Benchmark = FALSE
    Workers = 1
    Repeats = "elsewhere"
    BatchSize = 1
SPECIFICATION Spec
SYMMETRY Symm
CHECK_DEADLOCK FALSE
INVARIANT TypeOK
INVARIANT HeadNotRemoved
INVARIANT HeadsAgree
PROPERTY ImplementsAtomicBroadcast
