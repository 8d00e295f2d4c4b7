CONSTANTS
    a = a
    b = b
    c = c
    None = None
    Replica = {a, b, c}
    StopSets = {{}, {c}}
    F = 1
    Tx <- MCTx
    Each = 2
    MaxEpoch = 1
    Late = c
    Caller = {"client"}
    Clients <- MCClients
SPECIFICATION FairSpec
CHECK_DEADLOCK FALSE
ACTION_CONSTRAINT Schedule
INVARIANT TypeOK
INVARIANT SameBlocks
INVARIANT NothingLost
INVARIANT SkipsOnlyByRepeat
INVARIANT RestsBetweenEpochs
PROPERTY ImplementsAtomicBroadcast
PROPERTY EpochsEnd
