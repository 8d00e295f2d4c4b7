CONSTANTS
    p = p
    a = a
    b = b
    c = c
    v = v
    w = w
    None = None
    Junk = Junk
    Replica = {p, a, b, c}
    Proposer = p
    F = 1
    FaultySend <- MCSend
    FaultyEcho <- MCEcho
    Value = {v, w}
    StopSets = {{c}}
    ArbitrarySets = {{p}, {c}}
SPECIFICATION FairSpec
CHECK_DEADLOCK FALSE
ACTION_CONSTRAINT Schedule
INVARIANT TypeOK
INVARIANT ReadiesAgree
INVARIANT Retrievable
INVARIANT Integrity
INVARIANT StopConsistency
PROPERTY ImplementsConsistentBroadcast
PROPERTY Delivery
