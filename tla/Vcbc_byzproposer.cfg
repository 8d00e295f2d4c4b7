CONSTANTS
    p = p
    a = a
    b = b
    c = c
    v = v
    w = w
    None = None
    Replica = {p, a, b, c}
    Faulty = {p}
    Proposer = p
    F = 1
    Value = {v, w}
    QuickSigVer = TRUE
    Workers = 1
    Removal = FALSE
    FaultModel = "arbitrary"
SPECIFICATION Spec
SYMMETRY Symm
CHECK_DEADLOCK FALSE
INVARIANT TypeOK
INVARIANT Consistency
PROPERTY ImplementsConsistentBroadcast
