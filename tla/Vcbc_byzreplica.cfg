CONSTANTS
    p = p
    a = a
    b = b
    c = c
    v = v
    w = w
    None = None
    Replica = {p, a, b, c}
    Faulty = {c}
    Proposer = p
    F = 1
    Value = {v, w}
    QuickSigVer = FALSE
    Workers = 2
    Removal = TRUE
    FaultModel = "arbitrary"
SPECIFICATION FairSpec
CHECK_DEADLOCK FALSE
INVARIANT Integrity
INVARIANT FinalBacked
PROPERTY Totality
