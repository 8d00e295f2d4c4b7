CONSTANTS
    a = a
    b = b
    c = c
    d = d
    Replica = {a, b, c, d}
    Faulty = {d}
    F = 1
    EarlyAba = FALSE
    FaultModel = "crash"
    MaxRound = 0
    InputSets = {{a, b}}
    Hears = {"BVAL", "AUX", "CONF"}
    MaxFaulty = 0
SPECIFICATION Spec
CHECK_DEADLOCK FALSE
CONSTRAINT Bound
ACTION_CONSTRAINT Schedule
INVARIANT ConfQuorumActedOn
