CONSTANTS
    a = a
    b = b
    c = c
    d = d
    Replica = {a, b, c, d}
    Faulty = {d}
    F = 1
    EarlyAba = FALSE
    FaultModel = "arbitrary"
    MaxRound = 0
    InputSets = {{a, b}, {a, b, c}}
    Hears = {"BVAL", "AUX", "CONF", "COIN", "TERM"}
    MaxFaulty = 1
SPECIFICATION Spec
CHECK_DEADLOCK FALSE
CONSTRAINT Bound
ACTION_CONSTRAINT Schedule
INVARIANT TypeOK
INVARIANT Validity
INVARIANT OneSingleton
INVARIANT OnlyConfsStall
PROPERTY ImplementsBinaryAgreement
