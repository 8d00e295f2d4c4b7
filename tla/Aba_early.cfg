CONSTANTS
    a = a
    b = b
    c = c
    d = d
    Replica = {a, b, c, d}
    Faulty = {}
    F = 1
    EarlyAba = TRUE
    FaultModel = "silent"
    MaxRound = 0
    InputSets = {{a, b}}
    Hears = {"BVAL"}
    MaxFaulty = 0
SPECIFICATION Spec
CHECK_DEADLOCK FALSE
CONSTRAINT Bound
ACTION_CONSTRAINT Schedule
INVARIANT Agreement
