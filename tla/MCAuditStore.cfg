SPECIFICATION Spec
CONSTANTS
    Verifiers = {a1}
    NoThread = none
    p1 = p1
    p2 = p2
    a1 = a1
    a2 = a2
    b1 = b1
    Procs = {p1, p2}
    Threads = {a1, a2, b1}
    ProcOf <- TwoAndOne
    EnvKey = FALSE
    Ecdsa = TRUE
    MaxFresh = 4
    MaxStops = 1
INVARIANTS
    ForksOnlyAcrossProcesses
    UnsignedOnlyByFailure
    NoFalseAlarm
PROPERTIES
    LockReturns
CHECK_DEADLOCK FALSE
