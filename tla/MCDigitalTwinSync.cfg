SPECIFICATION SyncSpec
CONSTANTS
    a = a
    b = b
    d1 = d1
    r1 = r1
    Threads = {a, b, c}
    Syncers = {a, b}
    Inputs <- MeetingInputs
    Detectors = {d1}
    Rooms = {r1}
    Entry = {"planned", "ok"}
    Forces = {FALSE}
    Verifieds = {FALSE}
    LogCap = 1
    MaxOps = 5
    MaxClientOps = 2
INVARIANTS
    ResultIsTrue
    CommissionSurvives
    UndisturbedSyncIsComplete
CHECK_DEADLOCK FALSE
SYMMETRY SyncSymmetry
VIEW WithoutLogs
