SPECIFICATION TwinSpec
CONSTANTS
    Threads = {t1, t2}
    Detectors = {d1, d2}
    Rooms = {r1}
    Entry = {"planned"}
    Forces = {TRUE, FALSE}
    Verifieds = {FALSE}
    LogCap = 2     \* the third event pushes the first out
    MaxOps = 3
INVARIANTS
    NoLostUpdate
    InThreadOrder
PROPERTIES
    ImplementsLifecycle
    EveryOpAnnounced
CHECK_DEADLOCK FALSE
