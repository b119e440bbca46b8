SPECIFICATION ReportSpec
CONSTANTS
    Threads = {w}
    Reporters = {q}
    Calls = {"health", "coverage", "drift", "snapshot"}
    Detectors = {d1, d2}
    Rooms = {r1, r2}
    Entry = {"planned"}
    Forces = {TRUE, FALSE}
    Verifieds = {FALSE}
    LogCap = 1     \* the reports read no log
    MaxOps = 3
INVARIANTS
    NoSilentGap
    ReportsWhatWas
    UndisturbedIsExact
SYMMETRY Symmetry
CHECK_DEADLOCK FALSE
