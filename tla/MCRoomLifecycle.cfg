CONSTANTS
    t1 = t1
    t2 = t2
    r1 = r1
    r2 = r2
    Threads = {t1, t2}
    Rooms = {r1, r2}
    Goals <- Workflow
    Asks = {"all_certified", "any_warnings", "building_status"}
    MaxObjects = 2
    MaxMoves = 7
SYMMETRY Interchangeable
SPECIFICATION RoomSpec
INVARIANTS
    HistoryExplains
    CertifiedWasVerified
    GateHolds
CHECK_DEADLOCK FALSE
