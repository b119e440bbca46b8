SPECIFICATION Spec
CONSTANTS
    room = room
    route = route
    t1 = t1
    t2 = t2
    Nodes = {room, route}
    Rooms = {room}
    Reads <- ReadsOf
    Contents = {a, b}
    Versions = {v1, v2}
    Legacy = Legacy
    MaxSize = 2
    Ttl = FALSE
    Threads = {t1, t2}
    None = None
    MaxEdits = 1
    MaxCalls = 4
    MaxSessions = 1
SYMMETRY Symmetric
CHECK_DEADLOCK FALSE
INVARIANTS
    AnswerIsOwn
    BorrowedOnce
    StaleIsExplained
