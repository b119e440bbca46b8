SPECIFICATION Spec
CONSTANTS
    Ids = {1, 2}
    Types = {"design"}
    Hosts = {"ext", "local"}
    Address <- Resolved
    AllowHttp = TRUE
    AllowedHosts = {}
    Offers <- Tried
    MaxRetries = 2
    PoolSize = 1
    DlqMax = 1
    Publishers = {p1}
    Replayers = {r1, r2}
    None = None
    MaxEvents = 1
    MaxReplays = 2
    MaxChanges = 3
    MaxFailures = 1
    MaxLost = 2
CHECK_DEADLOCK FALSE
INVARIANTS
    OnePlaceEach
    NobodyForgotten
PROPERTIES
    AcceptedAgainOnlyUnanswered
    CallsReturn
