SPECIFICATION BridgeSpec
CONSTANTS
    Servers = {s}
    Direct = {d}
    LocalCap = 2
    MaxUpdates = 3
    MaxSessions = 1
INVARIANTS
    NothingLostOrTwice
    AnswersAreTrue
    StrandedIsExplained
PROPERTIES
    AcceptedIsExecuted
CHECK_DEADLOCK FALSE
