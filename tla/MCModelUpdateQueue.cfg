SPECIFICATION Spec
CONSTANTS
    a1 = a1
    a2 = a2
    a3 = a3
    Actions = {a1, a2, a3}
    Priorities <- Urgencies
    Outcomes = {"completed", "failed"}
    MaxSize = 2
    Nothing = nothing
    MaxWaits = 1
INVARIANTS
    AnswerIsTrue
    NothingLost
PROPERTIES
    RefinesActionQueue
CHECK_DEADLOCK FALSE
