SPECIFICATION ProcessorSpec
CONSTANTS
    f = f
    Event = {a, b}
    Urgent = {b}
    Key = {k}
    KeyOf <- MCKeyOf
    Worker = {v, w}
    Flusher = {f}
    None = none
    Spawned = 1
    MaxRetries = 1
    Threshold = 3
    Window = 1
    Setups <- MCSetups
    MaxClock = 4
INVARIANTS
    OneFateEach
    OpensWithReason
PROPERTIES
    EveryEventEnds
CHECK_DEADLOCK FALSE
