SPECIFICATION Spec
CONSTANTS
    Threads = {t1, t2}
    Errors = {"ValueError", "NominalPhysicsViolation", "SafetyCriticalFailure"}
    Threshold = 10
    Window = 2
    Cooldown = 1
    HalfOpenMax = 2
    MaxEvents = 4
INVARIANTS
    ClosedIsWithinThreshold
PROPERTIES
    RecoveryIsEarned
    Recovers
CHECK_DEADLOCK FALSE
