SPECIFICATION Spec
CONSTANTS
    Workflows = {w1}
    Unreviewed = {}
    MaxCrashes = 2
INVARIANTS
    NeverSkipsValidation
    UnprotectedNeverCompletes
    TrailExplains
CHECK_DEADLOCK FALSE
