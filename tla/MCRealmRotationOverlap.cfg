SPECIFICATION RotationSpec
CONSTANTS
    Tasks = {t1, t2}
    Lifetime = 2
    RunTimeout = 2
    DrainFirst = FALSE
    MaxKey = 2
    MaxTime = 4
INVARIANT
    OverlapSuffices
CHECK_DEADLOCK FALSE
