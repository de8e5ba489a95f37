SPECIFICATION Spec
CONSTANTS
    MaxMints = 1
    Slots = {s1, s2}
    MaxSends = 1
    MaxOthers = 1
    MaxFailures = 2
    MaxSwitches = 1
    MaxLeaves = 1
INVARIANTS
    GreetedOncePerRefresh
PROPERTIES
    CatchesUp
CHECK_DEADLOCK FALSE
