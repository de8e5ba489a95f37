SPECIFICATION Spec
CONSTANTS
    MaxMints = 1
    Slots = {s1, s2}
    MaxSends = 0
    MaxOthers = 0
    MaxFailures = 0
    MaxSwitches = 1
    MaxLeaves = 0
INVARIANT
    GreetedOncePerMount
CHECK_DEADLOCK FALSE
