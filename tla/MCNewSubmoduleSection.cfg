SPECIFICATION Spec
CONSTANTS
    MaxRuns = 1
INVARIANT
    PatchEndsItsSection
CHECK_DEADLOCK FALSE
