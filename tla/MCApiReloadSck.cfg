SPECIFICATION Spec
CONSTANTS
    Requests = {r1}
    NoRouter = NoRouter
    MaxVersion = 2
    MaxCrash = 1
INVARIANT
    KeyVersionNotAhead
