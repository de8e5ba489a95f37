SPECIFICATION FairSpec
CONSTANTS
    Tasks = {first, second}
    Lifetime = 2
    RunTimeout = 2
    DrainFirst = TRUE
    MaxKey = 3
    MaxTime = 4
    Ids = {a, b, e}
    EmptyId = e
    Alien = x
    MaxItems = 3
    MaxBatch = 2
    MaxCorpusItems = 2
INVARIANTS
    NoLiveTokenRefused
    LowererKeyKnown
    RetiredKeyIsDead
    BatchesTile
    ParseMatchesReference
    StoredCorpusIsComplete
PROPERTIES
    RotationProceeds
    Terminates
CHECK_DEADLOCK FALSE
