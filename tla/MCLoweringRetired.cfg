SPECIFICATION LoweringSpec
CONSTANTS
    own = own
    foreign = foreign
    t1 = t1
    t2 = t2
    Tasks = {task}
    Names = {n1, n2}
    Endpoints = {own, foreign}
    NoEndpoint = NoEndpoint
    Tenants = {t1, t2}
    Owner <- MCOwner
    Realms = {r1, r2}
    Services = {s1}
    NoService = NoService
    Impls = {"embed", "unknown"}
    Registered = {"embed"}
    MaxRevision = 2
INVARIANT
    RetiredFailsAtLowerer
