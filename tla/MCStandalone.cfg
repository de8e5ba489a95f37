SPECIFICATION Spec
CONSTANTS
    endpoint = endpoint
    t1 = t1
    t2 = t2
    Tasks = {task}
    Names = {n1, n2}
    Endpoints = {endpoint}
    NoEndpoint = NoEndpoint
    Tenants = {t1, t2}
    Owner <- MCOwner
    Realms = {realm1, realm2}
    Services = {service}
    NoService = NoService
    Impls = {"embed", "unknown"}
    Registered = {"embed"}
    MaxRevision = 2
    MaxByte = 4
    Window = 2
    MaxFiles = 3
    MaxChange = 2
    Runs = {r1, r2, r3}
    SubmoduleRuns = 2
    VendorRuns = 2
    VendorEdits = 1
    FetchRuns = 3
INVARIANTS
    LoweredFromOneFreshRevision
    VerifiedRealmStands
    FaithfulStream
    InnermostReported
    ProductNamed
    OneAdministrator
    RegisteredOnce
    SuccessIsComplete
    VendoredFaithfully
    BundleMatchesManifest
PROPERTY
    NoStaleAnswer
CHECK_DEADLOCK FALSE
