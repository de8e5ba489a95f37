SPECIFICATION Spec
CONSTANTS
    Jobs = {j1, j2}
    Items = {a, b}
    NoItems = NoItems
    NoCorpus = NoCorpus
    Routes = Routes
    Tenants = {t1}
    DatasetTenant = t1
    EndpointTenant = t1
    MaxRevision = 4
    MaxEndpointRevision = 2
    MaxRestart = 1
INVARIANT FailureIsRecorded
CHECK_DEADLOCK FALSE
