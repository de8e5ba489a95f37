SPECIFICATION FairSpec
CONSTANTS
    Jobs = {j1, j2}
    Items = {a, b}
    NoItems = NoItems
    NoCorpus = NoCorpus
    Routes = Routes
    Tenants = {t1, t2}
    DatasetTenant = t1
    EndpointTenant = t1
    MaxRevision = 4
    MaxEndpointRevision = 2
    MaxRestart = 1
INVARIANTS
    ReadyCorpusIsOfItsItems
    CorpusCarriedForward
    RetirementIsFinal
    ItemsChangeOnlyByUpdate
    TenantIsolation
    ExecutedEndpointWasChecked
    EmbeddingHasOwner
PROPERTIES
    ImplementsDataset
    EmbeddingResolves
CHECK_DEADLOCK FALSE
