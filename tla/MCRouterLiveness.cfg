SPECIFICATION FairSpec
CONSTANTS
    Alice = Alice
    Bob = Bob
    Carol = Carol
    Window = 1
    NoLimit = NoLimit
    FailureThreshold = 2
    Cooldown = 1
    Never = Never
    Jobs <- SmallJobs
    Models <- SmallModels
    Providers <- SmallProviders
    ProviderOf <- CatalogProvider
    MaxRetries <- TwoRetries
    ModelLimits <- TwoCallLimits
    Price <- CatalogPrice
    Request <- SmallRequest
    Candidates <- SmallCandidates
    Errors <- EachKind
    Usages <- OneUsage
    MaxTime = 0
    MaxFailures = 0
PROPERTIES
    JobsEnd
    KeepsPromise
CHECK_DEADLOCK FALSE
