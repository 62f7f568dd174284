SPECIFICATION Spec
CONSTANTS
    Alice = Alice
    Bob = Bob
    Carol = Carol
    Window = 2
    NoLimit = NoLimit
    FailureThreshold = 2
    Cooldown = 1
    Never = Never
    Jobs <- SmallJobs
    Models <- SmallModels
    Providers <- SmallProviders
    ProviderOf <- CatalogProvider
    MaxRetries <- OneRetry
    ModelLimits <- SmallLimits
    Price <- CatalogPrice
    Request <- SmallRequest
    Candidates <- SmallCandidates
    Errors <- EachKind
    Usages <- AnyUsage
    MaxTime = 2
    MaxFailures = 1
INVARIANTS
    TypeOK
    ReservationsHeld
    BooksBalance
    CallsWithinDailyLimit
PROPERTIES
    FirstUsableIsCalled
CHECK_DEADLOCK FALSE
