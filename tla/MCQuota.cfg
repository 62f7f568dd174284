SPECIFICATION Spec
CONSTANTS
    Window = 2
    NoLimit = NoLimit
    ModelLimits <- SmallLimits
    Price <- UnitPrice
    Requests <- SmallAndLarge
    Usages <- AnyUsage
    MaxTime = 3
    MaxDay = 1
    MaxGrants = 4
INVARIANTS
    TypeOK
    RequestsPerMinute
    RequestsPerDay
    ReservationsMatch
    WindowTokensExact
    DailyExact
    TokensPerMinute
PROPERTIES
    AdmissionWithinLimits
CHECK_DEADLOCK FALSE
