SPECIFICATION Spec
CONSTANTS
    Window = 2
    NoLimit = NoLimit
    ModelLimits <- DayLimit
    Price <- UnitPrice
    Requests <- SmallAndLarge
    Usages <- UsageWithinEstimate
    MaxTime = 1
    MaxDay = 1
    MaxGrants = 4
INVARIANTS
    TokensPerDay
CHECK_DEADLOCK FALSE
