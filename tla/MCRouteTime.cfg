SPECIFICATION TimeSpec
CONSTANTS
    NoDelay = NoDelay
    Silence = Silence
    Cut = Cut
    NoPause = NoPause
    Cloud <- CloudProfile
    Profiles <- BothProfiles
    Answers <- EachAnswer
    Delays = {0, 1}
    Arrivals = {0, 4}
    BrowserDeadline = 22
    FunctionDeadline = 24
INVARIANTS
    BudgetBelowDeadlines
    TimeAccounted
    PoliteRetries
CHECK_DEADLOCK FALSE
