SPECIFICATION Spec
CONSTANTS
    Requests <- Names
    Header <- SmallHeader
    Asks <- SmallAsks
    Configs <- SmallConfigs
    AccessKeys = {"", "primary"}
    Unset = ""
    BetaKey = "beta"
    None = None
    Threads = 2
    Capacity = 2
INVARIANTS
    OverrunBound
    RefusedForFree
CHECK_DEADLOCK FALSE
