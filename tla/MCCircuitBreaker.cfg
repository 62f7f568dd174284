SPECIFICATION Spec
CONSTANTS
    FailureThreshold = 2
    Cooldown = 2
    Never = Never
    MaxTime = 5
    MaxCalls = 3
    MaxOutcomes = 5
INVARIANTS
    TypeOK
    FailuresExact
    GateExact
CHECK_DEADLOCK FALSE
