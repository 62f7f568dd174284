SPECIFICATION Spec
CONSTANTS
    Alice = Alice
    Bob = Bob
    a = a
    b = b
    Workers <- TwoWorkers
    Names <- TwoNames
    Pipeline <- SharedPipeline
    NoCode = NoCode
    NoProgram = NoProgram
    Policy <- SmallPolicy
INVARIANTS
    NoContainerAfterTimeout
CHECK_DEADLOCK FALSE
