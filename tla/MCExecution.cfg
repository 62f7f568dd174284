SPECIFICATION FairSpec
CONSTANTS
    Alice = Alice
    Bob = Bob
    a = a
    b = b
    Workers <- TwoWorkers
    Names <- TwoNames
    Pipeline <- SharedPipeline
    NoCode = NoCode
    NoProgram = NoProgram
    Policy <- SmallPolicy
INVARIANTS
    TypeOK
    StepsDoNotOverlap
    SuccessIsReal
    OrphanOnlyIfMissed
PROPERTIES
    VerifyEnds
CHECK_DEADLOCK FALSE
