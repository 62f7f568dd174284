SPECIFICATION PageSpec
CONSTANTS
    MaxSource = 10
    MaxFiles = 3
    FirstHeader = 2
    NextHeader = 3
    Selections <- SmallSelections
    SampleFile = "s"
    Loads <- TwoLoads
    MaxJobs = 2
    Absent = Absent
INVARIANTS
    PageTypeOK
    NamesDescribeSource
    TabsTellTheTruth
PROPERTIES
    LossIsReported
CHECK_DEADLOCK FALSE
