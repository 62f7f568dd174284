SPECIFICATION FairReadersSpec
CONSTANTS
    stdout = stdout
    stderr = stderr
    Streams <- TwoStreams
    Limits <- SmallLimits
    Chunk = 2
    Capacity = 3
    MaxWritten = 5
    NoResult = NoResult
INVARIANTS
    ReaderExact
    ResultComplete
PROPERTIES
    NeverBlocked
    ResultComes
CHECK_DEADLOCK FALSE
