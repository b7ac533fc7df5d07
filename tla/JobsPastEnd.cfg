\* A job that runs on to the end of the memory of its process.
SPECIFICATION JobsSpec
CONSTANTS
    PageSize = 2
    SignBit = 8
    NProcs = 2
    BlockSize = 2
    a = a
    b = b
    Bytes = {a, b}
    MCAddrs = {0, 1, 4}
    MCSteps = {0, 1, 3}
    MCAmounts = {0, 1, 3}
    Lines <- MCLines
    MaxLines = 2
    NoJob = NoJob
INVARIANT StopsAtEnd
CHECK_DEADLOCK FALSE
