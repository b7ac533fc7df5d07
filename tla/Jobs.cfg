\* Two processes of two pages of two bytes, two commands.
SPECIFICATION JobsSpec
CONSTANTS
    PageSize = 2
    SignBit = 8
    NProcs = 2
    BlockSize = 2
    a = a
    b = b
    Bytes = {a, b}
    MCAddrs = {0, 1, 4}
    MCSteps = {0, 1, 3}
    MCAmounts = {0, 1, 3}
    Lines <- MCLines
    MaxLines = 2
    NoJob = NoJob
INVARIANTS JobsTypeOK JobInv RoomInv
PROPERTIES BytesRefined JobsEnd
CHECK_DEADLOCK FALSE
