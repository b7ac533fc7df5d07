\* A slot used again while its last thread ends.
SPECIFICATION ProcFairSpec
CONSTANTS
    NProcs = 1
    MaxJobs = 1
    MaxCreates = 2
    Spurious = FALSE
PROPERTY CreateReturns
CHECK_DEADLOCK FALSE
