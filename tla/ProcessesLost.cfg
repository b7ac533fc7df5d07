\* A lost signal of job_done.
SPECIFICATION ProcFairSpec
CONSTANTS
    NProcs = 2
    MaxJobs = 2
    MaxCreates = 2
    Spurious = FALSE
PROPERTY CommandReturns
CHECK_DEADLOCK FALSE
