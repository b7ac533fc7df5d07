\* A wait that looks at no predicate.
SPECIFICATION ProcSpec
CONSTANTS
    NProcs = 2
    MaxJobs = 1
    MaxCreates = 2
    Spurious = TRUE
INVARIANT DeletionWaits
CHECK_DEADLOCK FALSE
