\* Two slots, a slot used again, spurious wake-ups.
SPECIFICATION ProcFairSpec
CONSTANTS
    NProcs = 2
    MaxJobs = 2
    MaxCreates = 3
    Spurious = TRUE
INVARIANTS ProcTypeOK MailInv SlotInv HandshakeInv ServiceInv
PROPERTIES JobsServed DeleteServed ExitServed
CHECK_DEADLOCK FALSE
