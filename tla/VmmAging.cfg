\* Sweeps and progress: two processes of two pages each over two frames.
SPECIFICATION FairSpec
CONSTANTS
    Procs = {c1, c2}
    BlockSize = 2
    NFrames = 2
    NDiskPages = 4
    Values = {v0}
    Zero = v0
    AgeMsb = 2
    AgingFreq = 1
    MaxRefs = 2
    Pages <- MCPages
    NoPage = NoPage
    NoValue = NoValue
    Undefined = Undefined
    Daemon = Daemon
    NoProc = NoProc
    NoDiskPage = NoDiskPage
INVARIANTS IInv AgingInv DueInv StatsInv NoDeadlock
PROPERTIES ReadersKeepMapping FaultServed AgingServed
