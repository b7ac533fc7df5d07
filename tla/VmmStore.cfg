\* Contents: two processes of two pages each over two frames; no sweeps.
SPECIFICATION Spec
CONSTANTS
    Procs = {c1, c2}
    BlockSize = 2
    NFrames = 2
    NDiskPages = 4
    Values = {v0, v1}
    Zero = v0
    AgeMsb = 1
    AgingFreq = 9
    MaxRefs = 3
    Pages <- MCPages
    NoPage = NoPage
    NoValue = NoValue
    Undefined = Undefined
    Daemon = Daemon
    NoProc = NoProc
    NoDiskPage = NoDiskPage
SYMMETRY ProcSymmetry
INVARIANTS TypeOK FrameInv FaultInv BackingInv AccessInv CoherenceInv
PROPERTIES VMRefined BSRefined
