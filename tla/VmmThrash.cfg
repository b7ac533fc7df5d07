\* Two processes fault for ever, each evicting the page of the other.
SPECIFICATION FairSpec
CONSTANTS
    Procs = {c1, c2}
    BlockSize = 2
    NFrames = 2
    NDiskPages = 4
    Values = {v0}
    Zero = v0
    AgeMsb = 1
    AgingFreq = 9
    MaxRefs = 2
    Pages <- MCPages
    NoPage = NoPage
    NoValue = NoValue
    Undefined = Undefined
    Daemon = Daemon
    NoProc = NoProc
    NoDiskPage = NoDiskPage
PROPERTY AccessCompletes
