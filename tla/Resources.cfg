SPECIFICATION ResSpec
CONSTANTS
    NBits = 6
    Width = 3
    BlockSize = 2
    NoDiskPage = NoDiskPage
    Keys <- MCKeys
    Vals <- MCVals
    NoVal = NoDiskPage
    Queues = {p1, p2, p3, p4}
    Procs = {p1, p2, p3, p4}
    Nodes = {n1, n2, n3}
    Items = {a, b}
    Null = Null
    NoProc = NoProc
SYMMETRY MCSymmetry
INVARIANTS ResTypeOK FirstInv OwnInv QueueInv
PROPERTIES BSRefined MailRefined
CHECK_DEADLOCK FALSE
