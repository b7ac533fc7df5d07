\* The hash lists of a table of three entries.
SPECIFICATION IptSpec
CONSTANTS
    NFrames = 3
    AgeMsb = 1
    MaxRefCount = 1
    Pages <- MCPages
    NoPage = NoPage
INVARIANTS IptTypeOK ListsInv LookupInv
PROPERTY PTRefined
