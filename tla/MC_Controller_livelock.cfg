\* n1 asks for 3 units, which lvcreate rounds up to 4; room for both names,
\* one CO timeout, one round: a create cancelled after lvcreate leaves an LV
\* of 4 units that every retry of the same request finds.
CONSTANTS
    n1 = n1
    n2 = n2
    Names <- MCNames
    ReqSize <- MCReqSizeUnaligned
    Reqs <- MCReqs
    Extent = 2
    VGSize = 8
    Spare = 1
    MinSize = 2
    MaxUuid = 4
    MaxRounds = 1
    MaxTimeouts = 1
SPECIFICATION SpecTimeouts
PROPERTY CoFinishes
CHECK_DEADLOCK FALSE
