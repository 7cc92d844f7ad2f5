\* n1 unaligned (3 units, rounded to 4), a group of 7 with 1 spare that
\* cannot hold both volumes, one CO timeout: answers the spec forbids.
CONSTANTS
    n1 = n1
    n2 = n2
    Names <- MCNames
    ReqSize <- MCReqSizeTight
    Reqs <- MCReqs
    Extent = 2
    VGSize = 7
    Spare = 1
    MinSize = 2
    MaxUuid = 4
    MaxRounds = 1
    MaxTimeouts = 1
SPECIFICATION SpecTimeouts
INVARIANT AnswersAsSpecified
CHECK_DEADLOCK FALSE
