\* Two names of whole-extent sizes (4 and 2 units) in a group of 5 with 1
\* spare, which holds one of them at a time; two CO timeouts, one
\* create/delete round per name: the lvcreate that finds the group full
\* is retried until the other name's volume is deleted, a create cancelled
\* after lvcreate is retried and reuses its LV, and retrying converges.
CONSTANTS
    n1 = n1
    n2 = n2
    Names <- MCNames
    ReqSize <- MCReqSize
    Reqs <- MCReqs
    Extent = 2
    VGSize = 5
    Spare = 1
    MinSize = 2
    MaxUuid = 4
    MaxRounds = 1
    MaxTimeouts = 2
SPECIFICATION SpecTimeouts
PROPERTY CoFinishes
INVARIANTS ControllerTypeOK CoVolumeExists
CHECK_DEADLOCK FALSE
