\* A CO paging through ListVolumes while volumes come and go: does every
\* listing end, with every volume of a group that did not change?
CONSTANTS
    n1 = n1
    n2 = n2
    Names <- MCNames
    LvOrder <- MCLvOrder
    MaxEntries <- MCMaxEntries
    Extent = 1
    VGSize = 2
    Spare = 0
    MaxUuid = 3
SPECIFICATION Spec
PROPERTY ListingComplete
