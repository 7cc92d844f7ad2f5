\* One request at a time: a read-only mount, then its retry.
CONSTANTS
    d1 = d1  d2 = d2  d3 = d3  d4 = d4  v1 = v1  l1 = l1
    OwnerPair = OwnerPair  RootPair = RootPair  EmptyPath = EmptyPath
    Dirs <- MCDirs
    Vols <- MCVols
    Links <- MCNoLinks
    Owner <- OwnerPair
    Root <- RootPair
    InitOwner <- MCInitOwner
    Whitelist <- MCWhitelist
    ReadOnlyBit <- MCReadOnly
    Empty <- EmptyPath
    Reqs <- MCOneReq
    MountReqs <- MCOneReq
    Missing <- MCMissing
    MaxStack = 2
    ArgPaths <- MCAllPaths
    ArgFlags <- MCAllFlags
SPECIFICATION Spec
INVARIANT OwnedWhenMountOK
