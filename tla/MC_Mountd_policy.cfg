\* One caller mounts with any arguments while a second unmounts any path in
\* parallel, no symlinks: the policy, the idempotency of mount() and the
\* privilege boundary under every interleaving of a mount's check, mount(2)
\* and chown with a racing umount(2).
CONSTANTS
    d1 = d1  d2 = d2  d3 = d3  d4 = d4  v1 = v1  l1 = l1
    OwnerPair = OwnerPair  RootPair = RootPair  EmptyPath = EmptyPath
    Dirs <- MCDirs
    Vols <- MCVols
    Links <- MCNoLinks
    Owner <- OwnerPair
    Root <- RootPair
    InitOwner <- MCInitOwner
    Whitelist <- MCWhitelist
    ReadOnlyBit <- MCReadOnly
    Empty <- EmptyPath
    Reqs <- MCTwoReqs
    MountReqs <- MCOneReq
    Missing <- MCMissing
    MaxStack = 2
    ArgPaths <- MCAllPaths
    ArgFlags <- MCAllFlags
SPECIFICATION Spec
INVARIANTS
    MountdTypeOK
    NoStackedMounts
    OwnerConfined
