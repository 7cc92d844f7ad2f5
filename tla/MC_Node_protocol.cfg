\* The CO follows the lifecycle, retries failed calls and times out up to two
\* calls, which tonic cancels at their await; the CO then repeats them.
\* Two volumes, one read-only, two calls in flight at once.
CONSTANTS
    s1 = s1
    t1 = t1
    s2 = s2
    t2 = t2
    v1 = v1
    v2 = v2
    OwnerPair = OwnerPair
    RootPair = RootPair
    EmptyPath = EmptyPath
    Owner = OwnerPair
    Root = RootPair
    Empty = EmptyPath
    Dirs <- MCDirs
    Vols <- MCVols
    Links = {}
    InitOwner <- MCInitOwner
    Whitelist <- MCWhitelist
    ReadOnlyBit = {}
    Reqs <- MCReqs
    Missing <- MCMissing
    Staging <- MCStaging
    Target <- MCTarget
    ReaderOnly <- MCReaderOnly
    MaxTimeouts = 2
SPECIFICATION Spec
INVARIANTS
    NodeTypeOK
    PublishedShowsVolume
    UnstagedNotMounted
    ReaderOnlyStaysReadOnly
PROPERTY
    LifecycleRefined
    RetriesConverge
