\* tr.Init fails on a listed census at Init, and the census is added again.
CONSTANTS
    u1 = u1  c1 = c1  c2 = c2  k1 = k1  k2 = k2  h1 = h1  h2 = h2
    NONE = NONE
    ShortKey = ShortKey
    UserNames <- MCUserNames
    Claims <- MCClaims
    Keys <- MCOneKey
    Handlers <- MCOneHandler
    SavedNs <- MCSavedNs
    RootKeyArg = ShortKey
    SavedRootKey = k1
    ConfigFiles = {"present"}
    QueueCap = 1
    MaxTrees = 2
    MaxImports = 0
    MaxCrashes = 0
    TreeInitFails = TRUE
SPECIFICATION Spec
INVARIANT NsFileListsEachOnce
\* Clients and importers stop after the bounds.
CHECK_DEADLOCK FALSE
