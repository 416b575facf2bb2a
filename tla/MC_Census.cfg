\* Namespaces, requests, imports and a crash with restart interleaved, every start-up config.
CONSTANTS
    u1 = u1  c1 = c1  c2 = c2  k1 = k1  k2 = k2  h1 = h1  h2 = h2
    NONE = NONE
    ShortKey = ShortKey
    UserNames <- MCUserNames
    Claims <- MCClaims
    Keys <- MCOneKey
    Handlers <- MCOneHandler
    SavedNs <- MCSavedNs
    RootKeyArg = ShortKey
    SavedRootKey = k1
    ConfigFiles = {"absent", "corrupt", "present"}
    QueueCap = 1
    MaxTrees = 2
    MaxImports = 2
    MaxCrashes = 1
    TreeInitFails = FALSE
SPECIFICATION Spec
SYMMETRY MCSymmetry
INVARIANT NamespacesMatchTrees
PROPERTY ImplementsCensusRegistry
\* Clients and importers stop after the bounds.
CHECK_DEADLOCK FALSE
