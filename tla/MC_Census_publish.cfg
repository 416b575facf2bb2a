\* publish racing a write to the census it publishes.
CONSTANTS
    u1 = u1  c1 = c1  c2 = c2  k1 = k1  k2 = k2  h1 = h1  h2 = h2
    NONE = NONE
    ShortKey = ShortKey
    UserNames <- MCUserNames
    Claims <- MCClaims
    Keys <- MCOneKey
    Handlers <- MCHandlers
    SavedNs <- MCSavedNs
    RootKeyArg = ShortKey
    SavedRootKey = k1
    ConfigFiles = {"present"}
    QueueCap = 1
    MaxTrees = 3
    MaxImports = 0
    MaxCrashes = 0
    TreeInitFails = FALSE
SPECIFICATION Spec
PROPERTY CensusNamedByItsRoot
\* Clients and importers stop after the bounds.
CHECK_DEADLOCK FALSE
