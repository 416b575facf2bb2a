\* Imports queued after an Init that returns early: it created a new
\* namespaces.json, or could not unmarshal the existing one.
CONSTANTS
    u1 = u1  c1 = c1  c2 = c2  k1 = k1  k2 = k2  h1 = h1  h2 = h2
    NONE = NONE
    ShortKey = ShortKey
    UserNames <- MCUserNames
    Claims <- MCClaims
    Keys <- MCOneKey
    Handlers <- MCOneHandler
    SavedNs <- MCSavedNs
    RootKeyArg = ShortKey
    SavedRootKey = k1
    ConfigFiles = {"absent", "corrupt"}
    QueueCap = 1
    MaxTrees = 3
    MaxImports = 1
    MaxCrashes = 0
    TreeInitFails = FALSE
SPECIFICATION FairSpec
PROPERTY ImportsEventuallyReceived
\* Clients and importers stop after the bounds.
CHECK_DEADLOCK FALSE
