\* Two addClaim requests racing an import whose root does not match.
CONSTANTS
    u1 = u1  c1 = c1  c2 = c2  k1 = k1  k2 = k2  h1 = h1  h2 = h2
    NONE = NONE
    ShortKey = ShortKey
    UserNames <- MCUserNames
    Claims <- MCClaims
    Keys <- MCOneKey
    Handlers <- MCHandlers
    SavedNs <- MCSavedNs
    RootKeyArg = ShortKey
    SavedRootKey = k1
    ConfigFiles = {"present"}
    QueueCap = 1
    MaxTrees = 3
    MaxImports = 1
    MaxCrashes = 0
    TreeInitFails = FALSE
SPECIFICATION Spec
\* Claims are interchangeable in this property.
SYMMETRY MCSymmetry
PROPERTY ClaimsAddedToLiveCensus
\* Clients and importers stop after the bounds.
CHECK_DEADLOCK FALSE
