\* The Scrutinizer against the committed State when Info rolls back inside a block.
CONSTANTS
    p1 = p1  p2 = p2  e1 = e1  e2 = e2  v1 = v1  v2 = v2
    NONE = NONE
    Pids <- MCPids
    Entities <- MCEntities
    Voters <- MCVoters
    ProcessTypes <- MCProcessTypes
    NumKeys = 1
    Duration = 2
    MaxHeight = 2
    MaxTxPerBlock = 2
    MaxCrashes = 0
    CrashDuringSave = FALSE
    InfoDuringBlock = TRUE
SPECIFICATION Spec
SYMMETRY MCSymmetry
INVARIANT LiveResultsMatchEnvelopes
INVARIANT ListPagesEnumerateKeys
\* The engine stops producing blocks at MaxHeight.
CHECK_DEADLOCK FALSE
