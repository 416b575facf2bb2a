\* Crashes inside State.Save, between the store commit and the listeners.
CONSTANTS
    p1 = p1  p2 = p2  e1 = e1  e2 = e2  v1 = v1  v2 = v2
    NONE = NONE
    Pids <- MCPids
    Entities <- MCEntities
    Voters <- MCVoters
    ProcessTypes <- MCProcessTypes
    NumKeys = 1
    Duration = 2
    MaxHeight = 3
    MaxTxPerBlock = 2
    MaxCrashes = 1
    CrashDuringSave = TRUE
    InfoDuringBlock = FALSE
SPECIFICATION Spec
INVARIANT LiveResultsMatchEnvelopes
\* The engine stops producing blocks at MaxHeight.
CHECK_DEADLOCK FALSE
