\* Safety of the block lifecycle with crashes outside State.Save.
CONSTANTS
    p1 = p1  p2 = p2  e1 = e1  e2 = e2  v1 = v1  v2 = v2
    NONE = NONE
    Pids <- MCPids
    Entities <- MCEntities
    Voters <- MCVoters
    ProcessTypes <- MCProcessTypes
    NumKeys = 1
    Duration = 2
    MaxHeight = 3
    MaxTxPerBlock = 2
    MaxCrashes = 1
    CrashDuringSave = FALSE
    InfoDuringBlock = FALSE
SPECIFICATION Spec
SYMMETRY MCSymmetry
INVARIANT TypeOK
INVARIANT LiveResultsMatchEnvelopes
INVARIANT EntityIndexMatchesState
INVARIANT ProcessScheduledOnce
\* The engine stops producing blocks at MaxHeight.
CHECK_DEADLOCK FALSE
