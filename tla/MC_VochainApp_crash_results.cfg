\* A crash while a checkFinishedProcesses goroutine is pending.
CONSTANTS
    p1 = p1  p2 = p2  e1 = e1  e2 = e2  v1 = v1  v2 = v2
    NONE = NONE
    Pids <- MCPids
    Entities <- MCLiveEntities
    Voters <- MCLiveVoters
    ProcessTypes <- MCLiveProcessTypes
    NumKeys = 1
    Duration = 2
    MaxHeight = 4
    MaxTxPerBlock = 2
    MaxCrashes = 1
    CrashDuringSave = FALSE
    InfoDuringBlock = FALSE
SPECIFICATION FairSpec
PROPERTY RevealedProcessGetsResults
\* The engine stops producing blocks at MaxHeight.
CHECK_DEADLOCK FALSE
