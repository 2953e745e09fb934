SPECIFICATION FairStartSpec
CONSTANTS
    p1 = p1
    p2 = p2
    Processes <- TwoProcesses
    Nobody = Nobody
    LockFileFails = TRUE
    UnusableRetries = 2
    MaxDeletes = 1
    MaxLoads = 1
INVARIANTS
    StartTypeOK
    OnlyATakeOverWritesBesideTheHolder
PROPERTIES
    TakenOverSessionsAskBeforeDiscarding
    RunningDeletesAreLeftAlone
    OpensEnd
    WaitEndsOnceTheDirectoryIsFree
CHECK_DEADLOCK FALSE
