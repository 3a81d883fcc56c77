SPECIFICATION FairSpec
CONSTANTS
    States = {"working", "waiting"}
    initialState = "working"
    completeState = "complete"
    errorState = "error"
    PageSize = 100
    Closings = {"ActivityTaskCompleted"}
    MaxHistory = 100
    historySize = 15
    Requests <- MCRequests
    MaxDelivered = 1
    MaxFires = 1
INVARIANTS
    TypeOK
    RunInv
    EverySignalCounts
    WorkIsScheduled
    RefusedForNewsOnly
    VersionsNeverGoBack
PROPERTIES
    ContinuedStateIsCurrent
    ContinuationIsTried
CHECK_DEADLOCK FALSE
