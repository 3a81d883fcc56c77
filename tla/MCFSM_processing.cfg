\* Two workers, two faults, deciders that never fail and schedule an activity for every signal, pages shorter than the history.
SPECIFICATION Spec
CONSTANTS
    w1 = w1
    w2 = w2
    Workers = {w1, w2}
    States = {"working"}
    initialState = "working"
    completeState = "complete"
    errorState = "error"
    PageSize = 8
    Closings = {"ActivityTaskCompleted"}
    MaxHistory = 11
    SerializerFails = FALSE
    MaxFaults = 2
    Behaviours = {"stay"}
    CompleteBehaviours = {"complete"}
    ErrorBehaviours = {"error"}
    Effects = {"activity"}
SYMMETRY WorkerSymmetry
INVARIANTS
    NoEventLost
    ReplicatedWasRecorded
    VersionCountsCleanTasks
    CleanPendingIsInFlight
    EffectsAtMostOnce
    LedgerInv
CHECK_DEADLOCK FALSE
PROPERTIES
    SequentialSpec
