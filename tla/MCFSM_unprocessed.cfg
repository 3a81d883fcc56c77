\* A decider that panics on the second event of a task.
SPECIFICATION Spec
CONSTANTS
    w1 = w1
    Workers = {w1}
    States = {"working"}
    initialState = "working"
    completeState = "complete"
    errorState = "error"
    PageSize = 100
    Closings = {"ActivityTaskCompleted"}
    MaxHistory = 8
    SerializerFails = FALSE
    MaxFaults = 0
    Behaviours = {"stay", "panic"}
    CompleteBehaviours = {"complete"}
    ErrorBehaviours = {"recover"}
    Effects = {"none"}
INVARIANTS
    ReportsUnprocessed
CHECK_DEADLOCK FALSE
