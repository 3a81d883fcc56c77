\* A decider that returns ContinueDecision.
SPECIFICATION Spec
CONSTANTS
    w1 = w1
    Workers = {w1}
    States = {"working"}
    initialState = "working"
    completeState = "complete"
    errorState = "error"
    PageSize = 100
    Closings = {"ActivityTaskCompleted"}
    MaxHistory = 8
    SerializerFails = FALSE
    MaxFaults = 0
    Behaviours = {"stay", "continue"}
    CompleteBehaviours = {"complete"}
    ErrorBehaviours = {"recover"}
    Effects = {"none"}
INVARIANTS
    RecordedStateExists
CHECK_DEADLOCK FALSE
