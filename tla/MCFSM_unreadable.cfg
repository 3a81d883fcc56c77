\* A decider that leaves data the serializer refuses.
SPECIFICATION Spec
CONSTANTS
    w1 = w1
    Workers = {w1}
    States = {"working"}
    initialState = "working"
    completeState = "complete"
    errorState = "error"
    PageSize = 100
    Closings = {"ActivityTaskCompleted"}
    MaxHistory = 8
    SerializerFails = FALSE
    MaxFaults = 0
    Behaviours = {"stay", "unserializable"}
    CompleteBehaviours = {"complete"}
    ErrorBehaviours = {"recover"}
    Effects = {"none"}
INVARIANTS
    RecordedIsReadable
CHECK_DEADLOCK FALSE
