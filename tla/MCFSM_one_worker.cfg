\* A single worker, deciders that complete or fail, a complete state that completes at every event, error states that take over.
SPECIFICATION FairSpec
CONSTANTS
    w1 = w1
    Workers = {w1}
    States = {"working"}
    initialState = "working"
    completeState = "complete"
    errorState = "failed"
    PageSize = 100
    Closings = {"ActivityTaskCompleted"}
    MaxHistory = 9
    SerializerFails = FALSE
    MaxFaults = 1
    Behaviours = {"stay", "complete", "panic"}
    CompleteBehaviours = {"complete"}
    ErrorBehaviours = {"goto", "recover", "restore"}
    Effects = {"activity"}
INVARIANTS
    StreamInOrder
    StreamInv
    StateInv
    RecordedStateExists
PROPERTIES
    CompletionTakesEffect
    EventsAreHandled
CHECK_DEADLOCK FALSE
