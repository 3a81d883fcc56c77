\* Deciders that stay or panic; error states that stay, restore, recover, return nil or unserializable data; a serializer that refuses; error signals arrive, activities close; pages shorter than the history; one fault.
SPECIFICATION Spec
CONSTANTS
    w1 = w1
    w2 = w2
    Workers = {w1, w2}
    States = {"working"}
    initialState = "working"
    completeState = "complete"
    errorState = "error"
    PageSize = 12
    Closings = {"ActivityTaskCompleted"}
    MaxHistory = 10
    SerializerFails = TRUE
    MaxFaults = 1
    Behaviours = {"stay", "panic"}
    CompleteBehaviours = {"complete"}
    ErrorBehaviours = {"error", "restore", "recover", "unserializable", "nil"}
    Effects = {"activity"}
SYMMETRY WorkerSymmetry
INVARIANTS
    TypeOK
    IInv
    RecordInv
    ShownAtMostOnce
PROPERTIES
    VersionsFollow
CHECK_DEADLOCK FALSE
