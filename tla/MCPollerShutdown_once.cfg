\* One call of StopPollers, after all three pollers have registered.
SPECIFICATION FairSpec
CONSTANTS
    p1 = p1
    p2 = p2
    p3 = p3
    c1 = c1
    Pollers = {p1, p2, p3}
    Names = {p1, p2, p3}
    name <- DistinctNames
    Callers = {c1}
    Early = TRUE
    Removable = {}
    Nobody = Nobody
INVARIANTS
    TypeOK
    AllHaveReturned
PROPERTIES
    GracefulSpec
    StopPollersReturns
CHECK_DEADLOCK FALSE
