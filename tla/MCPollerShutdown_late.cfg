\* A poller registers while StopPollers runs.
SPECIFICATION FairSpec
CONSTANTS
    p1 = p1
    p2 = p2
    c1 = c1
    Pollers = {p1, p2}
    Names = {p1, p2}
    name <- DistinctNames
    Callers = {c1}
    Early = FALSE
    Removable = {}
    Nobody = Nobody
PROPERTIES
    StopPollersReturns
CHECK_DEADLOCK FALSE
