\* Calls that overlap with each other, with late registrations and with Deregister of a poller.
SPECIFICATION FairSpec
CONSTANTS
    p1 = p1
    p2 = p2
    c1 = c1
    c2 = c2
    Pollers = {p1, p2}
    Names = {p1, p2}
    name <- DistinctNames
    Callers = {c1, c2}
    Early = FALSE
    Removable = {p1}
    Nobody = Nobody
INVARIANTS
    AwaitedHaveReturned
PROPERTIES
    StopsAreHeeded
CHECK_DEADLOCK FALSE
