\* An enqueuer, the owner of a list and a thief.
SPECIFICATION Spec
CONSTANTS
    p1 = p1  p2 = p2  p3 = p3
    Threads = {p1, p2, p3}
    Uses <- Stealing
    NumTasks = 8
    NumNodes = 6
    Nobody = nobody
    Lengths = {2, 3}
    MaxCalls = 3
INVARIANT QuietListIsLinked
CHECK_DEADLOCK FALSE
