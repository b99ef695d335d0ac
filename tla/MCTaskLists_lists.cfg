\* Three threads; on a CASDeque only two if they pop at both ends.
SPECIFICATION FairSpec
CONSTANTS
    p1 = p1  p2 = p2  p3 = p3
    Threads = {p1, p2, p3}
    Uses <- Proper
    NumTasks = 8
    NumNodes = 6
    Nobody = nobody
    Lengths = {0, 1, 2, 3, 4}
    MaxCalls = 3
INVARIANTS TypeOK QuietListIsLinked ElementsHaveOneOwner
PROPERTIES ImplementsDeque EveryCallReturns
CHECK_DEADLOCK FALSE
