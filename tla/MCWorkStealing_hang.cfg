\* Does the destructor of the pool over std::deque end?
SPECIFICATION FairSpec
CONSTANTS
    c1 = c1  c2 = c2
    t1 = t1  t2 = t2  t3 = t3  t4 = t4
    NumThreads = 2
    Clients = {c1}
    Tasks = {t1}
    Kinds = {"deque"}
    NoTask = NoTask
PROPERTY ShutdownEnds
CHECK_DEADLOCK FALSE
