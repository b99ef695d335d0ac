\* Two workers that steal from each other, with all three lists.
SPECIFICATION FairSpec
CONSTANTS
    c1 = c1  c2 = c2
    t1 = t1  t2 = t2  t3 = t3  t4 = t4
    NumThreads = 2
    Clients = {c1}
    Tasks = {t1, t2, t3, t4}
    Kinds = {"deque", "lockfree"}
    NoTask = NoTask
INVARIANTS TypeOK TaskInOnePlace NoLostWakeup NoTrashedSteal
PROPERTIES ImplementsExecutor EverythingEnds
CHECK_DEADLOCK FALSE
