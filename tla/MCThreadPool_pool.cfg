\* All implementations without work stealing, one task throws.
SPECIFICATION FairSpec
CONSTANTS
    c1 = c1  c2 = c2
    t1 = t1  t2 = t2  t3 = t3
    NumThreads = 2
    Clients = {c1, c2}
    Tasks = {t1, t2, t3}
    Accepts <- OnCores
    Faulty = {t1}
    Kinds = {"affinity", "deque", "lockfree"}
    Shared = FALSE
    Spurious = {"constructor", "worker", "client"}
    NoTask = NoTask
INVARIANTS TypeOK TaskInOnePlace NoLostWakeup WaitersAreTold NothingLostAtShutdown
PROPERTIES ImplementsExecutor EverythingEnds
CHECK_DEADLOCK FALSE
