\* Two devices, two tasks that ask idle() of which one throws before it asks
\* or after a no, one flush, one restart.  After a throw a wait may never
\* return.
CONSTANTS
    NumGpus = 2
    MaxRestarts = 1
    c1 = c1
    c2 = c2
    t1 = t1
    t2 = t2
    s1 = s1
    s2 = s2
    Clients = {c1, c2}
    Uses <- AloneOrTogether
    Tasks = {t1, t2, s1, s2}
    Flushers = {c1}
    Synch <- SynchTasks
    Curious = {t1, t2}
    Faulty = {t2}
    Spurious = TRUE
    NoTask = NoTask
SPECIFICATION FairSpec
CHECK_DEADLOCK FALSE
INVARIANTS TypeOK IdleTellsWhereOneIs FlushDrains
PROPERTIES ImplementsExecutor EverythingEnds
