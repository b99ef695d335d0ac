\* A copy that waits for its destination reads a source under write.
CONSTANTS
    Threads = {t1, t2}
    MemIds = {1, 2}
    Remote = {gpu}
    CPU = cpu
    None = none
    QuietSources = FALSE
    SelfWaits = TRUE
    MaxLocks = 4
SPECIFICATION Spec
SYMMETRY Symmetry
CHECK_DEADLOCK FALSE
INVARIANT NoTornCopies
