\* Three clients in main memory, they may lock again what they hold for reading
\* and wait for each other in a circle.
CONSTANTS
    Threads = {t1, t2, t3}
    MemIds = {1, 2}
    Remote = {}
    CPU = cpu
    None = none
    QuietSources = FALSE
    SelfWaits = FALSE
    MaxLocks = 4
SPECIFICATION FairSpec
CHECK_DEADLOCK FALSE
INVARIANTS TypeOK CountsMatchLocks Exclusion NoLostWakeup
PROPERTIES ImplementsAccessLock NobodyLeftBehind
