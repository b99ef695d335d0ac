\* Two clients, two devices, the sources of copies left alone.
CONSTANTS
    Threads = {t1, t2}
    MemIds = {1, 2}
    Remote = {gpu, ocl}
    CPU = cpu
    None = none
    QuietSources = TRUE
    SelfWaits = TRUE
    MaxLocks = 3
SPECIFICATION Spec
SYMMETRY Symmetry
CHECK_DEADLOCK FALSE
INVARIANTS DirectoryIsCoherent HoldersSeeCurrent NoTornCopies
