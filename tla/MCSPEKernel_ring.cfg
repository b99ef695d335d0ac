\* A ring of four, three kernels, four instructions.  The client and the
\* loading thread may embrace each other for ever.
CONSTANTS
    Ring = 4
    c1 = c1
    c2 = c2
    i1 = i1
    i2 = i2
    i3 = i3
    i4 = i4
    k1 = k1
    k2 = k2
    k3 = k3
    Instrs = {i1, i2, i3, i4}
    Answers = {i2}
    Kernels = {k1, k2, k3}
    Knows <- Opcodes
    Clients = {c1, c2}
    Batches <- Queues
    Straight = TRUE
    Prompt = TRUE
    Noop = Noop
    Halt = Halt
    None = None
SPECIFICATION FairSpec
CHECK_DEADLOCK FALSE
INVARIANTS TypeOK IdleMeansIdle FinishedWasExecuted
PROPERTIES ImplementsExecutor EverythingEnds
