\* A batch to a kernel that is still being loaded, on the ring of the code.
CONSTANTS
    Ring = 8
    c1 = c1
    c2 = c2
    i1 = i1
    i2 = i2
    i3 = i3
    i4 = i4
    k1 = k1
    k2 = k2
    k3 = k3
    Instrs = {i1, i2, i3, i4}
    Answers = {}
    Kernels = {k1, k2, k3}
    Knows <- Opcodes
    Clients = {c1}
    Batches <- Queues
    Straight = FALSE
    Prompt = TRUE
    Noop = Noop
    Halt = Halt
    None = None
SPECIFICATION Spec
CHECK_DEADLOCK FALSE
INVARIANT FinishedWasExecuted
