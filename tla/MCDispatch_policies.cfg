\* One client, all policies, three threads on four units of two sockets.
SPECIFICATION Spec
CONSTANTS
    c1 = c1
    NumLpus = 4
    NumSockets = 2
    SocketOf <- Blocked
    NumThreads = 3
    AssignPolicy = 0
    Policies = {"any_core", "on_core", "same_core_as", "on_socket", "same_socket_as", "linear_socket", "alternating_socket"}
    Clients = {c1}
    MaxTickets = 4
INVARIANTS TypeOK EveryTicketIsServed UnitsTakeTurns
CHECK_DEADLOCK FALSE
