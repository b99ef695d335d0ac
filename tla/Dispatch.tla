------------------------------ MODULE Dispatch ------------------------------
(***************************************************************************)
(* Where the multicore backend sends its tasks (honei/backends/multicore): *)
(* the processor topology (topology.cc), the threads that                  *)
(* AffinityImplementation puts on it and the successors it computes for    *)
(* the policies (thread_pool.cc), the tickets that the policies hand out   *)
(* (dispatch_policy.hh), and their reader, TaskComp (thread_task.hh).      *)
(*                                                                         *)
(* DispatchPolicy::last is one static variable without a lock: a policy    *)
(* copies it when it is made, apply() assigns it, and then returns it,     *)
(* three steps.  The assignment copies two shared pointers one after the   *)
(* other (ticket.cc); it is one step here, so that several clients never   *)
(* find it half done.                                                      *)
(***************************************************************************)
EXTENDS Integers, Sequences, FiniteSets

CONSTANTS
    NumLpus,      \* logical processing units
    NumSockets,   \* sockets, or NUMA nodes
    SocketOf,     \* the socket of each unit
    NumThreads,   \* mc::num_threads
    AssignPolicy, \* mc::thread_assignment: 0 linear, 1 alternating
    Policies,     \* the policies that clients use
    Clients,      \* threads that dispatch tasks
    MaxTickets    \* the bound on the number of tickets

Lpus == 0..NumLpus - 1
Sockets == 0..NumSockets - 1

None == 65535    \* 0xFFFF: no such requirement

PolicyNames == {"any_core", "on_core", "same_core_as", "on_socket", "same_socket_as",
                "linear_socket", "alternating_socket"}

ASSUME SizeAssumption == /\ NumLpus \in 2..None-1 /\ NumSockets \in 1..NumLpus
                         /\ NumThreads \in Nat \ {0} /\ MaxTickets \in Nat
(* Sockets of equal size, unit 0 on the first: otherwise enumerate_numainfo*)
(* reads past the end of a socket's _lpus.                                 *)
ASSUME SocketAssumption ==
    /\ SocketOf \in [Lpus -> Sockets]
    /\ SocketOf[0] = 0
    /\ \A s \in Sockets : Cardinality({l \in Lpus : SocketOf[l] = s}) * NumSockets = NumLpus
ASSUME PolicyAssumption == AssignPolicy \in {0, 1} /\ Policies \subseteq PolicyNames

VARIABLES
    tickets,   \* the tickets, in the order of their creation
    last,      \* DispatchPolicy::last, as an index into tickets, or 0
    applying,  \* where each client is in apply(), and a ticket: the value of
               \* last in its policy, then the one that it has assigned
    tasks      \* the tasks: the ticket each was asked to get, and the one it got

vars == <<tickets, last, applying, tasks>>

-----------------------------------------------------------------------------
(* Topology.  A unit's position in the two cyclic orders, linear_succ and  *)
(* alternating_succ, that start with unit 0.                               *)

Rank(l) == Cardinality({k \in Lpus : SocketOf[k] = SocketOf[l] /\ k < l})

LinearPos ==
    [l \in Lpus |->
        Cardinality({k \in Lpus : \/ SocketOf[k] < SocketOf[l]
                                  \/ SocketOf[k] = SocketOf[l] /\ k < l})]

AlternatingPos ==
    [l \in Lpus |->
        Cardinality({k \in Lpus : \/ Rank(k) < Rank(l)
                                  \/ Rank(k) = Rank(l) /\ SocketOf[k] < SocketOf[l]})]

AssignedPos == IF AssignPolicy = 0 THEN LinearPos ELSE AlternatingPos

(* Thread i serves this unit; several threads share one if there are more  *)
(* threads than units.                                                     *)
LpuOf(i) == CHOOSE l \in Lpus : AssignedPos[l] = i % NumLpus

Workers == 0..NumThreads - 1

Threaded == {LpuOf(i) : i \in Workers}

(* The unit of S that comes next after l in the cyclic order pos.          *)
Follower(l, S, pos) ==
    LET Distance(k) == (pos[k] - pos[l] - 1) % NumLpus
    IN  CHOOSE k \in S : \A j \in S : Distance(k) <= Distance(j)

LinearEnqueueSucc ==
    [l \in Threaded |-> Follower(l, {k \in Threaded : SocketOf[k] = SocketOf[l]}, LinearPos)]

AlternatingEnqueueSucc == [l \in Threaded |-> Follower(l, Threaded, AlternatingPos)]

-----------------------------------------------------------------------------
(* The policies.  `arg' is a unit, a socket, or an earlier ticket.         *)

Ticket(socket, sched, how, arg) == [socket |-> socket, sched |-> sched, how |-> how, arg |-> arg]

\* Mutant: has_thread is not looked at.
OnCoreOfAll(c) == Ticket(None, IF c \in Lpus THEN c ELSE None, "on_core", c)

\* Mutant: `>' for `>=' in the comparison with num_lpus().
OnCoreOffByOne(c) == Ticket(None, IF c = NumLpus \/ c \in Threaded THEN c ELSE None, "on_core", c)

OnCore(c) == Ticket(None, IF c \in Threaded THEN c ELSE None, "on_core", c)

OnSocket(s) == Ticket(IF \E l \in Threaded : SocketOf[l] = s THEN s ELSE None, None, "on_socket", s)

SameCore(i) == Ticket(None, tickets[i].sched, "same_core_as", i)

SameSocket(i) == Ticket(IF tickets[i].sched = None THEN None ELSE SocketOf[tickets[i].sched],
                        None, "same_socket_as", i)

SchedOf(i) == IF i = 0 THEN None ELSE tickets[i].sched

After(i, succ, how) ==
    LET l == IF SchedOf(i) = None THEN 0 ELSE succ[SchedOf(i)]
    IN  Ticket(SocketOf[l], l, how, None)

(* What a policy may make of the history `l'.                              *)
NewTickets(l) ==
    {Ticket(None, None, "any_core", None)}
    \cup {OnCore(c) : c \in 0..NumLpus}
    \cup {OnSocket(s) : s \in 0..NumSockets}
    \cup {SameCore(i) : i \in 1..Len(tickets)}
    \cup {SameSocket(i) : i \in 1..Len(tickets)}
    \cup {After(l, LinearEnqueueSucc, "linear_socket")}
    \cup {After(l, AlternatingEnqueueSucc, "alternating_socket")}

-----------------------------------------------------------------------------
(* enqueue(): make the policy, last = policy(), return last.               *)

Applying(at, i) == [at |-> at, ticket |-> i]

Init == /\ tickets = <<>>
        /\ last = 0
        /\ applying = [c \in Clients |-> Applying("idle", 0)]
        /\ tasks = {}

MakePolicy(c) ==
    /\ applying[c].at = "idle"
    /\ Len(tickets) < MaxTickets
    /\ applying' = [applying EXCEPT ![c] = Applying("policy", last)]
    /\ UNCHANGED <<tickets, last, tasks>>

CallPolicy(c) ==
    /\ applying[c].at = "policy"
    /\ Len(tickets) < MaxTickets
    /\ \E t \in NewTickets(applying[c].ticket) : t.how \in Policies /\ tickets' = Append(tickets, t)
    /\ applying' = [applying EXCEPT ![c] = Applying("assigned", Len(tickets'))]
    /\ UNCHANGED tasks

\* Mutant: the history is not stored.
AssignForgotten(c) == CallPolicy(c) /\ UNCHANGED last

Assign(c) == CallPolicy(c) /\ last' = Len(tickets')

ReturnLast(c) ==
    /\ applying[c].at = "assigned"
    /\ tasks' = tasks \cup {[asked |-> applying[c].ticket, got |-> last]}
    /\ applying' = [applying EXCEPT ![c] = Applying("idle", 0)]
    /\ UNCHANGED <<tickets, last>>

Next == \E c \in Clients : MakePolicy(c) \/ Assign(c) \/ ReturnLast(c)

Spec == Init /\ [][Next]_vars

-----------------------------------------------------------------------------
(* TaskComp: whether the worker on unit l may take a task with ticket t.   *)
Accepts(l, t) == IF t.sched = None THEN t.socket \in {None, SocketOf[l]} ELSE t.sched = l

Acceptors(t) == {w \in Workers : Accepts(LpuOf(w), t)}

-----------------------------------------------------------------------------
Requirements(S) == S \cup {None}

TypeOK ==
    /\ \A i \in 1..Len(tickets) : /\ tickets[i].socket \in Requirements(Sockets)
                                  /\ tickets[i].sched \in Requirements(Lpus)
    /\ last \in 0..Len(tickets)
    /\ applying \in [Clients -> [at : {"idle", "policy", "assigned"}, ticket : 0..Len(tickets)]]

(* Every ticket any policy hands out, however policies are chained, is     *)
(* accepted by at least one worker, so that no task stays on the list for  *)
(* ever: ThreadPool's assumption on Accepts.  Whoever accepts a task that  *)
(* was to go where a task bound to a unit went is on that unit's socket.   *)
EveryTicketIsServed ==
    \A i \in 1..Len(tickets) :
        /\ Acceptors(tickets[i]) # {}
        /\ tickets[i].how \in {"same_core_as", "same_socket_as"} /\ tickets[tickets[i].arg].sched # None =>
             \A w \in Acceptors(tickets[i]) : SocketOf[LpuOf(w)] = SocketOf[tickets[tickets[i].arg].sched]

Dispatched(l) == Cardinality({i \in 1..Len(tickets) : tickets[i].sched = l})

(* One client that uses the alternating default serves the units in turn:  *)
(* no unit with a thread ever gets two more tasks than another.            *)
UnitsTakeTurns ==
    (\A i \in 1..Len(tickets) : tickets[i].how = "alternating_socket") =>
        \A k, l \in Threaded : Dispatched(k) - Dispatched(l) \in -1..1

(* No two tasks share a ticket, or it would be marked more than once (the  *)
(* ASSERT of mark()), and the wait for one task would end with the other.  *)
(* It holds for one client; of two in apply() at the same time both may    *)
(* return the ticket that was assigned last.                               *)
OneTaskPerTicket == \A a, b \in tasks : a.got = b.got => a = b
=============================================================================
