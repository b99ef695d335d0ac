---------------------------- MODULE WorkStealing ----------------------------
(***************************************************************************)
(* The multicore thread pool with work stealing (WorkStealingImplementation*)
(* in honei/backends/multicore/thread_pool.cc, WorkStealingThreadFunction  *)
(* in thread_function.cc): a task list per worker, from which idle workers *)
(* steal.  Tickets, waiting clients and the rest of the pool are as in     *)
(* ThreadPool; here a client only enqueues.                                *)
(*                                                                         *)
(* kind is "deque" (std::deque under local_mutex, thieves under            *)
(* steal_mutex) or "lockfree" (CASDeque or ConcurrentDeque; nothing but    *)
(* the list operations themselves is atomic until the pool's mutex).  A    *)
(* section that only takes mutexes which their holders give back without   *)
(* waiting is one step; the one place where a worker holds its local_mutex *)
(* while it asks for another mutex is the place "sleepy".                  *)
(***************************************************************************)
EXTENDS Integers, Sequences

CONSTANTS
    NumThreads,  \* mc::num_threads
    Clients,     \* threads that enqueue tasks
    Tasks,       \* the calls of enqueue() there are: the bound on the work
    Kinds,       \* the kinds of pools to consider
    NoTask       \* the null pointer

Workers == 1..NumThreads

ASSUME NumThreadsAssumption == NumThreads \in Nat \ {0}
ASSUME TasksAssumption == NoTask \notin Tasks
ASSUME KindAssumption == Kinds \subseteq {"deque", "lockfree"}

VARIABLES
    kind,            \* mc::listtype
    main,            \* the thread in the pool's constructor or destructor
    worker,          \* the thread functions: where each is, the task it has
    lists,           \* each worker's tasklist
    ticket,          \* per task: no ticket yet, not completed, completed
    client,          \* whether a client has pushed and not yet broadcast
    terminate,       \* ThreadData::terminate
    globalTerminate, \* global_terminate
    threads,         \* the elements of _thread_fn that point to live objects
    trashed          \* whether some worker has used another element of it

vars == <<kind, main, worker, lists, ticket, client, terminate, globalTerminate, threads, trashed>>

-----------------------------------------------------------------------------
Places == {"absent", "born", "gate", "look", "check", "steal", "carry", "slow",
           "hungry", "sleepy", "wait", "run", "mark", "gone"}

MainPlaces == {"spawn", "barrier", "push", "open", "delete", "drop", "join", "closed"}

TypeOK ==
    /\ kind \in Kinds
    /\ main \in [at : MainPlaces, i : Workers]
    /\ worker \in [Workers -> [at : Places, task : Tasks \cup {NoTask}]]
    /\ lists \in [Workers -> Seq(Tasks)]
    /\ ticket \in [Tasks -> {"none", "open", "done"}]
    /\ client \in [Clients -> {"idle", "pushed"}]
    /\ terminate \in [Workers -> BOOLEAN]
    /\ globalTerminate \in BOOLEAN
    /\ threads \subseteq Workers
    /\ trashed \in BOOLEAN

At(p, t) == [at |-> p, task |-> t]

Goes(w, p) == worker' = [worker EXCEPT ![w] = At(p, NoTask)]

Init == /\ kind \in Kinds
        /\ main = [at |-> "spawn", i |-> 1]
        /\ worker = [w \in Workers |-> At("absent", NoTask)]
        /\ lists = [w \in Workers |-> <<>>]
        /\ ticket = [t \in Tasks |-> "none"]
        /\ client = [c \in Clients |-> "idle"]
        /\ terminate = [w \in Workers |-> FALSE]
        /\ globalTerminate = FALSE
        /\ threads = {}
        /\ trashed = FALSE

Constructing == main.at \in {"spawn", "barrier", "push"}

Broadcast(ws) == [w \in Workers |-> IF ws[w].at = "wait" THEN At("look", NoTask) ELSE ws[w]]

-----------------------------------------------------------------------------
(* Construction, all of it under steal_mutex.                              *)

Spawn == /\ main.at = "spawn"
         /\ Goes(main.i, "born")
         /\ main' = [main EXCEPT !.at = "barrier"]
         /\ UNCHANGED <<kind, lists, ticket, client, terminate, globalTerminate, threads, trashed>>

Start(w) == /\ worker[w].at = "born"
            /\ worker' = Broadcast([worker EXCEPT ![w] = At("gate", NoTask)])
            /\ main' = [main EXCEPT !.at = "push"]
            /\ UNCHANGED <<kind, lists, ticket, client, terminate, globalTerminate, threads, trashed>>

PushThread == /\ main.at = "push"
              /\ threads' = threads \cup {main.i}
              /\ main' = IF main.i = NumThreads THEN [main EXCEPT !.at = "open"]
                         ELSE [at |-> "spawn", i |-> main.i + 1]
              /\ UNCHANGED <<kind, worker, lists, ticket, client, terminate, globalTerminate, trashed>>

\* Mutant: do not wait for the others to be online.
PassUngated(w) == /\ worker[w].at = "gate"
                  /\ Goes(w, "look")
                  /\ UNCHANGED <<kind, main, lists, ticket, client, terminate, globalTerminate, threads, trashed>>

Pass(w) == /\ worker[w].at = "gate"
           /\ ~Constructing
           /\ Goes(w, "look")
           /\ UNCHANGED <<kind, main, lists, ticket, client, terminate, globalTerminate, threads, trashed>>

-----------------------------------------------------------------------------
(* enqueue(): push to the list of some worker, then broadcast.             *)

\* Mutant: push_back without local_mutex, in the middle of a look.
LocalFreeAlways(w) == TRUE

LocalFree(w) == worker[w].at # "sleepy"

Enqueue(c, t, w) ==
    /\ main.at = "open"
    /\ client[c] = "idle"
    /\ ticket[t] = "none"
    /\ LocalFree(w)
    /\ ticket' = [ticket EXCEPT ![t] = "open"]
    /\ lists' = [lists EXCEPT ![w] = Append(@, t)]
    /\ client' = [client EXCEPT ![c] = "pushed"]
    /\ UNCHANGED <<kind, main, worker, terminate, globalTerminate, threads, trashed>>

Announce(c) ==
    /\ client[c] = "pushed"
    /\ worker' = Broadcast(worker)
    /\ client' = [client EXCEPT ![c] = "idle"]
    /\ UNCHANGED <<kind, main, lists, ticket, terminate, globalTerminate, threads, trashed>>

-----------------------------------------------------------------------------
(* Taking the first task of its own list.                                  *)
TakeOwn(w, ls) ==
    /\ worker' = [worker EXCEPT ![w] = At("run", Head(ls[w]))]
    /\ lists' = [ls EXCEPT ![w] = Tail(@)]

Look(w) ==
    /\ worker[w].at = "look"
    /\ IF lists[w] # <<>> THEN TakeOwn(w, lists)
       ELSE Goes(w, IF kind = "deque" THEN "hungry" ELSE "check") /\ UNCHANGED lists
    /\ UNCHANGED <<kind, main, ticket, client, terminate, globalTerminate, threads, trashed>>

(* std::deque: half of the victim's tasks, or its only one, last ones      *)
(* first.                                                                  *)
Loot(s) == IF Len(s) = 1 THEN 1 ELSE Len(s) \div 2

\* Mutant: copy the tasks, but leave them with the victim.
StolenTwice(v, w) ==
    LET n == Len(lists[v])
    IN  [lists EXCEPT ![w] = [i \in 1..Loot(lists[v]) |-> lists[v][n + 1 - i]]]

Stolen(v, w) ==
    LET n == Len(lists[v])  k == Loot(lists[v])
    IN  [lists EXCEPT ![v] = SubSeq(@, 1, n - k),
                      ![w] = [i \in 1..k |-> lists[v][n + 1 - i]]]

(* With steal_mutex and its own local_mutex.  Without a task a worker goes *)
(* to sleep unless it was told to terminate; it leaves only if told so     *)
(* itself, and looks again if only global_terminate is set.                *)
Hunt(w) ==
    /\ worker[w].at = "hungry"
    /\ \/ lists[w] # <<>> /\ TakeOwn(w, lists) /\ UNCHANGED trashed
       \/ /\ lists[w] = <<>> /\ ~globalTerminate
          /\ \E v \in Workers :
               /\ LocalFree(v)
               /\ trashed' = (trashed \/ v \notin threads)
               /\ IF lists[v] # <<>> THEN TakeOwn(w, Stolen(v, w))
                  ELSE Goes(w, IF terminate[w] THEN "gone" ELSE "sleepy") /\ UNCHANGED lists
       \/ /\ lists[w] = <<>> /\ globalTerminate
          /\ Goes(w, IF terminate[w] THEN "gone" ELSE "look")
          /\ UNCHANGED <<lists, trashed>>
    /\ UNCHANGED <<kind, main, ticket, client, terminate, globalTerminate, threads>>

(* Take the pool's mutex, give local_mutex back, and wait.                 *)
FallAsleep(w) ==
    /\ worker[w].at = "sleepy"
    /\ Goes(w, "wait")
    /\ UNCHANGED <<kind, main, lists, ticket, client, terminate, globalTerminate, threads, trashed>>

-----------------------------------------------------------------------------
(* Concurrent lists: global_terminate is read without any mutex, and the   *)
(* victim is used after that.                                              *)
Check(w) ==
    /\ worker[w].at = "check"
    /\ IF ~globalTerminate THEN Goes(w, "steal") /\ UNCHANGED lists
       ELSE IF lists[w] # <<>> THEN TakeOwn(w, lists)
       ELSE Goes(w, IF terminate[w] THEN "gone" ELSE "look") /\ UNCHANGED lists
    /\ UNCHANGED <<kind, main, ticket, client, terminate, globalTerminate, threads, trashed>>

(* pop_back on the victim, then push_back on the own list.  A deleted      *)
(* victim leads to a crash or to its (empty) list: the latter goes on.     *)
Steal(w, v) ==
    /\ worker[w].at = "steal"
    /\ trashed' = (trashed \/ v \notin threads)
    /\ IF lists[v] # <<>>
       THEN /\ worker' = [worker EXCEPT ![w] = At("carry", lists[v][Len(lists[v])])]
            /\ lists' = [lists EXCEPT ![v] = SubSeq(@, 1, Len(@) - 1)]
       ELSE Goes(w, "slow") /\ UNCHANGED lists
    /\ UNCHANGED <<kind, main, ticket, client, terminate, globalTerminate, threads>>

Carry(w) ==
    /\ worker[w].at = "carry"
    /\ lists' = [lists EXCEPT ![w] = Append(@, worker[w].task)]
    /\ Goes(w, "slow")
    /\ UNCHANGED <<kind, main, ticket, client, terminate, globalTerminate, threads, trashed>>

\* Mutant: wait without a second look at the own list.
SlowLookBlind(w) ==
    /\ worker[w].at = "slow"
    /\ Goes(w, IF globalTerminate THEN "look" ELSE "wait")
    /\ UNCHANGED <<kind, main, lists, ticket, client, terminate, globalTerminate, threads, trashed>>

SlowLook(w) ==
    /\ worker[w].at = "slow"
    /\ IF lists[w] # <<>> THEN TakeOwn(w, lists)
       ELSE Goes(w, IF globalTerminate THEN "look" ELSE "wait") /\ UNCHANGED lists
    /\ UNCHANGED <<kind, main, ticket, client, terminate, globalTerminate, threads, trashed>>

-----------------------------------------------------------------------------
\* Mutant: the ticket is marked first, the functor called afterwards.
MarkBeforeRun(w) == /\ worker[w].at = "run"
                    /\ ticket' = [ticket EXCEPT ![worker[w].task] = "done"]
                    /\ Goes(w, "look")
                    /\ UNCHANGED <<kind, main, lists, client, terminate, globalTerminate, threads, trashed>>

Run(w) == /\ worker[w].at = "run"
          /\ worker' = [worker EXCEPT ![w].at = "mark"]
          /\ UNCHANGED <<kind, main, lists, ticket, client, terminate, globalTerminate, threads, trashed>>

Mark(w) == /\ worker[w].at = "mark"
           /\ ticket' = [ticket EXCEPT ![worker[w].task] = "done"]
           /\ Goes(w, "look")
           /\ UNCHANGED <<kind, main, lists, client, terminate, globalTerminate, threads, trashed>>

-----------------------------------------------------------------------------
(* Destruction, at exit, when no ticket is open any more.                  *)

GlobalTerminate ==
    /\ main.at = "open"
    /\ \A c \in Clients : client[c] = "idle"
    /\ \A t \in Tasks : ticket[t] # "open"
    /\ globalTerminate' = TRUE
    /\ main' = [at |-> "delete", i |-> 1]
    /\ UNCHANGED <<kind, worker, lists, ticket, client, terminate, threads, trashed>>

DeleteThread ==
    /\ main.at = "delete"
    /\ threads' = threads \ {main.i}
    /\ main' = IF main.i = NumThreads THEN [at |-> "drop", i |-> 1]
               ELSE [main EXCEPT !.i = @ + 1]
    /\ UNCHANGED <<kind, worker, lists, ticket, client, terminate, globalTerminate, trashed>>

Terminate ==
    /\ main.at = "drop"
    /\ terminate' = [terminate EXCEPT ![main.i] = TRUE]
    /\ worker' = Broadcast(worker)
    /\ main' = [main EXCEPT !.at = "join"]
    /\ UNCHANGED <<kind, lists, ticket, client, globalTerminate, threads, trashed>>

\* Mutant: one thread too many.
JoinPastTheEnd ==
    /\ main.at = "join"
    /\ worker[main.i].at = "gone"
    /\ main' = IF main.i > NumThreads THEN [main EXCEPT !.at = "closed"]
               ELSE [at |-> "drop", i |-> main.i + 1]
    /\ UNCHANGED <<kind, worker, lists, ticket, client, terminate, globalTerminate, threads, trashed>>

Join ==
    /\ main.at = "join"
    /\ worker[main.i].at = "gone"
    /\ main' = IF main.i = NumThreads THEN [main EXCEPT !.at = "closed"]
               ELSE [at |-> "drop", i |-> main.i + 1]
    /\ UNCHANGED <<kind, worker, lists, ticket, client, terminate, globalTerminate, threads, trashed>>

-----------------------------------------------------------------------------
MainStep == Spawn \/ PushThread \/ DeleteThread \/ Terminate \/ Join

WorkerStep(w) == \/ Start(w) \/ Pass(w) \/ Look(w) \/ Run(w) \/ Mark(w)
                 \/ Hunt(w) \/ FallAsleep(w)
                 \/ Check(w) \/ Carry(w) \/ SlowLook(w)
                 \/ \E v \in Workers : Steal(w, v)

Next == \/ MainStep \/ GlobalTerminate
        \/ \E w \in Workers : WorkerStep(w)
        \/ \E c \in Clients : \/ Announce(c)
                              \/ \E t \in Tasks, w \in Workers : Enqueue(c, t, w)

Spec == Init /\ [][Next]_vars

(* Every thread that can go on does; clients need not enqueue, and the     *)
(* pool need not be destroyed.                                             *)
FairSpec == /\ Spec
            /\ WF_vars(MainStep)
            /\ \A w \in Workers : WF_vars(WorkerStep(w))
            /\ \A c \in Clients : WF_vars(Announce(c))

-----------------------------------------------------------------------------
Queued(t) == \E w \in Workers : \E i \in 1..Len(lists[w]) : lists[w][i] = t

HeldBy(w, t) == worker[w].task = t

(* A task between enqueue and mark() is in one place: once in one list,    *)
(* or with one worker, be it a thief on its way or the one that runs it.   *)
(* Thieves neither lose nor multiply tasks.                                *)
TaskInOnePlace ==
    /\ \A w \in Workers : worker[w].task # NoTask <=> worker[w].at \in {"carry", "run", "mark"}
    /\ \A v, w \in Workers : \A i \in 1..Len(lists[v]), j \in 1..Len(lists[w]) :
         lists[v][i] = lists[w][j] => v = w /\ i = j
    /\ \A t \in Tasks :
         /\ \A v, w \in Workers : HeldBy(v, t) /\ HeldBy(w, t) => v = w
         /\ Queued(t) => \A w \in Workers : ~HeldBy(w, t)
         /\ ticket[t] = "open" <=> Queued(t) \/ \E w \in Workers : HeldBy(w, t)

(* A worker that sleeps has nothing in its own list, unless the broadcast  *)
(* for it is still to come: its list is safe from being forgotten even if  *)
(* nobody steals from it.                                                  *)
NoLostWakeup ==
    \A w \in Workers : worker[w].at = "wait" /\ lists[w] # <<>> => \E c \in Clients : client[c] = "pushed"

(* With std::deque nobody uses an entry of _thread_fn before it is there   *)
(* or after it was deleted: "otherwise we might to try to steal from       *)
(* trashed memory...".                                                     *)
NoTrashedSteal == kind = "deque" => ~trashed

Status(t) == CASE ticket[t] = "none" -> "new"
               [] ticket[t] = "done" -> "done"
               [] ticket[t] = "open" /\ \E w \in Workers : worker[w] = At("run", t) -> "running"
               [] ticket[t] = "open" /\ \E w \in Workers : worker[w] = At("mark", t) -> "executed"
               [] OTHER -> "queued"

Exec == INSTANCE Executor WITH
            Faulty <- {}, status <- [t \in Tasks |-> Status(t)], awaited <- {}

(* Stealing is invisible: the pool keeps the promises of an Executor.      *)
ImplementsExecutor == Exec!Spec

(* A destructor that has started comes to its end.                         *)
ShutdownEnds == globalTerminate ~> main.at = "closed"

(* Liveness: every task is executed whatever worker it was given to and    *)
(* whoever steals it; and the destructor ends with concurrent lists, whose *)
(* second look is under the mutex.                                         *)
EverythingEnds ==
    /\ \A t \in Tasks : ticket[t] = "open" ~> ticket[t] = "done"
    /\ globalTerminate /\ kind = "lockfree" ~> main.at = "closed"
=============================================================================
