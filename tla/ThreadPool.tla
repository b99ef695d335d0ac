----------------------------- MODULE ThreadPool -----------------------------
(***************************************************************************)
(* The multicore thread pool with one task list shared by all workers      *)
(* (honei/backends/multicore: thread_pool.cc, thread_function.cc,          *)
(* thread_task.hh, util/ticket.hh, util/thread.cc), from its construction  *)
(* to the end of its destructor.                                           *)
(*                                                                         *)
(* kind is what select_impl finds in the configuration: "affinity" is      *)
(* AffinityImplementation, "deque" StandardImplementation over std::deque, *)
(* both with every access to the list under the pool's mutex; "lockfree"   *)
(* is StandardImplementation over CASDeque or ConcurrentDeque, where       *)
(* push_back and the first pop_front take place outside of it.             *)
(*                                                                         *)
(* A critical section of the pool's mutex is one step; so is one operation *)
(* on a concurrent list, and each of the ticket's operations up to a wait. *)
(***************************************************************************)
EXTENDS Integers, Sequences

CONSTANTS
    NumThreads,  \* mc::num_threads
    Clients,     \* threads that enqueue tasks and wait for their tickets
    Tasks,       \* the calls of enqueue() there are: the bound on the work
    Accepts,     \* per task, the workers whose TaskComp accepts it
    Faulty,      \* the tasks whose functor throws a standard exception
    Kinds,       \* the kinds of pools to consider
    Shared,      \* whether a client may wait for a ticket of another one
    Spurious,    \* who may come out of pthread_cond_wait without a signal
    NoTask       \* the null pointer

Workers == 1..NumThreads

ASSUME NumThreadsAssumption == NumThreads \in Nat \ {0}
ASSUME TasksAssumption == NoTask \notin Tasks /\ Faulty \subseteq Tasks
ASSUME KindAssumption == Kinds \subseteq {"affinity", "deque", "lockfree"}
(* What Dispatch shows of every ticket: EveryTicketIsServed.               *)
ASSUME AcceptsAssumption == Accepts \in [Tasks -> (SUBSET Workers) \ {{}}]
ASSUME SwitchAssumption ==
    Shared \in BOOLEAN /\ Spurious \subseteq {"constructor", "worker", "client"}

VARIABLES
    kind,        \* which implementation the pool has
    main,        \* the thread in the pool's constructor or destructor
    worker,      \* the thread functions: where each is, the task it holds
    terminate,   \* ThreadData::terminate
    pinned,      \* the workers bound to the processing unit they serve
    list,        \* _tasks
    ticket,      \* per task: no ticket yet, not completed, completed
    client,      \* the clients: where each is, the ticket it waits for
    outstanding  \* each client's TicketVector

vars == <<kind, main, worker, terminate, pinned, list, ticket, client, outstanding>>

-----------------------------------------------------------------------------
Locked == kind # "lockfree"

Places == {"absent", "born", "look", "slow", "wait", "run", "mark", "gone"}

MainPlaces == {"spawn", "barrier", "pin", "open", "drop", "join", "closed"}

ClientPlaces == {"idle", "pushed", "wait", "woken"}

TypeOK ==
    /\ kind \in Kinds
    /\ main \in [at : MainPlaces, i : Workers]
    /\ worker \in [Workers -> [at : Places, task : Tasks \cup {NoTask}]]
    /\ terminate \in [Workers -> BOOLEAN]
    /\ pinned \subseteq Workers
    /\ list \in Seq(Tasks)
    /\ ticket \in [Tasks -> {"none", "open", "done"}]
    /\ client \in [Clients -> [at : ClientPlaces, task : Tasks \cup {NoTask}]]
    /\ outstanding \in [Clients -> Seq(Tasks)]

At(p, t) == [at |-> p, task |-> t]

Init == /\ kind \in Kinds
        /\ main = [at |-> "spawn", i |-> 1]
        /\ worker = [w \in Workers |-> At("absent", NoTask)]
        /\ terminate = [w \in Workers |-> FALSE]
        /\ pinned = {}
        /\ list = <<>>
        /\ ticket = [t \in Tasks |-> "none"]
        /\ client = [c \in Clients |-> At("idle", NoTask)]
        /\ outstanding = [c \in Clients |-> <<>>]

-----------------------------------------------------------------------------
(* _pool_sync->barrier: one condition variable for the workers that have   *)
(* nothing to do and for the constructor that waits for a worker's start.  *)

Awake(ws) == [w \in Workers |-> IF ws[w].at = "wait" THEN At("look", NoTask) ELSE ws[w]]

Roused == IF main.at = "barrier" THEN [main EXCEPT !.at = "pin"] ELSE main

\* Mutant: signal() instead of broadcast() wakes one sleeper only.
SignalOneWorker(ws) ==
    LET asleep == {w \in Workers : ws[w].at = "wait"}
    IN  IF asleep = {} THEN ws
        ELSE [ws EXCEPT ![CHOOSE w \in asleep : TRUE] = At("look", NoTask)]

Broadcast(ws) == Awake(ws)

-----------------------------------------------------------------------------
(* Construction: one thread after the other.                               *)

Spawn ==
    /\ main.at = "spawn"
    /\ worker' = [worker EXCEPT ![main.i] = At("born", NoTask)]
    /\ main' = [main EXCEPT !.at = "barrier"]
    /\ UNCHANGED <<kind, terminate, pinned, list, ticket, client, outstanding>>

Start(w) ==
    /\ worker[w].at = "born"
    /\ worker' = Broadcast([worker EXCEPT ![w] = At("look", NoTask)])
    /\ main' = Roused
    /\ UNCHANGED <<kind, terminate, pinned, list, ticket, client, outstanding>>

SpuriousWakeup ==
    /\ "constructor" \in Spurious
    /\ main.at = "barrier"
    /\ main' = Roused
    /\ UNCHANGED <<kind, worker, terminate, pinned, list, ticket, client, outstanding>>

(* sched_setaffinity(tobj.tid(), ...): a worker that has not stored its id *)
(* yet gives 0, and 0 binds the calling thread instead.                    *)
Pin ==
    /\ main.at = "pin"
    /\ pinned' = IF kind = "affinity" /\ worker[main.i].at \notin {"absent", "born"}
                 THEN pinned \cup {main.i} ELSE pinned
    /\ main' = IF main.i = NumThreads THEN [main EXCEPT !.at = "open"]
               ELSE [at |-> "spawn", i |-> main.i + 1]
    /\ UNCHANGED <<kind, worker, terminate, list, ticket, client, outstanding>>

-----------------------------------------------------------------------------
(* The clients: enqueue, and TicketVector::wait over what they enqueued.   *)

Enqueue(c, t) ==
    /\ main.at = "open"
    /\ client[c].at = "idle"
    /\ ticket[t] = "none"
    /\ ticket' = [ticket EXCEPT ![t] = "open"]
    /\ list' = Append(list, t)
    /\ outstanding' = [outstanding EXCEPT ![c] = Append(@, t)]
    /\ IF Locked THEN worker' = Broadcast(worker) /\ UNCHANGED client
                 ELSE client' = [client EXCEPT ![c] = At("pushed", NoTask)] /\ UNCHANGED worker
    /\ UNCHANGED <<kind, main, terminate, pinned>>

Announce(c) ==
    /\ client[c].at = "pushed"
    /\ worker' = Broadcast(worker)
    /\ client' = [client EXCEPT ![c] = At("idle", NoTask)]
    /\ UNCHANGED <<kind, main, terminate, pinned, list, ticket, outstanding>>

Front(s) == SubSeq(s, 1, Len(s) - 1)

Awaitable(c, t) == \/ outstanding[c] # <<>> /\ t = outstanding[c][Len(outstanding[c])]
                   \/ Shared /\ ticket[t] # "none"

\* Mutant: an `if' for the `while': whatever woke the waiter ends the wait.
WaitOnce(c, t) ==
    IF ticket[t] = "done" \/ client[c].at # "idle"
    THEN /\ client' = [client EXCEPT ![c] = At("idle", NoTask)]
         /\ outstanding' = [outstanding EXCEPT ![c] = Front(@)]
    ELSE /\ client' = [client EXCEPT ![c] = At("wait", t)]
         /\ UNCHANGED outstanding

(* One pass through the loop of wait(): return if completed, else sleep.   *)
WaitFor(c, t) ==
    IF ticket[t] = "done"
    THEN /\ client' = [client EXCEPT ![c] = At("idle", NoTask)]
         /\ outstanding' = IF outstanding[c] # <<>> /\ t = outstanding[c][Len(outstanding[c])]
                           THEN [outstanding EXCEPT ![c] = Front(@)] ELSE outstanding
    ELSE /\ client' = [client EXCEPT ![c] = At("wait", t)]
         /\ UNCHANGED outstanding

Wait(c, t) ==
    /\ client[c].at = "idle"
    /\ Awaitable(c, t)
    /\ WaitFor(c, t)
    /\ UNCHANGED <<kind, main, worker, terminate, pinned, list, ticket>>

WakeUp(c) ==
    /\ client[c].at = "woken"
    /\ WaitFor(c, client[c].task)
    /\ UNCHANGED <<kind, main, worker, terminate, pinned, list, ticket>>

SpuriousReturn(c) ==
    /\ "client" \in Spurious
    /\ client[c].at = "wait"
    /\ client' = [client EXCEPT ![c].at = "woken"]
    /\ UNCHANGED <<kind, main, worker, terminate, pinned, list, ticket, outstanding>>

-----------------------------------------------------------------------------
(* The workers.                                                            *)

Without(s, i) == SubSeq(s, 1, i - 1) \o SubSeq(s, i + 1, Len(s))

(* StandardImplementation does not look at what a ticket requires.         *)
Acceptors(t) == IF kind = "affinity" THEN Accepts[t] ELSE Workers

Acceptable(w) == {i \in 1..Len(list) : w \in Acceptors(list[i])}

\* Mutant: run the task that was found, but erase the first one.
TakeButEraseFirst(w, i) ==
    /\ worker' = [worker EXCEPT ![w] = At("run", list[i])]
    /\ list' = Without(list, 1)

\* Mutant: the task stays on the list.
TakeWithoutErase(w, i) ==
    /\ worker' = [worker EXCEPT ![w] = At("run", list[i])]
    /\ UNCHANGED list

Take(w, i) ==
    /\ worker' = [worker EXCEPT ![w] = At("run", list[i])]
    /\ list' = Without(list, i)

(* The first look of a worker with a concurrent list, without the mutex.   *)
TryPop(w) ==
    /\ ~Locked
    /\ worker[w].at = "look"
    /\ IF list # <<>> THEN Take(w, 1)
       ELSE worker' = [worker EXCEPT ![w] = At("slow", NoTask)] /\ UNCHANGED list
    /\ UNCHANGED <<kind, main, terminate, pinned, ticket, client, outstanding>>

\* Mutant: look at the list only before taking the mutex.
PickBlindly(w) ==
    /\ worker[w].at = IF Locked THEN "look" ELSE "slow"
    /\ worker' = [worker EXCEPT ![w] = At(IF terminate[w] THEN "gone" ELSE "wait", NoTask)]
    /\ UNCHANGED <<kind, main, terminate, pinned, list, ticket, client, outstanding>>

(* With the mutex: the first task that is acceptable; without one, leave   *)
(* if told to, else wait, which gives the mutex back in the same step.     *)
Pick(w) ==
    /\ worker[w].at = IF Locked THEN "look" ELSE "slow"
    /\ \/ \E i \in Acceptable(w) : /\ \A j \in Acceptable(w) : i <= j
                                   /\ Take(w, i)
       \/ /\ Acceptable(w) = {}
          /\ worker' = [worker EXCEPT ![w] = At(IF terminate[w] THEN "gone" ELSE "wait", NoTask)]
          /\ UNCHANGED list
    /\ UNCHANGED <<kind, main, terminate, pinned, ticket, client, outstanding>>

SpuriousLook(w) ==
    /\ "worker" \in Spurious
    /\ worker[w].at = "wait"
    /\ worker' = [worker EXCEPT ![w] = At("look", NoTask)]
    /\ UNCHANGED <<kind, main, terminate, pinned, list, ticket, client, outstanding>>

(* The functor ends.  A standard exception ends the thread function with   *)
(* it: Thread logs it, the ticket is not marked and the task not deleted.  *)
Run(w) ==
    /\ worker[w].at = "run"
    /\ worker' = [worker EXCEPT ![w] = IF worker[w].task \in Faulty THEN At("gone", NoTask)
                                       ELSE At("mark", worker[w].task)]
    /\ UNCHANGED <<kind, main, terminate, pinned, list, ticket, client, outstanding>>

\* Mutant: nobody is signalled.
SignalledNobody(t) == {client}

(* ticket.mark() and its signal: one of the ticket's waiters, if any.      *)
Signalled(t) ==
    LET waiters == {c \in Clients : client[c] = At("wait", t)}
    IN  IF waiters = {} THEN {client}
        ELSE {[client EXCEPT ![c] = At("woken", t)] : c \in waiters}

Mark(w) ==
    /\ worker[w].at = "mark"
    /\ ticket' = [ticket EXCEPT ![worker[w].task] = "done"]
    /\ client' \in Signalled(worker[w].task)
    /\ worker' = [worker EXCEPT ![w] = At("look", NoTask)]
    /\ UNCHANGED <<kind, main, terminate, pinned, list, outstanding>>

-----------------------------------------------------------------------------
(* Destruction, at exit: every client has come back from its waits, as all *)
(* operations do before they return, and none enqueues any more.           *)

Drop ==
    /\ main.at = "open"
    /\ \A c \in Clients : client[c].at = "idle" /\ outstanding[c] = <<>>
    /\ main' = [at |-> "drop", i |-> 1]
    /\ UNCHANGED <<kind, worker, terminate, pinned, list, ticket, client, outstanding>>

Terminate ==
    /\ main.at = "drop"
    /\ terminate' = [terminate EXCEPT ![main.i] = TRUE]
    /\ worker' = Broadcast(worker)
    /\ main' = [main EXCEPT !.at = "join"]
    /\ UNCHANGED <<kind, pinned, list, ticket, client, outstanding>>

\* Mutant: one thread too many.
JoinPastTheEnd ==
    /\ main.at = "join"
    /\ worker[main.i].at = "gone"
    /\ main' = IF main.i > NumThreads THEN [main EXCEPT !.at = "closed"]
               ELSE [at |-> "drop", i |-> main.i + 1]
    /\ UNCHANGED <<kind, worker, terminate, pinned, list, ticket, client, outstanding>>

(* delete i: ~Thread joins; then the worker's ThreadData is deleted.       *)
Join ==
    /\ main.at = "join"
    /\ worker[main.i].at = "gone"
    /\ main' = IF main.i = NumThreads THEN [main EXCEPT !.at = "closed"]
               ELSE [at |-> "drop", i |-> main.i + 1]
    /\ UNCHANGED <<kind, worker, terminate, pinned, list, ticket, client, outstanding>>

Closed == main.at = "closed" /\ UNCHANGED vars
-----------------------------------------------------------------------------
MainStep == Spawn \/ Pin \/ Terminate \/ Join

WorkerStep(w) == Start(w) \/ TryPop(w) \/ Pick(w) \/ Run(w) \/ Mark(w)

ClientStep(c) == Announce(c) \/ WakeUp(c)

Next == \/ MainStep \/ SpuriousWakeup \/ Drop \/ Closed
        \/ \E w \in Workers : WorkerStep(w) \/ SpuriousLook(w)
        \/ \E c \in Clients : \/ ClientStep(c) \/ SpuriousReturn(c)
                              \/ \E t \in Tasks : Enqueue(c, t) \/ Wait(c, t)

Spec == Init /\ [][Next]_vars

(* The mutexes are fair enough for a thread that wants one to get it, a    *)
(* thread that can run does so, and functors end.  Nobody has to enqueue,  *)
(* to wait, or to destroy the pool.                                        *)
FairSpec == /\ Spec
            /\ WF_vars(MainStep)
            /\ \A w \in Workers : WF_vars(WorkerStep(w))
            /\ \A c \in Clients : WF_vars(ClientStep(c))

-----------------------------------------------------------------------------
Queued(t) == \E i \in 1..Len(list) : list[i] = t

HeldBy(w, t) == worker[w].task = t

(* A task between enqueue and mark() is on the list once, or with one      *)
(* worker, and never both; only a task that threw is nowhere.  So no       *)
(* functor is called twice, no ticket is marked twice (the ASSERT of       *)
(* mark()), and no task is lost between the list and the workers.          *)
TaskInOnePlace ==
    /\ \A i, j \in 1..Len(list) : list[i] = list[j] => i = j
    /\ \A w \in Workers : worker[w].task # NoTask <=> worker[w].at \in {"run", "mark"}
    /\ \A t \in Tasks :
         /\ \A v, w \in Workers : HeldBy(v, t) /\ HeldBy(w, t) => v = w
         /\ Queued(t) => \A w \in Workers : ~HeldBy(w, t)
         /\ Queued(t) \/ (\E w \in Workers : HeldBy(w, t)) => ticket[t] = "open"
         /\ ticket[t] = "open" => t \in Faulty \/ Queued(t) \/ \E w \in Workers : HeldBy(w, t)

(* No worker sleeps on the barrier while there is a task for it or it has  *)
(* been told to leave, unless the broadcast for that is still to come.     *)
(* This is what "check work-status and condition again under same mutex    *)
(* protection" in AffinityThreadFunction is about.                         *)
NoLostWakeup ==
    \A w \in Workers : worker[w].at = "wait" =>
        /\ ~terminate[w]
        /\ Acceptable(w) # {} => \E c \in Clients : client[c].at = "pushed"

(* No client sleeps in wait() for a ticket that has been marked: the one   *)
(* signal of mark() reaches everybody who needs it.                        *)
WaitersAreTold ==
    \A c \in Clients : client[c].at = "wait" => ticket[client[c].task] # "done"

(* Once the constructor is through, every worker of AffinityImplementation *)
(* is bound to its processing unit: the constructor asked each for its     *)
(* thread id only after the thread was set up.                             *)
WorkersArePinned == kind = "affinity" /\ main.at = "open" => pinned = Workers

(* When the destructor starts, the list it is about to free is empty, no   *)
(* worker holds a task, and every ticket there is has been marked.         *)
NothingLostAtShutdown ==
    main.at \in {"drop", "join", "closed"} =>
        /\ list = <<>>
        /\ \A w \in Workers : worker[w].task = NoTask
        /\ \A t \in Tasks : ticket[t] # "open"

(* The pool implements what clients may rely on.                           *)
Status(t) == CASE ticket[t] = "none" -> "new"
               [] ticket[t] = "done" -> "done"
               [] ticket[t] = "open" /\ Queued(t) -> "queued"
               [] ticket[t] = "open" /\ \E w \in Workers : worker[w] = At("run", t) -> "running"
               [] ticket[t] = "open" /\ \E w \in Workers : worker[w] = At("mark", t) -> "executed"
               [] OTHER -> "lost"

Outstanding(t) == \E c \in Clients : \E i \in 1..Len(outstanding[c]) : outstanding[c][i] = t

Exec == INSTANCE Executor WITH
            status  <- [t \in Tasks |-> Status(t)],
            awaited <- {t \in Tasks : ticket[t] # "none" /\ ~Outstanding(t)}

ImplementsExecutor == Exec!Spec

(* Liveness.  A functor that throws costs the pool its worker; every other *)
(* task is executed and its ticket marked, and every wait() for it returns,*)
(* as long as a worker is left that accepts it; a destructor that has      *)
(* started comes to its end.                                               *)
Deserted(t) == \A w \in Acceptors(t) : worker[w].at = "gone"

EverythingEnds ==
    /\ \A t \in Tasks \ Faulty : ticket[t] = "open" ~> ticket[t] = "done" \/ Deserted(t)
    /\ \A c \in Clients, t \in Tasks \ Faulty :
          client[c] = At("wait", t) ~> client[c].at = "idle" \/ Deserted(t)
    /\ main.at = "drop" ~> main.at = "closed"
=============================================================================
