------------------------------ MODULE GPUPool ------------------------------
(***************************************************************************)
(* The pool of GPU threads (honei/backends/cuda: gpu_pool.cc,              *)
(* gpu_function.cc), one thread and one queue of tasks per device, and the *)
(* way its clients use it: operations that ask idle() to learn whether     *)
(* they run in a thread of the pool (memory_backend.cc, la/*-cuda.cc).     *)
(*                                                                         *)
(* A critical section of a device's mutex is one step.  idle() is a walk:  *)
(* first the flag of every thread, then the size of every queue, each read *)
(* under its own mutex.                                                    *)
(***************************************************************************)
EXTENDS Integers, Sequences

CONSTANTS
    NumGpus,      \* min(cuda::num_gpu, cuda_device_count())
    MaxRestarts,  \* how often single_start gets a new thread: a bound
    Clients,      \* threads outside of the pool that use it
    Uses,         \* the sets of clients that may use the pool together
    Tasks,        \* the tasks there are: a bound on the work
    Flushers,     \* the clients that call flush(), once each: a bound
    Synch,        \* the tasks flush() enqueues, per client and device
    Curious,      \* the tasks that call an operation, which asks idle()
    Faulty,       \* the tasks whose functor throws: before it asks, or when
                  \* it is told that it cannot be served on this device
    Spurious,     \* pthread_cond_wait may return without a signal
    NoTask        \* the null pointer

Devices == 1..NumGpus
Operations == Tasks \ {Synch[a] : a \in Flushers \X Devices}
Workers == 1..(NumGpus + MaxRestarts)
Home(w) == IF w \in Devices THEN w ELSE 1  \* the queue a thread is given

ASSUME NumGpusAssumption == NumGpus \in Nat \ {0} /\ MaxRestarts \in Nat
ASSUME TasksAssumption ==
    NoTask \notin Tasks /\ Curious \cup Faulty \subseteq Tasks
ASSUME SynchAssumption ==
    /\ Synch \in [Flushers \X Devices -> Tasks \ (Curious \cup Faulty)]
    /\ \A a, b \in Flushers \X Devices : Synch[a] = Synch[b] => a = b
ASSUME ClientsAssumption ==
    Flushers \subseteq Clients /\ Uses \subseteq SUBSET Clients /\ Clients \cap Workers = {}
ASSUME SpuriousAssumption == Spurious \in BOOLEAN

VARIABLES
    users,        \* the clients that use the pool
    numGpus,      \* num_gpus
    threads,      \* threads: the workers, in the order of the vector
    queue,        \* tasks: one queue per device
    worker,       \* where each thread function is, and its task
    idle,         \* GPUFunction's flag idle
    terminate,    \* GPUFunction's flag terminate
    ticket,       \* per task: no ticket yet, not completed, completed; or
                  \* carried out, or refused, by the client itself
    client,       \* the call each client is in, and where in it
    outstanding,  \* each client's TicketVector
    ask,          \* how far each walk of idle() is, 0 when there is none
    due           \* the tasks a client's last flush() has to see done

pool == <<users, numGpus, threads, terminate>>
work == <<queue, worker, idle>>
calls == <<client, outstanding, due>>
vars == <<pool, work, ticket, calls, ask>>

-----------------------------------------------------------------------------
Places == {"absent", "top", "wait", "woken", "run", "ran", "mark", "pick", "check",
           "stuck", "gone"}

ClientPlaces == {"free", "ask", "put", "await", "stop", "join", "left"}

TypeOK ==
    /\ users \in Uses
    /\ numGpus \in Devices
    /\ threads \in [1..numGpus -> Workers]
    /\ queue \in [Devices -> Seq(Tasks)]
    /\ worker \in [Workers -> [at : Places, task : Tasks \cup {NoTask}]]
    /\ idle \in [Workers -> BOOLEAN]
    /\ terminate \in [Workers -> BOOLEAN]
    /\ ticket \in [Tasks -> {"none", "open", "done", "direct"}]
    /\ client \in [Clients -> [at : ClientPlaces, i : Nat, task : Tasks \cup {NoTask},
                               call : {"none", "operate", "flush", "restart", "destroy"}]]
    /\ outstanding \in [Clients -> Seq(Tasks)]
    /\ ask \in [Clients \cup Workers -> Nat]
    /\ due \in [Clients -> SUBSET Tasks]

Free == [at |-> "free", i |-> 1, task |-> NoTask, call |-> "none"]

At(p, t) == [at |-> p, task |-> t]

(* The constructor is through: a thread it has started looks at its own    *)
(* queue only, and nobody else has the pool before.                        *)
Init == /\ users \in Uses
        /\ numGpus = NumGpus
        /\ threads = [i \in Devices |-> i]
        /\ queue = [q \in Devices |-> <<>>]
        /\ worker = [w \in Workers |-> At(IF w \in Devices THEN "top" ELSE "absent", NoTask)]
        /\ idle = [w \in Workers |-> TRUE]
        /\ terminate = [w \in Workers |-> FALSE]
        /\ ticket = [t \in Tasks |-> "none"]
        /\ client = [c \in Clients |-> Free]
        /\ outstanding = [c \in Clients |-> <<>>]
        /\ ask = [x \in Clients \cup Workers |-> 0]
        /\ due = [c \in Clients |-> {}]

-----------------------------------------------------------------------------
(* idle(): x is at the ask[x]-th step of the walk.                         *)

QueueAsked(x) == ask[x] - Len(threads)

Busy(x) == IF ask[x] <= Len(threads) THEN ~idle[threads[ask[x]]]
           ELSE queue[QueueAsked(x)] # <<>>

LastAsked(x) == QueueAsked(x) = numGpus

SaysNo(x)  == ask[x] # 0 /\ Busy(x)
SaysYes(x) == ask[x] # 0 /\ ~Busy(x) /\ LastAsked(x)

AskOn(x) ==
    /\ ask[x] # 0 /\ ~Busy(x) /\ ~LastAsked(x)
    /\ ask' = [ask EXCEPT ![x] = @ + 1]
    /\ UNCHANGED <<pool, work, ticket, calls>>

-----------------------------------------------------------------------------
(* The threads of the pool.                                                *)

\* Mutant: nobody is woken.
WakeNobody(ws, q) == ws

\* The broadcast of device q's condition variable.
Broadcast(ws, q) == [w \in Workers |-> IF ws[w].at = "wait" /\ Home(w) = q
                                       THEN At("woken", NoTask) ELSE ws[w]]

\* Mutant: front() without pop().
PickWorkWithoutPop(w, otherwise) ==
    LET q == Home(w) IN
    IF queue[q] # <<>>
    THEN /\ worker' = [worker EXCEPT ![w] = At("run", Head(queue[q]))]
         /\ idle' = [idle EXCEPT ![w] = FALSE]
         /\ UNCHANGED queue
    ELSE worker' = [worker EXCEPT ![w] = At(otherwise, NoTask)] /\ UNCHANGED <<queue, idle>>

(* pick_work(), and where the thread goes if it finds no task.             *)
PickWork(w, otherwise) ==
    LET q == Home(w) IN
    IF queue[q] # <<>>
    THEN /\ worker' = [worker EXCEPT ![w] = At("run", Head(queue[q]))]
         /\ queue' = [queue EXCEPT ![q] = Tail(@)]
         /\ idle' = [idle EXCEPT ![w] = FALSE]
    ELSE worker' = [worker EXCEPT ![w] = At(otherwise, NoTask)] /\ UNCHANGED <<queue, idle>>

Look(w) ==
    /\ worker[w].at = "top"
    /\ PickWork(w, IF terminate[w] THEN "check" ELSE "wait")
    /\ UNCHANGED <<pool, ticket, calls, ask>>

LookAgain(w) ==
    /\ worker[w].at \in {"woken", "pick"}
    /\ PickWork(w, "check")
    /\ UNCHANGED <<pool, ticket, calls, ask>>

\* while (! terminate), without the mutex.
Check(w) ==
    /\ worker[w].at = "check"
    /\ worker' = [worker EXCEPT ![w].at = IF terminate[w] THEN "gone" ELSE "top"]
    /\ UNCHANGED <<pool, queue, idle, ticket, calls, ask>>

SpuriousWakeup(w) ==
    /\ Spurious
    /\ worker[w].at = "wait"
    /\ worker' = [worker EXCEPT ![w].at = "woken"]
    /\ UNCHANGED <<pool, queue, idle, ticket, calls, ask>>

Goes(w, p) == worker' = [worker EXCEPT ![w].at = p]

(* The functor ends; one that throws ends the thread function with it.     *)
Run(w) ==
    /\ worker[w].at = "run" /\ ask[w] = 0
    /\ worker[w].task \notin Curious \ Faulty
    /\ worker' = [worker EXCEPT ![w] = IF @.task \in Faulty THEN At("gone", NoTask)
                                       ELSE At("ran", @.task)]
    /\ UNCHANGED <<pool, queue, idle, ticket, calls, ask>>

(* The functor calls an operation: it asks idle().  If the answer is no it *)
(* does the work at once, or throws, as when the data is on another        *)
(* device.  After a yes it waits for a task it enqueues behind itself.     *)
Ask(w) ==
    /\ worker[w].at = "run" /\ worker[w].task \in Curious
    /\ ask[w] = 0
    /\ ask' = [ask EXCEPT ![w] = 1]
    /\ UNCHANGED <<pool, work, ticket, calls>>

RunAnswered(w) ==
    /\ worker[w].at = "run"
    /\ SaysNo(w) \/ SaysYes(w)
    /\ ask' = [ask EXCEPT ![w] = 0]
    /\ worker' = [worker EXCEPT ![w] = IF SaysYes(w) THEN At("stuck", @.task)
                                       ELSE IF @.task \in Faulty THEN At("gone", NoTask)
                                       ELSE At("ran", @.task)]
    /\ UNCHANGED <<pool, queue, idle, ticket, calls>>

\* Mutant: the flag is not set after a task.
ForgetIdle(w) ==
    /\ worker[w].at = "ran"
    /\ worker' = [worker EXCEPT ![w].at = "mark"]
    /\ UNCHANGED <<pool, queue, idle, ticket, calls, ask>>

SetIdle(w) ==
    /\ worker[w].at = "ran"
    /\ idle' = [idle EXCEPT ![w] = TRUE]
    /\ worker' = [worker EXCEPT ![w].at = "mark"]
    /\ UNCHANGED <<pool, queue, ticket, calls, ask>>

Mark(w) ==
    /\ worker[w].at = "mark"
    /\ ticket' = [ticket EXCEPT ![worker[w].task] = "done"]
    /\ worker' = [worker EXCEPT ![w] = At("pick", NoTask)]
    /\ UNCHANGED <<pool, queue, idle, calls, ask>>

-----------------------------------------------------------------------------
(* The clients.                                                            *)

MayCall(c) == c \in users /\ client[c] = Free /\ \A d \in users : client[d].call # "destroy"

New(t) == ticket[t] = "none" /\ \A c \in Clients : client[c].task # t

Alone(c) == \A d \in users \ {c} : client[d] = Free

(* enqueue(task, device): the queue is that of device % num_gpus.          *)
Put(c, t, device) ==
    LET q == (device % numGpus) + 1 IN
    /\ ticket' = [ticket EXCEPT ![t] = "open"]
    /\ queue' = [queue EXCEPT ![q] = Append(@, t)]
    /\ worker' = Broadcast(worker, q)
    /\ outstanding' = [outstanding EXCEPT ![c] = Append(@, t)]
    /\ UNCHANGED <<pool, idle, ask>>

Enqueue(c, t, device) ==
    /\ MayCall(c) /\ New(t)
    /\ Put(c, t, device)
    /\ UNCHANGED <<client, due>>

Wait(c) ==
    /\ MayCall(c) /\ outstanding[c] # <<>>
    /\ client' = [client EXCEPT ![c].at = "await", ![c].i = Len(outstanding[c])]
    /\ UNCHANGED <<pool, work, ticket, outstanding, ask, due>>

(* An operation that asks: upload, download, sum, ...  What it enqueues    *)
(* without asking (again), as copy and free do for the chunks of a block,  *)
(* is an Enqueue with its Wait.                                            *)
Operate(c, t) ==
    /\ MayCall(c) /\ New(t)
    /\ client' = [client EXCEPT ![c] = [Free EXCEPT !.at = "ask", !.task = t, !.call = "operate"]]
    /\ ask' = [ask EXCEPT ![c] = 1]
    /\ UNCHANGED <<pool, work, ticket, outstanding, due>>

(* flush(): one task per device, a wait for all, then idle() until it says *)
(* yes.                                                                    *)
Flush(c) ==
    /\ MayCall(c) /\ c \in Flushers
    /\ \A q \in Devices : ticket[Synch[<<c, q>>]] = "none"
    /\ client' = [client EXCEPT ![c] = [Free EXCEPT !.at = "put", !.call = "flush"]]
    /\ due' = [due EXCEPT ![c] = {t \in Tasks : ticket[t] = "open"}]
    /\ UNCHANGED <<pool, work, ticket, outstanding, ask>>

(* single_start(): for one client on its own, which does not leave a task  *)
(* behind that asks for the threads while they are being deleted.          *)
Restart(c) ==
    /\ MayCall(c) /\ users = {c}
    /\ \A t \in Curious : ticket[t] # "open"
    /\ \E w \in Workers : worker[w].at = "absent"
    /\ client' = [client EXCEPT ![c] = [Free EXCEPT !.at = "ask", !.call = "restart"]]
    /\ ask' = [ask EXCEPT ![c] = 1]
    /\ UNCHANGED <<pool, work, ticket, outstanding, due>>

(* ~GPUPool(), at exit, when nobody uses the pool any more.                *)
Destroy(c) ==
    /\ MayCall(c) /\ Alone(c)
    /\ \A d \in Clients : outstanding[d] = <<>>
    /\ client' = [client EXCEPT ![c] = [Free EXCEPT !.at = "stop", !.call = "destroy"]]
    /\ UNCHANGED <<pool, work, ticket, outstanding, ask, due>>

-----------------------------------------------------------------------------
(* The rest of a call.                                                     *)

(* The answer of idle(): an operation goes to a device, or is carried out  *)
(* or refused here; flush asks again or returns; single_start goes on or   *)
(* throws, also because there is no such device.                           *)
Answered(c) ==
    LET op == client[c].call IN
    /\ client[c].at = "ask"
    /\ SaysNo(c) \/ SaysYes(c)
    /\ ask' = [ask EXCEPT ![c] = IF op = "flush" /\ SaysNo(c) THEN 1 ELSE 0]
    /\ \E valid \in BOOLEAN : client' = [client EXCEPT ![c] =
            CASE op = "operate" -> IF SaysYes(c) THEN [@ EXCEPT !.at = "put"] ELSE Free
              [] op = "flush"   -> IF SaysYes(c) THEN Free ELSE @
              [] op = "restart" -> IF SaysYes(c) /\ valid THEN [@ EXCEPT !.at = "stop"] ELSE Free]
    /\ ticket' = IF op = "operate" /\ SaysNo(c)
                 THEN [ticket EXCEPT ![client[c].task] = "direct"] ELSE ticket
    /\ UNCHANGED <<pool, work, outstanding, due>>

\* cuda_get_device() of a client's thread may be any.
PutOperation(c, device) ==
    /\ client[c].at = "put" /\ client[c].call = "operate"
    /\ Put(c, client[c].task, device)
    /\ client' = [client EXCEPT ![c].at = "await"]
    /\ UNCHANGED due

\* Mutant: the synchronising tasks all go to the first device.
FlushFirstDevice(c) ==
    LET q == client[c].i IN
    /\ client[c].at = "put" /\ client[c].call = "flush"
    /\ Put(c, Synch[<<c, q>>], 0)
    /\ client' = [client EXCEPT ![c] = IF q = numGpus THEN [@ EXCEPT !.at = "await"]
                                       ELSE [@ EXCEPT !.i = q + 1]]
    /\ UNCHANGED due

FlushDevice(c) ==
    LET q == client[c].i IN
    /\ client[c].at = "put" /\ client[c].call = "flush"
    /\ Put(c, Synch[<<c, q>>], q - 1)
    /\ client' = [client EXCEPT ![c] = IF q = numGpus THEN [@ EXCEPT !.at = "await"]
                                       ELSE [@ EXCEPT !.i = q + 1]]
    /\ UNCHANGED due

Front(s) == SubSeq(s, 1, Len(s) - 1)

(* A wait for the client's last i tickets, the last one first: what it has *)
(* enqueued, or the one of an operation, or those of flush().              *)
Await(c) ==
    /\ client[c].at = "await" /\ client[c].i # 0
    /\ ticket[outstanding[c][Len(outstanding[c])]] = "done"
    /\ outstanding' = [outstanding EXCEPT ![c] = Front(@)]
    /\ client' = [client EXCEPT ![c].i = @ - 1]
    /\ UNCHANGED <<pool, work, ticket, ask, due>>

Awaited(c) ==
    /\ client[c].at = "await" /\ client[c].i = 0
    /\ IF client[c].call = "flush"
       THEN client' = [client EXCEPT ![c].at = "ask"] /\ ask' = [ask EXCEPT ![c] = 1]
       ELSE client' = [client EXCEPT ![c] = Free] /\ UNCHANGED ask
    /\ UNCHANGED <<pool, work, ticket, outstanding, due>>

(* stop() of the i-th thread ...                                           *)
Stop(c) ==
    LET w == threads[client[c].i] IN
    /\ client[c].at = "stop"
    /\ terminate' = [terminate EXCEPT ![w] = TRUE]
    /\ worker' = Broadcast(worker, Home(w))
    /\ client' = [client EXCEPT ![c].at = "join"]
    /\ UNCHANGED <<users, numGpus, threads, queue, idle, ticket, outstanding, ask, due>>

Restarted == CHOOSE w \in Workers : worker[w].at = "absent"

\* Mutant: without threads.clear().
JoinWithoutClear(c) ==
    LET last == client[c].i = Len(threads) IN
    /\ client[c].at = "join"
    /\ worker[threads[client[c].i]].at = "gone"
    /\ client' = [client EXCEPT ![c] =
            CASE ~last -> [@ EXCEPT !.at = "stop", !.i = client[c].i + 1]
              [] last /\ client[c].call = "restart" -> Free
              [] last /\ client[c].call = "destroy" -> [@ EXCEPT !.at = "left"]]
    /\ IF last /\ client[c].call = "restart"
       THEN /\ threads' = Append(threads, Restarted)
            /\ numGpus' = 1
            /\ worker' = [worker EXCEPT ![Restarted] = At("top", NoTask)]
       ELSE UNCHANGED <<threads, numGpus, worker>>
    /\ UNCHANGED <<users, terminate, queue, idle, ticket, outstanding, ask, due>>

(* ... and the deletion of its Thread, which joins it; after the last one, *)
(* single_start goes on with one new thread on the first queue.            *)
Join(c) ==
    LET last == client[c].i = Len(threads) IN
    /\ client[c].at = "join"
    /\ worker[threads[client[c].i]].at = "gone"
    /\ client' = [client EXCEPT ![c] =
            CASE ~last -> [@ EXCEPT !.at = "stop", !.i = client[c].i + 1]
              [] last /\ client[c].call = "restart" -> Free
              [] last /\ client[c].call = "destroy" -> [@ EXCEPT !.at = "left"]]
    /\ IF last /\ client[c].call = "restart"
       THEN /\ threads' = <<Restarted>>
            /\ numGpus' = 1
            /\ worker' = [worker EXCEPT ![Restarted] = At("top", NoTask)]
       ELSE UNCHANGED <<threads, numGpus, worker>>
    /\ UNCHANGED <<users, terminate, queue, idle, ticket, outstanding, ask, due>>

Closed == (\E c \in users : client[c].at = "left") /\ UNCHANGED vars
-----------------------------------------------------------------------------
WorkerStep(w) == \/ Look(w) \/ LookAgain(w) \/ Check(w) \/ Run(w) \/ Ask(w)
                 \/ AskOn(w) \/ RunAnswered(w) \/ SetIdle(w) \/ Mark(w)

ClientStep(c) == \/ AskOn(c) \/ Answered(c) \/ FlushDevice(c) \/ Await(c) \/ Awaited(c)
                 \/ Stop(c) \/ Join(c)
                 \/ \E device \in 0..NumGpus : PutOperation(c, device)

ClientCall(c) == \/ Wait(c) \/ Flush(c) \/ Restart(c) \/ Destroy(c)
                 \/ \E t \in Operations : \/ Operate(c, t)
                                          \/ \E device \in 0..NumGpus : Enqueue(c, t, device)

Next == \/ \E w \in Workers : WorkerStep(w) \/ SpuriousWakeup(w)
        \/ \E c \in Clients : ClientStep(c) \/ ClientCall(c)
        \/ Closed

Spec == Init /\ [][Next]_vars

(* Threads that can go on do, and functors end.  Nobody has to call.       *)
FairSpec == /\ Spec
            /\ \A w \in Workers : WF_vars(WorkerStep(w))
            /\ \A c \in Clients : WF_vars(ClientStep(c))
-----------------------------------------------------------------------------
Queued(t) == \E q \in Devices : \E i \in 1..Len(queue[q]) : queue[q][i] = t

Held(t, p) == \E w \in Workers : worker[w] = At(p, t)

(* idle() tells an operation where it runs.                                *)
(*                                                                         *)
(* When no ticket is open, it finds every thread idle and every queue      *)
(* empty: a client that has waited for all that was enqueued is told that  *)
(* it is outside of the pool, and its next operation goes to a device.     *)
(* gpu_pool_TEST checks this once, after a wait.                           *)
QuietPoolIsIdle ==
    (\A t \in Tasks : ticket[t] # "open") =>
        /\ \A i \in 1..Len(threads) : idle[threads[i]]
        /\ \A q \in 1..numGpus : queue[q] = <<>>

(* A task is never told that it is outside, so that the operations it      *)
(* calls are not enqueued behind it, where it would wait for ever: as long *)
(* as it asks, the flag of its own thread, still to be read, is not idle.  *)
TasksKnowTheirThread ==
    \A w \in Workers : ask[w] # 0 =>
        \E i \in 1..Len(threads) : i >= ask[w] /\ threads[i] = w /\ ~idle[w]

IdleTellsWhereOneIs == QuietPoolIsIdle /\ TasksKnowTheirThread

(* When flush() has come back, all that was enqueued before, by whomever,  *)
(* has been executed and its ticket marked.                                *)
FlushDrains ==
    \A c \in Clients : client[c].call # "flush" => \A t \in due[c] \ Faulty : ticket[t] = "done"

(* The pool implements what clients may rely on; what a client carries out *)
(* itself is new to it.                                                    *)
Status(t) == CASE ticket[t] \in {"none", "direct"} -> "new"
               [] ticket[t] = "done" -> "done"
               [] ticket[t] = "open" /\ Queued(t) -> "queued"
               [] ticket[t] = "open" /\ Held(t, "run") -> "running"
               [] ticket[t] = "open" /\ (Held(t, "ran") \/ Held(t, "mark")) -> "executed"
               [] OTHER -> "lost"

Outstanding(t) == \E c \in Clients : \E i \in 1..Len(outstanding[c]) : outstanding[c][i] = t

Exec == INSTANCE Executor WITH
            status  <- [t \in Tasks |-> Status(t)],
            awaited <- {t \in Tasks : ticket[t] \notin {"none", "direct"} /\ ~Outstanding(t)}

ImplementsExecutor == Exec!Spec

(* Liveness, unless a functor threw and ended a thread: every task is      *)
(* executed, and every call, of flush, single_start and the destructor     *)
(* too, comes to its end.                                                  *)
ThreadLost == \E t \in Faulty : ticket[t] = "open" /\ Status(t) = "lost"

EverythingEnds ==
    /\ \A t \in Tasks : ticket[t] = "open" ~> ticket[t] = "done" \/ ThreadLost
    /\ \A c \in Clients : client[c].at # "free" ~> client[c].at \in {"free", "left"} \/ ThreadLost
=============================================================================
