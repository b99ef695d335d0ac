--------------------------- MODULE GPUFlushProofs ---------------------------
(***************************************************************************)
(* The proof that flush() drains the pool (GPUPool), for any numbers of    *)
(* devices, clients and tasks.                                             *)
(*                                                                         *)
(* The argument: a queue is taken from at its front by one thread only, so *)
(* when flush()'s task of a device is done, all that was in that queue     *)
(* before it is, unless it threw.  It does not need flush()'s last loop,   *)
(* over idle().                                                            *)
(***************************************************************************)
EXTENDS GPUPoolProofs

-----------------------------------------------------------------------------
(* The invariant, beyond IInv. *)

\* The tickets of its synchronising tasks that a flush still has in its vector.
Pending(c) == CASE client[c].at = "put" -> client[c].i - 1
                [] client[c].at = "await" -> client[c].i
                [] OTHER -> 0

(* An open task is in a queue or with a thread, unless its functor threw. *)
NothingLost ==
    \A t \in Tasks : ticket[t] = "open" =>
        t \in Faulty \/ Queued(t) \/ \E w \in Workers : worker[w].task = t

(* The synchronising tasks are with their devices. *)
SynchAtHome ==
    \A c \in Flushers : \A q \in Devices :
        /\ \A p \in Devices : \A i \in 1..Len(queue[p]) : queue[p][i] = Synch[<<c, q>>] => p = q
        /\ \A w \in Workers : worker[w].task = Synch[<<c, q>>] => Home(w) = q

(* A task that c's flush has to see done is before c's task of its device. *)
Ahead(t, c) ==
    /\ ticket[t] \in {"open", "done"}
    /\ \A q \in Devices : t # Synch[<<c, q>>]
    /\ \A p \in Devices : \A i \in 1..Len(queue[p]) : queue[p][i] = t =>
           /\ ticket[Synch[<<c, p>>]] # "done"
           /\ \A w \in Workers : worker[w].task # Synch[<<c, p>>]
           /\ \A j \in 1..Len(queue[p]) : queue[p][j] = Synch[<<c, p>>] => i < j
    /\ \A w \in Workers : worker[w].task = t => ticket[Synch[<<c, Home(w)>>]] # "done"

DueFirst == \A c \in Flushers : client[c].call = "flush" => \A t \in due[c] : Ahead(t, c)

(* The last tickets in the vector of a client that flushes are those of    *)
(* its tasks, in the order of devices; the later ones are done.            *)
Awaiting(c) ==
    LET n == Pending(c)  k == Len(outstanding[c]) - n
    IN  /\ client[c].at \in {"put", "await", "ask"}
        /\ n \in 0..Len(outstanding[c]) /\ n <= numGpus
        /\ \A q \in 1..n : outstanding[c][k + q] = Synch[<<c, q>>]
        /\ client[c].at # "put" => \A q \in 1..numGpus : q > n => ticket[Synch[<<c, q>>]] = "done"

AwaitsSynch == \A c \in Clients : client[c].call = "flush" => c \in Flushers /\ Awaiting(c)

(* Nothing is in a queue that has no thread, also after single_start(). *)
Spare == \A q \in Devices : q > numGpus => queue[q] = <<>>

Emptied ==
    \A c \in Clients : client[c].call = "restart" =>
        \A q \in 1..numGpus : client[c].at \in {"stop", "join"} \/ q < QueueAsked(c) => queue[q] = <<>>

FInv == /\ NothingLost /\ SynchAtHome /\ DueFirst /\ AwaitsSynch /\ Spare /\ Emptied
        /\ FlushDrains

-----------------------------------------------------------------------------
(* The kinds of steps: a thread takes a task, or marks its ticket; a       *)
(* client enqueues one; or all tasks stay where they are.                  *)

Picked(w) ==
    /\ queue[Home(w)] # <<>> /\ queue' = [queue EXCEPT ![Home(w)] = Tail(@)]
    /\ worker'[w].task = Head(queue[Home(w)])
    /\ \A v \in Workers : v # w => worker'[v].task = worker[v].task
    /\ worker[w].task = NoTask
    /\ UNCHANGED ticket

Marked(w) ==
    /\ worker[w].task \in Tasks /\ ticket' = [ticket EXCEPT ![worker[w].task] = "done"]
    /\ worker[w].at \notin {"absent", "gone"}
    /\ worker'[w].task = NoTask
    /\ \A v \in Workers : v # w => worker'[v].task = worker[v].task
    /\ UNCHANGED queue

PutBy(c, t, q) ==
    /\ ticket[t] = "none" /\ ticket' = [ticket EXCEPT ![t] = "open"]
    /\ queue' = [queue EXCEPT ![q] = Append(@, t)]
    /\ outstanding' = [outstanding EXCEPT ![c] = Append(@, t)]
    /\ \A w \in Workers : worker'[w].task = worker[w].task
    /\ \/ t \in Operations
       \/ c \in Flushers /\ q = client[c].i /\ t = Synch[<<c, q>>]

Kept ==
    /\ \A w \in Workers : \/ worker'[w].task = worker[w].task
                          \/ worker[w].task \in Faulty /\ worker'[w].task = NoTask
    /\ \A t \in Tasks : ticket'[t] = ticket[t] \/ (ticket[t] = "none" /\ ticket'[t] = "direct")
    /\ UNCHANGED queue

LEMMA WorkerKinds ==
  ASSUME IInv, NEW w \in Workers, WorkerStep(w) \/ SpuriousWakeup(w)
  PROVE  Picked(w) \/ Marked(w) \/ Kept
<1>0. /\ worker \in [Workers -> WorkerStates] /\ Home(w) \in Devices
      /\ worker[w].at \in {"top", "woken", "pick", "wait"} => worker[w].task = NoTask
      /\ worker[w].at = "mark" => worker[w].task # NoTask
  BY HomeType DEF IInv, TypeOK, WorkerStates, Holding, TaskInOnePlace, Busied
<1>1. CASE Look(w) \/ LookAgain(w)
  <2>1. PICK p \in {"check", "wait"} : PickWork(w, p)
    BY <1>1 DEF Look, LookAgain
  <2>2. UNCHANGED ticket /\ worker[w].task = NoTask
    BY <1>0, <1>1 DEF Look, LookAgain
  <2>3. CASE queue[Home(w)] # <<>>
    <3>1. /\ worker' = [worker EXCEPT ![w] = At("run", Head(queue[Home(w)]))]
          /\ queue' = [queue EXCEPT ![Home(w)] = Tail(@)]
      BY <2>1, <2>3 DEF PickWork
    <3>2. /\ worker'[w].task = Head(queue[Home(w)])
          /\ \A v \in Workers : v # w => worker'[v].task = worker[v].task
      BY <1>0, <3>1, AtType
    <3> QED BY <2>2, <2>3, <3>1, <3>2 DEF Picked
  <2>4. CASE queue[Home(w)] = <<>>
    <3>1. worker' = [worker EXCEPT ![w] = At(p, NoTask)] /\ UNCHANGED queue
      BY <2>1, <2>4 DEF PickWork
    <3>2. \A v \in Workers : worker'[v].task = worker[v].task
      BY <1>0, <2>2, <3>1, AtType
    <3> QED BY <2>2, <3>1, <3>2 DEF Kept
  <2> QED BY <2>3, <2>4
<1>2. CASE Mark(w)
  <2>1. /\ ticket' = [ticket EXCEPT ![worker[w].task] = "done"] /\ UNCHANGED queue
        /\ worker[w].at = "mark" /\ worker' = [worker EXCEPT ![w] = At("pick", NoTask)]
    BY <1>2 DEF Mark
  <2>2. worker[w].task \in Tasks
    BY <1>0, <2>1 DEF WorkerStates, Holding
  <2> QED BY <1>0, <2>1, <2>2, AtType DEF Marked
<1>3. CASE Run(w)
  <2>1. /\ UNCHANGED <<queue, ticket>>
        /\ worker' = [worker EXCEPT ![w] = IF worker[w].task \in Faulty THEN At("gone", NoTask)
                                           ELSE At("ran", worker[w].task)]
    BY <1>3 DEF Run
  <2> QED BY <1>0, <2>1, AtType DEF Kept
<1>4. CASE Check(w) \/ SpuriousWakeup(w) \/ SetIdle(w)
  <2>1. PICK p : worker' = [worker EXCEPT ![w].at = p]
    BY <1>4 DEF Check, SpuriousWakeup, SetIdle
  <2>2. \A v \in Workers : worker'[v].task = worker[v].task
    BY <1>0, <2>1 DEF WorkerStates
  <2>3. UNCHANGED <<queue, ticket>>
    BY <1>4 DEF Check, SpuriousWakeup, SetIdle
  <2> QED BY <2>2, <2>3 DEF Kept
<1>5. CASE Ask(w) \/ AskOn(w)
  BY <1>5 DEF Ask, AskOn, work, Kept
<1>6. CASE RunAnswered(w)
  <2>1. TypeOK
    BY DEF IInv
  <2> QED BY <1>6, <2>1, AnswerEffect, AtType DEF Kept
<1> QED BY <1>1, <1>2, <1>3, <1>4, <1>5, <1>6 DEF WorkerStep

LEMMA PutKind ==
  ASSUME IInv, NEW c \in Clients, NEW t \in Tasks, NEW d \in Int, Put(c, t, d), ticket[t] = "none",
         \/ t \in Operations
         \/ /\ c \in Flushers /\ client[c].i \in 1..numGpus /\ t = Synch[<<c, client[c].i>>]
            /\ d = client[c].i - 1,
         \A w \in Workers : worker'[w].task = worker[w].task
  PROVE  \E q \in 1..numGpus : PutBy(c, t, q)
<1>1. numGpus \in Nat \ {0}
  BY NumGpusAssumption DEF IInv, TypeOK, Devices
<1>2. PICK q : q = (d % numGpus) + 1
  OBVIOUS
<1>3. q \in 1..numGpus
  BY <1>1, <1>2
<1>4. d = client[c].i - 1 /\ client[c].i \in 1..numGpus => q = client[c].i
  <2> SUFFICES ASSUME NEW i \in 1..numGpus, d = i - 1 PROVE d % numGpus = i - 1
    BY <1>1, <1>2
  <2>1. d \in 0..numGpus - 1
    BY <1>1
  <2> QED BY <1>1, <2>1
<1> QED BY <1>2, <1>3, <1>4 DEF Put, PutBy

LEMMA ClientKinds ==
  ASSUME IInv, NEW c \in Clients, ClientStep(c) \/ ClientCall(c)
  PROVE  (~Puts(c) /\ Kept) \/ (Puts(c) /\ \E t \in Tasks, q \in 1..numGpus : PutBy(c, t, q))
<1>0. \A w \in Workers : worker'[w].task = worker[w].task
  BY ClientLeavesTasks DEF IInv
<1>1. CASE Puts(c)
  <2>0. 0..NumGpus \subseteq Int /\ Operations \subseteq Tasks
    BY DEF Operations
  <2>1. CASE \E d \in 0..NumGpus : PutOperation(c, d)
    <3>1. PICK d \in 0..NumGpus : PutOperation(c, d)
      BY <2>1
    <3>2. client[c].task \in Operations /\ ticket[client[c].task] = "none" /\ Put(c, client[c].task, d)
      BY <3>1 DEF PutOperation, IInv, Reserved, InReserve
    <3> QED BY <1>0, <1>1, <2>0, <3>2, PutKind
  <2>2. CASE FlushDevice(c)
    <3>1. /\ c \in Flushers /\ client[c].i \in 1..numGpus
          /\ \A q \in Devices : q >= client[c].i => ticket[Synch[<<c, q>>]] = "none"
          /\ Put(c, Synch[<<c, client[c].i>>], client[c].i - 1)
      BY <2>2 DEF FlushDevice, IInv, Reserved, InReserve
    <3>2. client[c].i \in Devices /\ client[c].i - 1 \in Int /\ client[c].i >= client[c].i
      BY <3>1, NumGpusAssumption DEF IInv, TypeOK, Devices
    <3>3. Synch[<<c, client[c].i>>] \in Tasks /\ ticket[Synch[<<c, client[c].i>>]] = "none"
      BY <3>1, <3>2, SynchApart
    <3> QED BY <1>0, <1>1, <3>1, <3>2, <3>3, PutKind
  <2>3. CASE \E t \in Operations, d \in 0..NumGpus : Enqueue(c, t, d)
    <3>1. PICK t \in Operations, d \in 0..NumGpus : Enqueue(c, t, d)
      BY <2>3
    <3>2. ticket[t] = "none" /\ Put(c, t, d)
      BY <3>1 DEF Enqueue, New
    <3> QED BY <1>0, <1>1, <2>0, <3>2, PutKind
  <2> QED BY <1>1, <2>1, <2>2, <2>3 DEF Puts
<1>2. CASE ~Puts(c)
  <2>1. CASE Answered(c)
    <3>1. \/ UNCHANGED ticket
          \/ /\ client[c].call = "operate" /\ client[c].at = "ask"
             /\ ticket' = [ticket EXCEPT ![client[c].task] = "direct"]
      BY <2>1 DEF Answered
    <3>2. client[c].call = "operate" /\ client[c].at = "ask" => ticket[client[c].task] = "none"
      BY DEF IInv, Reserved, InReserve
    <3>3. \A t \in Tasks : ticket'[t] = ticket[t] \/ (ticket[t] = "none" /\ ticket'[t] = "direct")
      BY <3>1, <3>2 DEF IInv, TypeOK
    <3>4. UNCHANGED queue
      BY <2>1 DEF Answered, work
    <3> QED BY <1>0, <1>2, <3>3, <3>4 DEF Kept
  <2>2. CASE \/ AskOn(c) \/ Await(c) \/ Awaited(c) \/ Wait(c) \/ Stop(c) \/ Join(c)
             \/ Flush(c) \/ Restart(c) \/ Destroy(c) \/ \E t \in Operations : Operate(c, t)
    <3>1. UNCHANGED <<queue, ticket>>
      BY <2>2 DEF AskOn, Await, Awaited, Wait, Stop, Join, Flush, Restart, Destroy, Operate, work
    <3> QED BY <1>0, <1>2, <3>1 DEF Kept
  <2> QED BY <1>2, <2>1, <2>2 DEF Puts, ClientStep, ClientCall
<1> QED BY <1>1, <1>2

LEMMA StepKinds ==
  ASSUME IInv, [Next]_vars
  PROVE  \/ \E w \in Workers : Picked(w) \/ Marked(w)
         \/ \E c \in Clients, t \in Tasks, q \in 1..numGpus : PutBy(c, t, q)
         \/ Kept
<1>1. CASE \E w \in Workers : WorkerStep(w) \/ SpuriousWakeup(w)
  BY <1>1, WorkerKinds
<1>2. CASE \E c \in Clients : ClientStep(c) \/ ClientCall(c)
  BY <1>2, ClientKinds
<1>3. CASE Closed \/ UNCHANGED vars
  BY <1>3 DEF Closed, vars, work, Kept
<1> QED BY <1>1, <1>2, <1>3 DEF Next

-----------------------------------------------------------------------------
(* Tasks are not lost, and those of a flush are with their devices. *)

LEMMA PushFacts ==
  ASSUME TypeOK, NEW t \in Tasks, NEW q \in Devices, queue' = [queue EXCEPT ![q] = Append(@, t)]
  PROVE  /\ Len(queue[q]) + 1 \in 1..Len(queue'[q]) /\ queue'[q][Len(queue[q]) + 1] = t
         /\ \A p \in Devices : \A i \in 1..Len(queue[p]) :
                i \in 1..Len(queue'[p]) /\ queue'[p][i] = queue[p][i]
<1>1. /\ queue \in [Devices -> Seq(Tasks)] /\ queue'[q] = Append(queue[q], t)
      /\ \A p \in Devices : p # q => queue'[p] = queue[p]
  BY DEF TypeOK
<1>2. /\ Len(queue[q]) \in Nat /\ Len(queue'[q]) = Len(queue[q]) + 1
      /\ queue'[q][Len(queue[q]) + 1] = t
      /\ \A i \in 1..Len(queue[q]) : queue'[q][i] = queue[q][i]
  BY <1>1, AppendProperties, LenProperties
<1>3. \A i \in 1..Len(queue[q]) : i \in 1..Len(queue'[q])
  BY <1>2
<1> QED BY <1>1, <1>2, <1>3

LEMMA DevicesInUse == IInv => 1..numGpus \subseteq Devices
  BY NumGpusAssumption DEF IInv, TypeOK, Devices

LEMMA DoneStays ==
  ASSUME IInv, [Next]_vars, NEW t \in Tasks, ticket[t] = "done"
  PROVE  ticket'[t] = "done"
<1>0. ticket \in [Tasks -> {"none", "open", "done", "direct"}]
  BY DEF IInv, TypeOK
<1>1. CASE \E w \in Workers : Picked(w) \/ Marked(w)
  BY <1>0, <1>1 DEF Picked, Marked
<1>2. ASSUME NEW c \in Clients, NEW u \in Tasks, NEW q \in 1..numGpus, PutBy(c, u, q)
      PROVE  ticket'[t] = "done"
  BY <1>0, <1>2 DEF PutBy
<1>3. CASE Kept
  BY <1>3 DEF Kept
<1> QED BY StepKinds, <1>1, <1>2, <1>3

LEMMA NothingLostNext == IInv /\ NothingLost /\ [Next]_vars => NothingLost'
<1> SUFFICES ASSUME IInv, NothingLost, [Next]_vars, NEW t \in Tasks, ticket'[t] = "open", t \notin Faulty
             PROVE  Queued(t)' \/ \E w \in Workers : worker'[w].task = t
  BY DEF NothingLost
<1>0. /\ TypeOK /\ ticket \in [Tasks -> {"none", "open", "done", "direct"}]
      /\ ticket[t] = "open" => Queued(t) \/ \E w \in Workers : worker[w].task = t
      /\ t # NoTask
  BY TasksAssumption DEF IInv, TypeOK, NothingLost
<1>1. ASSUME NEW w \in Workers, Picked(w)
      PROVE  Queued(t)' \/ \E v \in Workers : worker'[v].task = t
  <2>1. /\ ticket[t] = "open" /\ Home(w) \in Devices
        /\ queue[Home(w)] # <<>> /\ queue' = [queue EXCEPT ![Home(w)] = Tail(@)]
    BY <1>1, HomeType DEF Picked
  <2>q. PICK h \in Devices : h = Home(w)
    BY <2>1
  <2>4. \A p \in Devices : \A j \in 1..Len(queue[p]) :
            (p = h /\ j = 1) \/ \E i \in 1..Len(queue'[p]) : queue'[p][i] = queue[p][j]
    BY <1>0, <2>1, <2>q, PoppedBack
  <2>2. CASE Queued(t)
    <3>1. PICK p \in Devices : \E j \in 1..Len(queue[p]) : queue[p][j] = t
      BY <2>2 DEF Queued
    <3>2. PICK j \in 1..Len(queue[p]) : queue[p][j] = t
      BY <3>1
    <3>3. CASE p = Home(w) /\ j = 1
      <4>1. worker'[w].task = queue[p][1]
        BY <1>0, <1>1, <2>1, <3>3, Popped DEF Picked
      <4> QED BY <3>2, <3>3, <4>1
    <3>4. CASE \E i \in 1..Len(queue'[p]) : queue'[p][i] = queue[p][j]
      BY <3>2, <3>4 DEF Queued
    <3> QED BY <2>q, <2>4, <3>3, <3>4
  <2>3. CASE \E v \in Workers : worker[v].task = t
    BY <1>0, <1>1, <2>3 DEF Picked
  <2> QED BY <1>0, <2>1, <2>2, <2>3
<1>2. ASSUME NEW w \in Workers, Marked(w)
      PROVE  Queued(t)' \/ \E v \in Workers : worker'[v].task = t
  <2>1. t # worker[w].task /\ ticket[t] = "open"
    BY <1>0, <1>2 DEF Marked
  <2> QED BY <1>0, <1>2, <2>1 DEF Marked, Queued
<1>3. ASSUME NEW c \in Clients, NEW u \in Tasks, NEW q \in 1..numGpus, PutBy(c, u, q)
      PROVE  Queued(t)' \/ \E v \in Workers : worker'[v].task = t
  <2>1. /\ Len(queue[q]) + 1 \in 1..Len(queue'[q]) /\ queue'[q][Len(queue[q]) + 1] = u /\ q \in Devices
        /\ \A p \in Devices : \A i \in 1..Len(queue[p]) :
               i \in 1..Len(queue'[p]) /\ queue'[p][i] = queue[p][i]
    BY <1>0, <1>3, DevicesInUse, PushFacts DEF PutBy
  <2>2. CASE t = u
    BY <2>1, <2>2 DEF Queued
  <2>3. CASE t # u
    <3>1. ticket[t] = "open"
      BY <1>0, <1>3, <2>3 DEF PutBy
    <3>2. Queued(t) => Queued(t)'
      BY <2>1 DEF Queued
    <3> QED BY <1>0, <1>3, <3>1, <3>2 DEF PutBy
  <2> QED BY <2>2, <2>3
<1>4. CASE Kept
  BY <1>0, <1>4 DEF Kept, Queued
<1> QED BY StepKinds, <1>1, <1>2, <1>3, <1>4

LEMMA SynchAtHomeNext == IInv /\ SynchAtHome /\ [Next]_vars => SynchAtHome'
<1> SUFFICES ASSUME IInv, SynchAtHome, [Next]_vars, NEW c \in Flushers, NEW q \in Devices
             PROVE  /\ \A p \in Devices : \A i \in 1..Len(queue'[p]) : queue'[p][i] = Synch[<<c, q>>] => p = q
                    /\ \A w \in Workers : worker'[w].task = Synch[<<c, q>>] => Home(w) = q
  BY DEF SynchAtHome
<1> DEFINE s == Synch[<<c, q>>]
<1>0. /\ TypeOK /\ s \in Tasks \ Faulty /\ s \notin Operations /\ s # NoTask
      /\ \A p \in Devices : \A i \in 1..Len(queue[p]) : queue[p][i] = s => p = q
      /\ \A w \in Workers : worker[w].task = s => Home(w) = q
  BY SynchApart, TasksAssumption DEF IInv, SynchAtHome
<1> HIDE DEF s
<1>1. ASSUME NEW w \in Workers, Picked(w)
      PROVE  /\ \A p \in Devices : \A i \in 1..Len(queue'[p]) : queue'[p][i] = s => p = q
             /\ \A v \in Workers : worker'[v].task = s => Home(v) = q
  <2>1. /\ Home(w) \in Devices /\ 1 \in 1..Len(queue[Home(w)]) /\ worker'[w].task = queue[Home(w)][1]
        /\ \A p \in Devices : \A i \in 1..Len(queue'[p]) :
               \E j \in 1..Len(queue[p]) : queue'[p][i] = queue[p][j]
    BY <1>0, <1>1, HomeType, Popped DEF Picked
  <2> QED BY <1>0, <1>1, <2>1 DEF Picked
<1>2. ASSUME NEW w \in Workers, Marked(w)
      PROVE  /\ \A p \in Devices : \A i \in 1..Len(queue'[p]) : queue'[p][i] = s => p = q
             /\ \A v \in Workers : worker'[v].task = s => Home(v) = q
  BY <1>0, <1>2 DEF Marked
<1>3. ASSUME NEW d \in Clients, NEW u \in Tasks, NEW r \in 1..numGpus, PutBy(d, u, r)
      PROVE  /\ \A p \in Devices : \A i \in 1..Len(queue'[p]) : queue'[p][i] = s => p = q
             /\ \A v \in Workers : worker'[v].task = s => Home(v) = q
  <2>1. r \in Devices /\ (u = s => r = q)
    BY <1>0, <1>3, DevicesInUse, SynchApart DEF PutBy, s
  <2>2. \A p \in Devices : \A i \in 1..Len(queue'[p]) :
            \/ i \in 1..Len(queue[p]) /\ queue'[p][i] = queue[p][i]
            \/ p = r /\ queue'[p][i] = u
    BY <1>0, <1>3, Pushed DEF PutBy
  <2> QED BY <1>0, <1>3, <2>1, <2>2 DEF PutBy
<1>4. ASSUME Kept
      PROVE  /\ \A p \in Devices : \A i \in 1..Len(queue'[p]) : queue'[p][i] = s => p = q
             /\ \A v \in Workers : worker'[v].task = s => Home(v) = q
  BY <1>0, <1>4 DEF Kept
<1>5. /\ \A p \in Devices : \A i \in 1..Len(queue'[p]) : queue'[p][i] = s => p = q
      /\ \A w \in Workers : worker'[w].task = s => Home(w) = q
  BY StepKinds, <1>1, <1>2, <1>3, <1>4
<1> QED BY <1>5 DEF s

-----------------------------------------------------------------------------
(* What a flush has to see done stays before its own tasks. *)

\* The parts of Ahead about task t and c's task of device p.
AheadInQueue(t, c, p) ==
    \A i \in 1..Len(queue[p]) : queue[p][i] = t =>
        /\ ticket[Synch[<<c, p>>]] # "done"
        /\ \A w \in Workers : worker[w].task # Synch[<<c, p>>]
        /\ \A j \in 1..Len(queue[p]) : queue[p][j] = Synch[<<c, p>>] => i < j

AheadInHand(t, c, w) == worker[w].task = t => ticket[Synch[<<c, Home(w)>>]] # "done"

LEMMA AheadParts ==
  ASSUME NEW t, NEW c
  PROVE  Ahead(t, c) <=> /\ ticket[t] \in {"open", "done"}
                         /\ \A q \in Devices : t # Synch[<<c, q>>]
                         /\ \A p \in Devices : AheadInQueue(t, c, p)
                         /\ \A w \in Workers : AheadInHand(t, c, w)
  BY DEF Ahead, AheadInQueue, AheadInHand

(* A thread takes a task: it is the front of its queue, hence t rather     *)
(* than the flush's task.                                                  *)
LEMMA AheadPicked ==
  ASSUME IInv, SynchAtHome, NEW w \in Workers, Picked(w), NEW c \in Flushers, NEW t \in Tasks, Ahead(t, c)
  PROVE  Ahead(t, c)'
<1>0. /\ TypeOK /\ Home(w) \in Devices /\ \A p \in Devices : Synch[<<c, p>>] \in Tasks
      /\ \A p \in Devices : AheadInQueue(t, c, p)
      /\ \A v \in Workers : AheadInHand(t, c, v)
  BY SynchApart, HomeType, AheadParts DEF IInv
<1>1. /\ 1 \in 1..Len(queue[Home(w)]) /\ worker'[w].task = queue[Home(w)][1]
      /\ \A p \in Devices : \A i \in 1..Len(queue'[p]) :
             \E j \in 1..Len(queue[p]) : /\ queue'[p][i] = queue[p][j]
                                         /\ j = IF p = Home(w) THEN i + 1 ELSE i
  BY <1>0, Popped DEF Picked
<1>2. ASSUME NEW p \in Devices PROVE AheadInQueue(t, c, p)'
  <2> SUFFICES ASSUME NEW i \in 1..Len(queue'[p]), queue'[p][i] = t
               PROVE  /\ ticket[Synch[<<c, p>>]] # "done"
                      /\ \A v \in Workers : worker'[v].task # Synch[<<c, p>>]
                      /\ \A k \in 1..Len(queue'[p]) : queue'[p][k] = Synch[<<c, p>>] => i < k
    BY <1>0 DEF AheadInQueue, Picked
  <2>1. PICK j \in 1..Len(queue[p]) : queue[p][j] = t /\ j = IF p = Home(w) THEN i + 1 ELSE i
    BY <1>1
  <2>2. /\ ticket[Synch[<<c, p>>]] # "done"
        /\ \A v \in Workers : worker[v].task # Synch[<<c, p>>]
        /\ \A k \in 1..Len(queue[p]) : queue[p][k] = Synch[<<c, p>>] => j < k
    BY <1>0, <2>1 DEF AheadInQueue
  <2>3. worker'[w].task # Synch[<<c, p>>]
    <3> SUFFICES ASSUME queue[Home(w)][1] = Synch[<<c, p>>] PROVE FALSE
      BY <1>1
    <3>1. Home(w) = p
      BY <1>0, <1>1 DEF SynchAtHome
    <3>2. j < 1
      BY <1>1, <2>2, <3>1
    <3> QED BY <3>2
  <2>4. ASSUME NEW k \in 1..Len(queue'[p]), queue'[p][k] = Synch[<<c, p>>] PROVE i < k
    <3>1. PICK l \in 1..Len(queue[p]) : queue[p][l] = Synch[<<c, p>>] /\ l = IF p = Home(w) THEN k + 1 ELSE k
      BY <1>1, <2>4
    <3>2. j < l
      BY <2>2, <3>1
    <3> QED BY <2>1, <3>1, <3>2
  <2> QED BY <2>2, <2>3, <2>4 DEF Picked
<1>3. ASSUME NEW v \in Workers PROVE AheadInHand(t, c, v)'
  <2>1. CASE v = w
    <3>1. queue[Home(w)][1] = t => ticket[Synch[<<c, Home(w)>>]] # "done"
      BY <1>0, <1>1 DEF AheadInQueue
    <3> QED BY <1>1, <2>1, <3>1 DEF AheadInHand, Picked
  <2>2. CASE v # w
    BY <1>0, <2>2 DEF AheadInHand, Picked
  <2> QED BY <2>1, <2>2
<1>4. ticket'[t] \in {"open", "done"} /\ \A q \in Devices : t # Synch[<<c, q>>]
  BY AheadParts DEF Picked
<1>5. Ahead(t, c)' <=> /\ ticket'[t] \in {"open", "done"}
                       /\ \A q \in Devices : t # Synch[<<c, q>>]
                       /\ \A p \in Devices : AheadInQueue(t, c, p)'
                       /\ \A v \in Workers : AheadInHand(t, c, v)'
  BY DEF Ahead, AheadInQueue, AheadInHand
<1> QED BY <1>2, <1>3, <1>4, <1>5

(* A thread marks a ticket: if it is the flush's, then no task before it   *)
(* is left, with the one thread of this device.                            *)
LEMMA AheadMarked ==
  ASSUME IInv, SynchAtHome, NEW w \in Workers, Marked(w), NEW c \in Flushers, NEW t \in Tasks, Ahead(t, c)
  PROVE  Ahead(t, c)'
<1>0. /\ \A p \in Devices : Synch[<<c, p>>] \in Tasks
      /\ \A p \in Devices : AheadInQueue(t, c, p)
      /\ \A v \in Workers : AheadInHand(t, c, v)
      /\ ticket[t] \in {"open", "done"} /\ \A q \in Devices : t # Synch[<<c, q>>]
      /\ DOMAIN ticket = Tasks /\ t # NoTask /\ \A v \in Workers : Home(v) \in Devices
  BY SynchApart, AheadParts, HomeType, TasksAssumption DEF IInv, TypeOK
<1>1. PICK u \in Tasks : /\ u = worker[w].task /\ ticket' = [ticket EXCEPT ![u] = "done"]
                         /\ UNCHANGED queue /\ worker'[w].task = NoTask
                         /\ \A v \in Workers : v # w => worker'[v].task = worker[v].task
  BY DEF Marked
<1>2. ticket'[u] = "done" /\ \A s \in Tasks : s # u => ticket'[s] = ticket[s]
  BY <1>0, <1>1
<1>3. ASSUME NEW p \in Devices PROVE AheadInQueue(t, c, p)'
  <2> SUFFICES ASSUME NEW i \in 1..Len(queue[p]), queue[p][i] = t
               PROVE  /\ ticket'[Synch[<<c, p>>]] # "done"
                      /\ \A v \in Workers : worker'[v].task # Synch[<<c, p>>]
                      /\ \A j \in 1..Len(queue[p]) : queue[p][j] = Synch[<<c, p>>] => i < j
    BY <1>1 DEF AheadInQueue
  <2>1. /\ ticket[Synch[<<c, p>>]] # "done"
        /\ \A v \in Workers : worker[v].task # Synch[<<c, p>>]
        /\ \A j \in 1..Len(queue[p]) : queue[p][j] = Synch[<<c, p>>] => i < j
    BY <1>0 DEF AheadInQueue
  <2> QED BY <1>0, <1>1, <1>2, <2>1, TasksAssumption
<1>4. ASSUME NEW v \in Workers, worker'[v].task = t PROVE ticket'[Synch[<<c, Home(v)>>]] # "done"
  <2>1. v # w /\ worker[v].task = t /\ ticket[Synch[<<c, Home(v)>>]] # "done"
    BY <1>0, <1>1, <1>4 DEF AheadInHand
  <2>2. u # Synch[<<c, Home(v)>>]
    <3> SUFFICES ASSUME u = Synch[<<c, Home(v)>>] PROVE FALSE
      OBVIOUS
    <3>1. Home(w) = Home(v)
      BY <1>0, <1>1 DEF SynchAtHome
    <3>2. worker[v].at \notin {"absent", "gone"} /\ worker[w].at \notin {"absent", "gone"}
      BY <1>0, <2>1 DEF IInv, TaskInOnePlace, Busied, Marked
    <3>3. v = w
      BY <3>1, <3>2 DEF IInv, ThreadsInPlace
    <3> QED BY <2>1, <3>3
  <2> QED BY <1>0, <1>2, <2>1, <2>2
<1>5. ticket'[t] \in {"open", "done"}
  BY <1>0, <1>2
<1>6. Ahead(t, c)' <=> /\ ticket'[t] \in {"open", "done"}
                       /\ \A q \in Devices : t # Synch[<<c, q>>]
                       /\ \A p \in Devices : AheadInQueue(t, c, p)'
                       /\ \A v \in Workers : worker'[v].task = t => ticket'[Synch[<<c, Home(v)>>]] # "done"
  BY DEF Ahead, AheadInQueue
<1> QED BY <1>0, <1>3, <1>4, <1>5, <1>6

(* A client enqueues a task: behind all others, and it is none of those    *)
(* that were enqueued before the flush.                                    *)
LEMMA AheadPut ==
  ASSUME IInv, NEW d \in Clients, NEW u \in Tasks, NEW r \in 1..numGpus, PutBy(d, u, r),
         NEW c \in Flushers, NEW t \in Tasks, Ahead(t, c)
  PROVE  Ahead(t, c)'
<1>0. /\ TypeOK /\ r \in Devices /\ \A p \in Devices : Synch[<<c, p>>] \in Tasks
      /\ \A p \in Devices : AheadInQueue(t, c, p)
      /\ \A v \in Workers : AheadInHand(t, c, v)
      /\ ticket[t] \in {"open", "done"} /\ \A q \in Devices : t # Synch[<<c, q>>]
      /\ DOMAIN ticket = Tasks /\ \A v \in Workers : Home(v) \in Devices
  BY SynchApart, AheadParts, HomeType, DevicesInUse DEF IInv, TypeOK
<1>1. /\ t # u /\ ticket'[u] = "open" /\ \A s \in Tasks : s # u => ticket'[s] = ticket[s]
      /\ \A v \in Workers : worker'[v].task = worker[v].task
      /\ queue' = [queue EXCEPT ![r] = Append(@, u)]
  BY <1>0 DEF PutBy
<1>2. \A p \in Devices : /\ Len(queue[p]) \in Nat
                         /\ \A i \in 1..Len(queue'[p]) :
                                \/ i \in 1..Len(queue[p]) /\ queue'[p][i] = queue[p][i]
                                \/ i = Len(queue[p]) + 1 /\ queue'[p][i] = u
  <2>1. \A p \in Devices : Len(queue[p]) \in Nat
    BY <1>0, LenProperties DEF TypeOK
  <2> QED BY <1>0, <1>1, <2>1, Pushed
<1>3. ASSUME NEW p \in Devices PROVE AheadInQueue(t, c, p)'
  <2> SUFFICES ASSUME NEW i \in 1..Len(queue'[p]), queue'[p][i] = t
               PROVE  /\ ticket'[Synch[<<c, p>>]] # "done"
                      /\ \A v \in Workers : worker'[v].task # Synch[<<c, p>>]
                      /\ \A j \in 1..Len(queue'[p]) : queue'[p][j] = Synch[<<c, p>>] => i < j
    BY DEF AheadInQueue
  <2>1. i \in 1..Len(queue[p]) /\ queue[p][i] = t
    BY <1>1, <1>2
  <2>2. /\ ticket[Synch[<<c, p>>]] # "done"
        /\ \A v \in Workers : worker[v].task # Synch[<<c, p>>]
        /\ \A j \in 1..Len(queue[p]) : queue[p][j] = Synch[<<c, p>>] => i < j
    BY <1>0, <2>1 DEF AheadInQueue
  <2>3. \A j \in 1..Len(queue'[p]) : queue'[p][j] = Synch[<<c, p>>] => i < j
    BY <1>2, <2>1, <2>2
  <2> QED BY <1>0, <1>1, <2>2, <2>3
<1>4. ASSUME NEW v \in Workers, worker'[v].task = t PROVE ticket'[Synch[<<c, Home(v)>>]] # "done"
  <2>1. ticket[Synch[<<c, Home(v)>>]] # "done" /\ Synch[<<c, Home(v)>>] \in Tasks
    BY <1>0, <1>1, <1>4 DEF AheadInHand
  <2> QED BY <1>1, <2>1
<1>5. ticket'[t] \in {"open", "done"}
  BY <1>0, <1>1
<1>6. Ahead(t, c)' <=> /\ ticket'[t] \in {"open", "done"}
                       /\ \A q \in Devices : t # Synch[<<c, q>>]
                       /\ \A p \in Devices : AheadInQueue(t, c, p)'
                       /\ \A v \in Workers : worker'[v].task = t => ticket'[Synch[<<c, Home(v)>>]] # "done"
  BY DEF Ahead, AheadInQueue
<1> QED BY <1>0, <1>3, <1>4, <1>5, <1>6

LEMMA AheadKept ==
  ASSUME Kept, NEW c \in Flushers, NEW t \in Tasks, Ahead(t, c)
  PROVE  Ahead(t, c)'
<1>1. \A p \in Devices : Synch[<<c, p>>] \in Tasks
  BY SynchApart
<1>2. \A v \in Workers : Home(v) \in Devices
  BY HomeType
<1>3. \A s \in Tasks : ticket'[s] = "done" => ticket[s] = "done"
  BY DEF Kept
<1>4. \A v \in Workers : \A s \in Tasks : worker'[v].task = s => worker[v].task = s
  BY TasksAssumption DEF Kept
<1>5. ticket'[t] \in {"open", "done"} /\ UNCHANGED queue
  BY DEF Ahead, Kept
<1> QED BY <1>1, <1>2, <1>3, <1>4, <1>5 DEF Ahead

LEMMA AheadNext ==
  ASSUME IInv, SynchAtHome, [Next]_vars, NEW c \in Flushers, NEW t \in Tasks, Ahead(t, c)
  PROVE  Ahead(t, c)'
  BY StepKinds, AheadPicked, AheadMarked, AheadPut, AheadKept

-----------------------------------------------------------------------------
(* A flush from its call to its return. *)

LEMMA ClientDue ==
  ASSUME TypeOK, CallsInOrder, NEW c \in Clients, ClientStep(c) \/ ClientCall(c)
  PROVE  \/ Flush(c)
         \/ UNCHANGED due /\ (client'[c].call = "flush" => client[c].call = "flush")
<1>0. /\ client \in [Clients -> ClientStates]
      /\ Free.call = "none" /\ [Free EXCEPT !.at = "stop", !.call = "destroy"].call = "destroy"
      /\ [Free EXCEPT !.at = "ask", !.call = "restart"].call = "restart"
      /\ \A t : [Free EXCEPT !.at = "ask", !.task = t, !.call = "operate"].call = "operate"
  BY DEF TypeOK, ClientStates, Holding, Free
<1>1. CASE Answered(c)
  <2>1. client[c].call \in {"operate", "flush", "restart"}
    BY <1>1 DEF Answered, CallsInOrder, InOrder
  <2>2. \/ client'[c] \in {Free, client[c]}
        \/ \E p : client'[c] = [client[c] EXCEPT !.at = p]
    BY <1>0, <1>1, <2>1 DEF Answered
  <2>3. client'[c].call = "flush" => client[c].call = "flush"
    BY <1>0, <2>2 DEF ClientStates
  <2> QED BY <1>1, <2>3 DEF Answered
<1>2. CASE FlushDevice(c) \/ Await(c) \/ Stop(c) \/ Wait(c) \/ \E d \in 0..NumGpus : PutOperation(c, d)
  BY <1>0, <1>2 DEF FlushDevice, Await, Stop, Wait, PutOperation, ClientStates
<1>3. CASE Awaited(c)
  <2>1. client' = [client EXCEPT ![c].at = "ask"] \/ client' = [client EXCEPT ![c] = Free]
    BY <1>3 DEF Awaited
  <2> QED BY <1>0, <1>3, <2>1 DEF ClientStates, Awaited
<1>4. CASE Join(c)
  <2>1. client[c].call \in {"restart", "destroy"}
    BY <1>4 DEF Join, CallsInOrder, InOrder
  <2>2. \/ client'[c] = Free
        \/ \E p : client'[c] = [client[c] EXCEPT !.at = p]
        \/ \E p, n : client'[c] = [client[c] EXCEPT !.at = p, !.i = n]
    BY <1>0, <1>4, <2>1 DEF Join
  <2>3. client'[c].call = "flush" => client[c].call = "flush"
    BY <1>0, <2>2 DEF ClientStates
  <2> QED BY <1>4, <2>3 DEF Join
<1>5. CASE Restart(c) \/ Destroy(c) \/ \E t \in Operations : Operate(c, t)
  <2>1. /\ UNCHANGED due
        /\ \/ client' = [client EXCEPT ![c] = [Free EXCEPT !.at = "stop", !.call = "destroy"]]
           \/ client' = [client EXCEPT ![c] = [Free EXCEPT !.at = "ask", !.call = "restart"]]
           \/ \E t : client' = [client EXCEPT ![c] = [Free EXCEPT !.at = "ask", !.task = t, !.call = "operate"]]
    BY <1>5 DEF Restart, Destroy, Operate
  <2>2. client'[c].call # "flush"
    BY <1>0, <2>1
  <2> QED BY <2>1, <2>2
<1>6. CASE AskOn(c) \/ \E t \in Operations, d \in 0..NumGpus : Enqueue(c, t, d)
  BY <1>6 DEF AskOn, Enqueue, calls
<1> QED BY <1>1, <1>2, <1>3, <1>4, <1>5, <1>6 DEF ClientStep, ClientCall

LEMMA DueFrame ==
  ASSUME IInv, [Next]_vars, NEW c \in Clients
  PROVE  \/ Flush(c)
         \/ due'[c] = due[c] /\ (client'[c].call = "flush" => client[c].call = "flush")
<1>0. TypeOK /\ CallsInOrder
  BY DEF IInv
<1>1. ASSUME NEW w \in Workers, WorkerStep(w) \/ SpuriousWakeup(w) PROVE UNCHANGED <<client, due>>
  BY <1>0, <1>1, WorkerEffect DEF calls
<1>2. ASSUME NEW d \in Clients, d # c, ClientStep(d) \/ ClientCall(d)
      PROVE  client'[c] = client[c] /\ due'[c] = due[c]
  <2>1. client'[c] = client[c]
    BY <1>0, <1>2, ClientFrame
  <2>2. due'[c] = due[c]
    BY <1>0, <1>2, ClientDue DEF Flush, TypeOK
  <2> QED BY <2>1, <2>2
<1>3. CASE ClientStep(c) \/ ClientCall(c)
  BY <1>0, <1>3, ClientDue
<1>4. CASE Closed \/ UNCHANGED vars
  BY <1>4 DEF Closed, vars, calls
<1> QED BY <1>1, <1>2, <1>3, <1>4 DEF Next

LEMMA DueFirstNext == IInv /\ SynchAtHome /\ DueFirst /\ [Next]_vars => DueFirst'
<1> SUFFICES ASSUME IInv, SynchAtHome, DueFirst, [Next]_vars, NEW c \in Flushers,
                    client'[c].call = "flush", NEW t \in due'[c]
             PROVE  Ahead(t, c)'
  BY DEF DueFirst
<1>0. c \in Clients /\ due \in [Clients -> SUBSET Tasks]
  BY ClientsAssumption DEF IInv, TypeOK
<1>1. CASE Flush(c)
  <2>1. /\ t \in Tasks /\ ticket[t] = "open" /\ UNCHANGED <<ticket, queue, worker>>
        /\ \A q \in Devices : ticket[Synch[<<c, q>>]] = "none"
    BY <1>0, <1>1 DEF Flush, work
  <2>2. \A p, q \in Devices : \A i \in 1..Len(queue[p]) : queue[p][i] # Synch[<<c, q>>]
    BY <2>1 DEF IInv, TaskInOnePlace
  <2>3. \A w \in Workers : \A q \in Devices : worker[w].task # Synch[<<c, q>>]
    BY <2>1, SynchApart, TasksAssumption DEF IInv, TaskInOnePlace
  <2> QED BY <2>1, <2>2, <2>3, HomeType DEF Ahead
<1>2. CASE due'[c] = due[c] /\ client[c].call = "flush"
  BY <1>0, <1>2, AheadNext DEF DueFirst
<1> QED BY <1>0, <1>1, <1>2, DueFrame

LEMMA OutstandingFrame ==
  ASSUME TypeOK, NEW c \in Clients, ClientStep(c) \/ ClientCall(c), NEW d \in Clients, d # c
  PROVE  outstanding'[d] = outstanding[d]
<1>0. outstanding \in [Clients -> Seq(Tasks)]
  BY DEF TypeOK
<1>1. CASE Await(c)
  BY <1>0, <1>1 DEF Await
<1>2. CASE Puts(c)
  <2>1. \E x : outstanding' = [outstanding EXCEPT ![c] = x]
    BY <1>2 DEF Puts, FlushDevice, PutOperation, Enqueue, Put
  <2> QED BY <1>0, <2>1
<1>3. CASE \/ AskOn(c) \/ Answered(c) \/ Awaited(c) \/ Wait(c) \/ Stop(c) \/ Join(c)
           \/ Flush(c) \/ Restart(c) \/ Destroy(c) \/ \E t \in Operations : Operate(c, t)
  BY <1>3 DEF AskOn, Answered, Awaited, Wait, Stop, Join, Flush, Restart, Destroy, Operate, calls
<1> QED BY <1>1, <1>2, <1>3 DEF Puts, ClientStep, ClientCall

LEMMA AwaitingKept ==
  ASSUME IInv, [Next]_vars, NEW c \in Flushers, Awaiting(c),
         client'[c] = client[c], outstanding'[c] = outstanding[c], numGpus' = numGpus
  PROVE  Awaiting(c)'
<1>1. \A q \in 1..numGpus : ticket[Synch[<<c, q>>]] = "done" => ticket'[Synch[<<c, q>>]] = "done"
  BY DevicesInUse, SynchApart, DoneStays
<1>2. Pending(c)' = Pending(c)
  BY DEF Pending
<1> QED BY <1>1, <1>2 DEF Awaiting

LEMMA Shifted ==
  ASSUME NEW n \in Nat, NEW i \in Nat, NEW q \in 1..i, q # i, i - 1 <= n
  PROVE  /\ q \in 1..(i - 1) /\ n - (i - 1) + q \in 1..n
         /\ (n + 1) - i + q = n - (i - 1) + q
  OBVIOUS

(* The client's own steps: it enqueues, and then waits for the last one.   *)
LEMMA AwaitingStep ==
  ASSUME IInv, AwaitsSynch, NEW c \in Clients, ClientStep(c) \/ ClientCall(c), [Next]_vars,
         client'[c].call = "flush"
  PROVE  c \in Flushers /\ Awaiting(c)'
<1>0. /\ TypeOK /\ CallsInOrder /\ client \in [Clients -> ClientStates] /\ c \in Clients
      /\ outstanding \in [Clients -> Seq(Tasks)] /\ outstanding[c] \in Seq(Tasks)
      /\ Len(outstanding[c]) \in Nat /\ numGpus \in Nat \ {0} /\ client[c].i \in Nat
  <2>1. TypeOK /\ CallsInOrder /\ client \in [Clients -> ClientStates] /\ outstanding \in [Clients -> Seq(Tasks)]
    BY DEF IInv, TypeOK, ClientStates, Holding
  <2>2. numGpus \in Nat \ {0}
    BY <2>1, NumGpusAssumption DEF TypeOK, Devices
  <2> QED BY <2>1, <2>2, LenProperties DEF ClientStates
<1>1. CASE Flush(c)
  <2>1. /\ c \in Flushers /\ UNCHANGED <<outstanding, numGpus>>
        /\ client' = [client EXCEPT ![c] = [Free EXCEPT !.at = "put", !.call = "flush"]]
    BY <1>1 DEF Flush, pool
  <2>2. client'[c].at = "put" /\ client'[c].i = 1
    BY <1>0, <2>1 DEF Free
  <2>3. Pending(c)' = 0
    BY <2>2 DEF Pending
  <2> QED BY <1>0, <2>1, <2>2, <2>3 DEF Awaiting
<1>2. CASE ~Flush(c)
  <2>1. client[c].call = "flush"
    BY <1>0, <1>2, ClientDue
  <2>2. /\ c \in Flushers /\ Awaiting(c)
        /\ client[c].at \in {"put", "await", "ask"} /\ client[c] # Free
    BY <2>1 DEF AwaitsSynch, Awaiting, Free
  <2>3. CASE FlushDevice(c)
    <3>1. PICK i \in 1..numGpus : i = client[c].i
      BY <2>3 DEF FlushDevice, IInv, Reserved, InReserve
    <3>2. /\ client[c].at = "put" /\ UNCHANGED numGpus
          /\ outstanding' = [outstanding EXCEPT ![c] = Append(@, Synch[<<c, i>>])]
          /\ client'[c] = IF i = numGpus THEN [client[c] EXCEPT !.at = "await"]
                          ELSE [client[c] EXCEPT !.i = i + 1]
      BY <1>0, <2>3, <3>1 DEF FlushDevice, Put, pool
    <3>3. \/ client'[c].at = "put" /\ client'[c].i = i + 1
          \/ client'[c].at = "await" /\ client'[c].i = i /\ i = numGpus
      BY <1>0, <3>1, <3>2 DEF ClientStates
    <3>4. Pending(c) = i - 1 /\ Pending(c)' = i
      BY <3>1, <3>2, <3>3 DEF Pending
    <3>5. /\ Len(outstanding'[c]) = Len(outstanding[c]) + 1
          /\ outstanding'[c][Len(outstanding[c]) + 1] = Synch[<<c, i>>]
          /\ \A j \in 1..Len(outstanding[c]) : outstanding'[c][j] = outstanding[c][j]
      <4>1. outstanding'[c] = Append(outstanding[c], Synch[<<c, i>>]) /\ Synch[<<c, i>>] \in Tasks
        BY <1>0, <2>2, <3>2, DevicesInUse, SynchApart
      <4> QED BY <1>0, <4>1, AppendProperties
    <3>6. /\ i - 1 \in 0..Len(outstanding[c])
          /\ \A q \in 1..(i - 1) : outstanding[c][Len(outstanding[c]) - (i - 1) + q] = Synch[<<c, q>>]
      BY <2>2, <3>4 DEF Awaiting
    <3>7. ASSUME NEW q \in 1..i
          PROVE  outstanding'[c][Len(outstanding'[c]) - i + q] = Synch[<<c, q>>]
      <4>1. CASE q = i
        BY <1>0, <3>1, <3>5, <4>1
      <4>2. CASE q # i
        <5>1. PICK j : j = Len(outstanding[c]) - (i - 1) + q
          OBVIOUS
        <5>2. /\ q \in 1..(i - 1) /\ j \in 1..Len(outstanding[c])
              /\ Len(outstanding'[c]) - i + q = j
          <6>1. i \in Nat /\ i - 1 <= Len(outstanding[c])
            BY <1>0, <3>1, <3>6
          <6>2. q # i /\ i \in Nat /\ Len(outstanding[c]) \in Nat
            BY <1>0, <4>2, <6>1
          <6>3. /\ q \in 1..(i - 1) /\ Len(outstanding[c]) - (i - 1) + q \in 1..Len(outstanding[c])
                /\ (Len(outstanding[c]) + 1) - i + q = Len(outstanding[c]) - (i - 1) + q
            BY <6>1, <6>2, Shifted
          <6> QED BY <3>5, <5>1, <6>3
        <5> QED BY <3>5, <3>6, <5>1, <5>2
      <4> QED BY <4>1, <4>2
    <3>8. i \in 0..Len(outstanding'[c]) /\ i <= numGpus'
      BY <1>0, <3>1, <3>2, <3>5, <3>6
    <3>9. /\ client'[c].at \in {"put", "await", "ask"}
          /\ client'[c].at # "put" => i = numGpus /\ numGpus' = numGpus
      BY <3>2, <3>3
    <3>10. \A q \in 1..numGpus : ~(q > numGpus)
      BY <1>0
    <3> QED BY <2>2, <3>4, <3>7, <3>8, <3>9, <3>10 DEF Awaiting
  <2>4. CASE Await(c)
    <3>1. PICK i \in Nat \ {0} : i = client[c].i
      BY <1>0, <2>4 DEF Await
    <3>2. /\ client[c].at = "await" /\ ticket[outstanding[c][Len(outstanding[c])]] = "done"
          /\ outstanding'[c] = Front(outstanding[c]) /\ UNCHANGED <<numGpus, ticket>>
          /\ client'[c] = [client[c] EXCEPT !.i = i - 1]
      BY <1>0, <2>4, <3>1 DEF Await, pool
    <3>3. client'[c].at = "await" /\ client'[c].i = i - 1
      BY <1>0, <3>2 DEF ClientStates
    <3>4. Pending(c) = i /\ Pending(c)' = i - 1
      BY <3>1, <3>2, <3>3 DEF Pending
    <3>5. /\ i \in 0..Len(outstanding[c]) /\ i <= numGpus
          /\ \A q \in 1..i : outstanding[c][Len(outstanding[c]) - i + q] = Synch[<<c, q>>]
          /\ \A q \in 1..numGpus : q > i => ticket[Synch[<<c, q>>]] = "done"
      BY <2>2, <3>2, <3>4 DEF Awaiting
    <3>6. /\ Len(outstanding'[c]) = Len(outstanding[c]) - 1
          /\ \A j \in 1..Len(outstanding[c]) - 1 : outstanding'[c][j] = outstanding[c][j]
      <4>1. outstanding[c] # <<>>
        BY <1>0, <3>1, <3>5, EmptySeq
      <4> QED BY <1>0, <3>2, <4>1, FrontFacts
    <3>7. ASSUME NEW q \in 1..(i - 1)
          PROVE  outstanding'[c][Len(outstanding'[c]) - (i - 1) + q] = Synch[<<c, q>>]
      <4>1. PICK j : j = Len(outstanding[c]) - i + q
        OBVIOUS
      <4>2. /\ q \in 1..i /\ j \in 1..Len(outstanding[c]) - 1
            /\ Len(outstanding'[c]) - (i - 1) + q = j
        BY <1>0, <3>1, <3>5, <3>6, <4>1
      <4> QED BY <3>5, <3>6, <4>1, <4>2
    <3>8. ticket[Synch[<<c, i>>]] = "done"
      <4>1. i \in 1..i /\ Len(outstanding[c]) - i + i = Len(outstanding[c])
        BY <1>0, <3>1
      <4> QED BY <3>2, <3>5, <4>1
    <3>9. \A q \in 1..numGpus : q > i - 1 => ticket[Synch[<<c, q>>]] = "done"
      BY <3>1, <3>5, <3>8
    <3>10. i - 1 \in 0..Len(outstanding'[c]) /\ i - 1 <= numGpus
      BY <1>0, <3>1, <3>5, <3>6
    <3> QED BY <2>2, <3>2, <3>3, <3>4, <3>7, <3>9, <3>10 DEF Awaiting
  <2>5. CASE Awaited(c)
    <3>1. /\ client[c].at = "await" /\ client[c].i = 0 /\ UNCHANGED <<numGpus, ticket, outstanding>>
          /\ client' = [client EXCEPT ![c].at = "ask"]
      BY <2>1, <2>5 DEF Awaited, pool
    <3>2. client'[c].at = "ask" /\ Pending(c) = 0
      BY <1>0, <3>1 DEF ClientStates, Pending
    <3>3. Pending(c)' = 0
      BY <3>2 DEF Pending
    <3>4. \A q \in 1..numGpus : q > 0 => ticket[Synch[<<c, q>>]] = "done"
      BY <2>2, <3>1, <3>2 DEF Awaiting
    <3> QED BY <1>0, <2>2, <3>1, <3>2, <3>3, <3>4 DEF Awaiting
  <2>6. CASE AskOn(c) \/ Answered(c)
    <3>1. UNCHANGED <<numGpus, outstanding>> /\ client'[c] = client[c]
      <4>1. CASE AskOn(c)
        BY <4>1 DEF AskOn, pool, calls
      <4>2. CASE Answered(c)
        <5>1. client'[c] \in {client[c], Free} /\ UNCHANGED <<numGpus, outstanding>>
          BY <1>0, <2>1, <4>2 DEF Answered, pool
        <5>2. Free.call # "flush"
          BY DEF Free
        <5> QED BY <5>1, <5>2
      <4> QED BY <2>6, <4>1, <4>2
    <3> QED BY <2>2, <3>1, AwaitingKept
  <2>7. CASE Stop(c) \/ Join(c)
    BY <2>2, <2>7 DEF Stop, Join
  <2>8. CASE \E d \in 0..NumGpus : PutOperation(c, d)
    BY <2>1, <2>8 DEF PutOperation
  <2>9. CASE ClientCall(c)
    BY <1>2, <2>2, <2>9 DEF ClientCall, MayCall, Wait, Restart, Destroy, Operate, Enqueue
  <2> QED BY <2>3, <2>4, <2>5, <2>6, <2>7, <2>8, <2>9 DEF ClientStep
<1> QED BY <1>1, <1>2

(* The number of devices in use changes for a client on its own only. *)
LEMMA NumGpusFrame ==
  ASSUME IInv, [Next]_vars
  PROVE  UNCHANGED <<numGpus, threads>> \/ \E c \in Clients : Renews(c)
<1>1. ASSUME NEW w \in Workers, WorkerStep(w) \/ SpuriousWakeup(w) PROVE UNCHANGED <<numGpus, threads>>
  BY <1>1, WorkerEffect DEF IInv, pool
<1>2. ASSUME NEW c \in Clients, ClientStep(c) \/ ClientCall(c), ~Renews(c)
      PROVE  UNCHANGED <<numGpus, threads>>
  BY <1>2, ClientEffect DEF IInv
<1>3. CASE Closed \/ UNCHANGED vars
  BY <1>3 DEF Closed, vars, pool
<1> QED BY <1>1, <1>2, <1>3 DEF Next

LEMMA AwaitsSynchNext == IInv /\ AwaitsSynch /\ [Next]_vars => AwaitsSynch'
<1> SUFFICES ASSUME IInv, AwaitsSynch, [Next]_vars, NEW c \in Clients, client'[c].call = "flush"
             PROVE  c \in Flushers /\ Awaiting(c)'
  BY DEF AwaitsSynch
<1>0. TypeOK /\ CallsInOrder
  BY DEF IInv
<1>1. CASE ClientStep(c) \/ ClientCall(c)
  BY <1>1, AwaitingStep
<1>2. ASSUME client'[c] = client[c], outstanding'[c] = outstanding[c] PROVE c \in Flushers /\ Awaiting(c)'
  <2>1. c \in Flushers /\ Awaiting(c)
    BY <1>2 DEF AwaitsSynch
  <2>2. ~\E d \in Clients : Renews(d)
    <3> SUFFICES ASSUME NEW d \in Clients, Renews(d) PROVE FALSE
      OBVIOUS
    <3>1. users = {d} /\ client[d].call = "restart"
      BY <1>0, RenewsEffect DEF IInv, Renews
    <3>2. client[c].call # "flush"
      BY <3>1 DEF IInv, CallsInOrder, Free
    <3> QED BY <1>2, <3>2
  <2> QED BY <1>2, <2>1, <2>2, NumGpusFrame, AwaitingKept
<1>3. ASSUME NEW w \in Workers, WorkerStep(w) \/ SpuriousWakeup(w) PROVE c \in Flushers /\ Awaiting(c)'
  BY <1>0, <1>2, <1>3, WorkerEffect DEF calls
<1>4. ASSUME NEW d \in Clients, d # c, ClientStep(d) \/ ClientCall(d) PROVE c \in Flushers /\ Awaiting(c)'
  BY <1>0, <1>2, <1>4, ClientFrame, OutstandingFrame
<1>5. CASE Closed \/ UNCHANGED vars
  BY <1>2, <1>5 DEF Closed, vars, calls
<1> QED BY <1>1, <1>3, <1>4, <1>5 DEF Next

-----------------------------------------------------------------------------
(* Queues without a thread stay empty, and those of a pool that is being   *)
(* restarted are.                                                          *)

LEMMA EmptyStays ==
  ASSUME NEW q \in Devices, queue[q] = <<>>, (\E w \in Workers : Picked(w) \/ Marked(w)) \/ Kept
  PROVE  queue'[q] = <<>>
<1>1. ASSUME NEW w \in Workers, Picked(w) PROVE queue'[q] = queue[q]
  BY <1>1 DEF Picked
<1>2. ASSUME NEW w \in Workers, Marked(w) PROVE queue'[q] = queue[q]
  BY <1>2 DEF Marked
<1> QED BY <1>1, <1>2 DEF Kept

LEMMA LenThreads == IInv => numGpus \in Nat \ {0} /\ Len(threads) = numGpus
<1> SUFFICES ASSUME IInv PROVE numGpus \in Nat \ {0} /\ Len(threads) = numGpus
  OBVIOUS
<1>1. numGpus \in Nat \ {0} /\ threads \in [1..numGpus -> Workers]
  BY NumGpusAssumption DEF IInv, TypeOK, Devices
<1> QED BY <1>1

(* Only a client that uses the pool, and is not restarting it, enqueues.   *)
LEMMA PutsAlone ==
  ASSUME IInv, NEW c \in Clients, client[c].call = "restart", NEW d \in Clients, Puts(d)
  PROVE  FALSE
<1>1. users = {c} /\ (d # c => client[d] = Free) /\ Free.at = "free" /\ Free.call = "none"
  BY DEF IInv, CallsInOrder, InOrder, Free
<1> QED BY <1>1 DEF Puts, FlushDevice, PutOperation, Enqueue, MayCall

LEMMA SpareNext == IInv /\ Spare /\ Emptied /\ [Next]_vars => Spare'
<1> SUFFICES ASSUME IInv, Spare, Emptied, [Next]_vars, NEW q \in Devices, q > numGpus'
             PROVE  queue'[q] = <<>>
  BY DEF Spare
<1>1. CASE \E c \in Clients : Renews(c)
  <2>1. PICK c \in Clients : Renews(c)
    BY <1>1
  <2>2. UNCHANGED queue /\ client[c].at = "join" /\ client[c].call = "restart"
    BY <2>1, RenewsEffect DEF IInv, Renews, Join
  <2>3. \A p \in 1..numGpus : queue[p] = <<>>
    BY <2>2 DEF Emptied
  <2>4. q \in 1..numGpus \/ q > numGpus
    BY LenThreads, NumGpusAssumption DEF Devices
  <2> QED BY <2>2, <2>3, <2>4 DEF Spare
<1>2. CASE UNCHANGED numGpus
  <2>1. queue[q] = <<>>
    BY <1>2 DEF Spare
  <2>2. ASSUME NEW c \in Clients, NEW t \in Tasks, NEW r \in 1..numGpus, PutBy(c, t, r)
        PROVE  queue'[q] = <<>>
    <3>1. r # q
      BY <1>2, LenThreads
    <3> QED BY <2>1, <2>2, <3>1 DEF PutBy, IInv, TypeOK
  <2> QED BY <2>1, <2>2, StepKinds, EmptyStays
<1> QED BY <1>1, <1>2, NumGpusFrame

(* The client's own steps: its walk of idle() has seen the queues empty.   *)
LEMMA EmptiedStep ==
  ASSUME IInv, Emptied, NEW c \in Clients, ClientStep(c) \/ ClientCall(c), client'[c].call = "restart",
         NEW q \in 1..numGpus', client'[c].at \in {"stop", "join"} \/ q < QueueAsked(c)'
  PROVE  queue'[q] = <<>>
<1>0. /\ TypeOK /\ CallsInOrder /\ client \in [Clients -> ClientStates]
      /\ ask \in [Clients \cup Workers -> Nat] /\ ask[c] \in Nat
      /\ numGpus \in Nat \ {0} /\ Len(threads) = numGpus
  BY LenThreads DEF IInv, TypeOK, ClientStates, Holding
<1>1. CASE Restart(c)
  <2>1. /\ client' = [client EXCEPT ![c] = [Free EXCEPT !.at = "ask", !.call = "restart"]]
        /\ ask' = [ask EXCEPT ![c] = 1] /\ UNCHANGED <<numGpus, threads>>
    BY <1>1 DEF Restart, pool
  <2>2. client'[c].at = "ask"
    BY <1>0, <2>1 DEF Free
  <2>3. ask'[c] = 1 /\ Len(threads') >= 1 /\ Len(threads') \in Nat /\ q \in Nat
    BY <1>0, <2>1
  <2>4. ~(q < ask'[c] - Len(threads')) /\ QueueAsked(c)' = ask'[c] - Len(threads')
    BY <2>3 DEF QueueAsked
  <2> QED BY <2>2, <2>4
<1>2. CASE AskOn(c)
  <2>1. /\ ask[c] # 0 /\ ~Busy(c) /\ ask' = [ask EXCEPT ![c] = ask[c] + 1]
        /\ UNCHANGED <<numGpus, threads, queue, client>>
    BY <1>2 DEF AskOn, pool, work, calls
  <2>2. QueueAsked(c)' = QueueAsked(c) + 1 /\ QueueAsked(c) \in Int
    BY <1>0, <2>1 DEF QueueAsked
  <2>3. CASE client[c].at \in {"stop", "join"} \/ q < QueueAsked(c)
    BY <2>1, <2>3 DEF Emptied
  <2>4. CASE q = QueueAsked(c)
    <3>1. ~(ask[c] <= Len(threads))
      BY <1>0, <2>1, <2>4 DEF QueueAsked
    <3> QED BY <2>1, <2>4, <3>1 DEF Busy
  <2> QED BY <1>0, <2>1, <2>2, <2>3, <2>4
<1>3. CASE Answered(c)
  <2>1. client[c].at = "ask" /\ client[c].call \in {"operate", "flush", "restart"} /\ UNCHANGED <<numGpus, queue>>
    BY <1>3 DEF Answered, CallsInOrder, InOrder, pool, work, IInv
  <2>2. client[c].call = "restart" /\ SaysYes(c)
    <3>1. Free.call = "none" /\ \A p : [client[c] EXCEPT !.at = p].call = client[c].call
      BY <1>0 DEF Free, ClientStates
    <3> QED BY <1>0, <1>3, <2>1, <3>1 DEF Answered
  <2>3. QueueAsked(c) = numGpus /\ ~Busy(c)
    BY <2>2 DEF SaysYes, LastAsked
  <2>4. ~(ask[c] <= Len(threads))
    BY <1>0, <2>3 DEF QueueAsked
  <2>5. CASE q = numGpus
    BY <2>1, <2>3, <2>4, <2>5 DEF Busy
  <2>6. CASE q # numGpus
    <3>1. q \in 1..numGpus /\ q < QueueAsked(c)
      BY <1>0, <2>1, <2>3, <2>6
    <3> QED BY <2>1, <2>2, <3>1 DEF Emptied
  <2> QED BY <2>5, <2>6
<1>4. CASE Stop(c) \/ Join(c)
  <2>1. client[c].at \in {"stop", "join"} /\ UNCHANGED queue
    BY <1>4 DEF Stop, Join
  <2>2. client[c].call = "restart" /\ UNCHANGED numGpus
    <3>1. CASE Stop(c)
      <4>1. client' = [client EXCEPT ![c].at = "join"] /\ UNCHANGED numGpus
        BY <3>1 DEF Stop
      <4> QED BY <1>0, <4>1 DEF ClientStates
    <3>2. CASE Join(c)
      <4>1. Free.call = "none"
        BY DEF Free
      <4>2. ~Renews(c)
        BY <1>0, <4>1, RenewsEffect DEF IInv
      <4>3. client[c].call \in {"restart", "destroy"}
        BY <2>1, <1>0 DEF CallsInOrder, InOrder
      <4>4. \/ \E p : client' = [client EXCEPT ![c] = [@ EXCEPT !.at = p]]
            \/ \E p, n : client' = [client EXCEPT ![c] = [@ EXCEPT !.at = p, !.i = n]]
        BY <3>2, <4>2, <4>3 DEF Join, Renews
      <4>5. client'[c].call = client[c].call
        BY <1>0, <4>4 DEF ClientStates
      <4> QED BY <3>2, <4>2, <4>5 DEF Join, Renews
    <3> QED BY <1>4, <3>1, <3>2
  <2> QED BY <2>1, <2>2 DEF Emptied
<1>5. CASE Await(c)
  <2>1. client' = [client EXCEPT ![c].i = client[c].i - 1] /\ UNCHANGED <<queue, ask, threads, numGpus>>
    BY <1>5 DEF Await, pool, work
  <2>2. client'[c].at = client[c].at /\ client'[c].call = client[c].call
    BY <1>0, <2>1 DEF ClientStates
  <2> QED BY <2>1, <2>2 DEF Emptied, QueueAsked
<1>6. Free.call = "none" /\ \A p : [client[c] EXCEPT !.at = p].call = client[c].call
  BY <1>0 DEF Free, ClientStates
<1>7. CASE FlushDevice(c) \/ \E d \in 0..NumGpus : PutOperation(c, d)
  BY <1>0, <1>7 DEF FlushDevice, PutOperation, ClientStates
<1>8. CASE Awaited(c)
  <2>1. \/ client[c].call = "flush" /\ client' = [client EXCEPT ![c].at = "ask"]
        \/ client' = [client EXCEPT ![c] = Free]
    BY <1>8 DEF Awaited
  <2> QED BY <1>0, <1>6, <2>1 DEF ClientStates
<1>9. CASE Wait(c) \/ Flush(c) \/ Destroy(c) \/ \E t \in Operations : \/ Operate(c, t)
                                                                      \/ \E d \in 0..NumGpus : Enqueue(c, t, d)
  <2>1. client[c] = Free
    BY <1>9 DEF Wait, Flush, Destroy, Operate, Enqueue, MayCall
  <2>2. CASE Wait(c)
    <3>1. \E p, n : client' = [client EXCEPT ![c].at = p, ![c].i = n]
      BY <2>2 DEF Wait
    <3> QED BY <1>0, <1>6, <2>1, <3>1 DEF ClientStates
  <2>3. CASE Flush(c) \/ Destroy(c) \/ \E t \in Operations : Operate(c, t)
    <3>1. \/ client' = [client EXCEPT ![c] = [Free EXCEPT !.at = "put", !.call = "flush"]]
          \/ client' = [client EXCEPT ![c] = [Free EXCEPT !.at = "stop", !.call = "destroy"]]
          \/ \E t : client' = [client EXCEPT ![c] = [Free EXCEPT !.at = "ask", !.task = t, !.call = "operate"]]
      BY <2>3 DEF Flush, Destroy, Operate
    <3> QED BY <1>0, <3>1 DEF Free
  <2>4. CASE \E t \in Operations, d \in 0..NumGpus : Enqueue(c, t, d)
    BY <1>6, <2>1, <2>4 DEF Enqueue
  <2> QED BY <1>9, <2>2, <2>3, <2>4
<1> QED BY <1>1, <1>2, <1>3, <1>4, <1>5, <1>7, <1>8, <1>9 DEF ClientStep, ClientCall

LEMMA EmptiedNext == IInv /\ Emptied /\ [Next]_vars => Emptied'
<1> SUFFICES ASSUME IInv, Emptied, [Next]_vars, NEW c \in Clients, client'[c].call = "restart",
                    NEW q \in 1..numGpus', client'[c].at \in {"stop", "join"} \/ q < QueueAsked(c)'
             PROVE  queue'[q] = <<>>
  BY DEF Emptied
<1>0. TypeOK /\ CallsInOrder /\ ask \in [Clients \cup Workers -> Nat] /\ c \notin Workers
  BY ClientsAssumption DEF IInv, TypeOK
<1>1. ASSUME client'[c] = client[c], ask'[c] = ask[c], UNCHANGED <<numGpus, threads>>,
             (\E w \in Workers : Picked(w) \/ Marked(w)) \/ Kept
      PROVE  queue'[q] = <<>>
  <2>1. q \in Devices /\ queue[q] = <<>>
    BY <1>1, DevicesInUse DEF Emptied, QueueAsked
  <2> QED BY <1>1, <2>1, EmptyStays
<1>2. ASSUME NEW w \in Workers, WorkerStep(w) \/ SpuriousWakeup(w) PROVE queue'[q] = <<>>
  <2>1. UNCHANGED <<client, numGpus, threads>>
    BY <1>0, <1>2, WorkerEffect DEF pool, calls
  <2>2. ask'[c] = ask[c]
    <3>1. UNCHANGED ask \/ \E x : ask' = [ask EXCEPT ![w] = x]
      BY <1>2 DEF WorkerStep, Look, LookAgain, Check, SpuriousWakeup, Run, Ask, AskOn, RunAnswered,
                  SetIdle, Mark
    <3> QED BY <1>0, <3>1
  <2> QED BY <1>1, <1>2, <2>1, <2>2, WorkerKinds
<1>3. ASSUME NEW d \in Clients, d # c, ClientStep(d) \/ ClientCall(d) PROVE queue'[q] = <<>>
  <2>1. client'[c] = client[c] /\ ask'[c] = ask[c]
    BY <1>0, <1>3, ClientFrame
  <2>2. ~Puts(d)
    BY <2>1, PutsAlone
  <2>3. ~Renews(d)
    <3>1. users = {c}
      BY <1>0, <2>1 DEF CallsInOrder, InOrder
    <3> QED BY <1>0, <1>3, <3>1, RenewsEffect DEF IInv
  <2> QED BY <1>0, <1>1, <1>3, <2>1, <2>2, <2>3, ClientKinds, ClientEffect
<1>4. CASE ClientStep(c) \/ ClientCall(c)
  BY <1>4, EmptiedStep
<1>5. CASE Closed \/ UNCHANGED vars
  BY <1>1, <1>5 DEF Closed, vars, pool, work, calls, Kept
<1> QED BY <1>2, <1>3, <1>4, <1>5 DEF Next

-----------------------------------------------------------------------------
(* When flush() comes back. *)

(* An open task that is due is in the queue of a device in use or with its *)
(* thread, and then flush()'s task of this device is not done.             *)
LEMMA DrainedAtAsk ==
  ASSUME IInv, NothingLost, DueFirst, AwaitsSynch, Spare, NEW c \in Clients,
         client[c].call = "flush", client[c].at = "ask", NEW t \in due[c] \ Faulty
  PROVE  t \in Tasks /\ ticket[t] = "done"
<1>1. /\ c \in Flushers /\ Pending(c) = 0 /\ numGpus \in Nat
      /\ \A q \in 1..numGpus : q > 0 => ticket[Synch[<<c, q>>]] = "done"
  BY LenThreads DEF AwaitsSynch, Awaiting, Pending
<1>2. t \in Tasks /\ Ahead(t, c) /\ t # NoTask
  BY <1>1, TasksAssumption DEF DueFirst, IInv, TypeOK
<1>3. ASSUME NEW q \in 1..numGpus PROVE ticket[Synch[<<c, q>>]] = "done"
  BY <1>1
<1>4. SUFFICES ASSUME ticket[t] = "open" PROVE FALSE
  BY <1>2 DEF Ahead
<1>5. ASSUME NEW p \in Devices, NEW i \in 1..Len(queue[p]), queue[p][i] = t PROVE FALSE
  <2>1. ticket[Synch[<<c, p>>]] # "done"
    BY <1>2, <1>5 DEF Ahead
  <2>2. p > numGpus
    BY <1>1, <1>3, <2>1 DEF Devices
  <2>3. queue[p] = <<>>
    BY <2>2 DEF Spare
  <2> QED BY <2>3, EmptySeq
<1>6. ASSUME NEW w \in Workers, worker[w].task = t PROVE FALSE
  <2>1. worker[w].at \notin {"absent", "gone"}
    BY <1>2, <1>6 DEF IInv, TaskInOnePlace, Busied
  <2>2. Home(w) \in 1..numGpus
    BY <2>1 DEF IInv, ThreadsInPlace
  <2> QED BY <1>2, <1>3, <1>6, <2>2 DEF Ahead
<1> QED BY <1>2, <1>4, <1>5, <1>6 DEF NothingLost, Queued

LEMMA FlushEnds ==
  ASSUME IInv, AwaitsSynch, [Next]_vars, NEW c \in Clients,
         client[c].call = "flush", client'[c].call # "flush"
  PROVE  client[c].at = "ask"
<1>0. /\ TypeOK /\ CallsInOrder /\ client \in [Clients -> ClientStates]
      /\ client[c].at \in {"put", "await", "ask"} /\ client[c] # Free
  BY DEF IInv, TypeOK, ClientStates, Holding, AwaitsSynch, Awaiting, Free
<1>1. ASSUME NEW w \in Workers, WorkerStep(w) \/ SpuriousWakeup(w) PROVE FALSE
  BY <1>0, <1>1, WorkerEffect DEF calls
<1>2. ASSUME NEW d \in Clients, d # c, ClientStep(d) \/ ClientCall(d) PROVE FALSE
  BY <1>0, <1>2, ClientFrame
<1>3. CASE ClientStep(c)
  <2>1. CASE AskOn(c)
    BY <2>1 DEF AskOn, calls
  <2>2. CASE Answered(c)
    BY <2>2 DEF Answered
  <2>3. CASE FlushDevice(c) \/ Await(c)
    BY <1>0, <2>3 DEF FlushDevice, Await, ClientStates
  <2>4. CASE Awaited(c)
    <3>1. client' = [client EXCEPT ![c].at = "ask"]
      BY <2>4 DEF Awaited
    <3> QED BY <1>0, <3>1 DEF ClientStates
  <2>5. CASE Stop(c) \/ Join(c)
    BY <1>0, <2>5 DEF Stop, Join
  <2>6. CASE \E d \in 0..NumGpus : PutOperation(c, d)
    BY <2>6 DEF PutOperation
  <2> QED BY <1>3, <2>1, <2>2, <2>3, <2>4, <2>5, <2>6 DEF ClientStep
<1>4. CASE ClientCall(c)
  BY <1>0, <1>4 DEF ClientCall, MayCall, Wait, Flush, Restart, Destroy, Operate, Enqueue
<1>5. CASE Closed \/ UNCHANGED vars
  BY <1>5 DEF Closed, vars, calls
<1> QED BY <1>1, <1>2, <1>3, <1>4, <1>5 DEF Next

LEMMA FlushDrainsNext ==
  IInv /\ NothingLost /\ DueFirst /\ AwaitsSynch /\ Spare /\ FlushDrains /\ [Next]_vars => FlushDrains'
<1> SUFFICES ASSUME IInv, NothingLost, DueFirst, AwaitsSynch, Spare, FlushDrains, [Next]_vars,
                    NEW c \in Clients, client'[c].call # "flush", NEW t \in due'[c] \ Faulty
             PROVE  ticket'[t] = "done"
  BY DEF FlushDrains
<1>1. ~Flush(c)
  <2> SUFFICES ASSUME Flush(c) PROVE FALSE
    OBVIOUS
  <2>1. client' = [client EXCEPT ![c] = [Free EXCEPT !.at = "put", !.call = "flush"]]
    BY DEF Flush
  <2> QED BY <2>1 DEF Free, IInv, TypeOK
<1>2. due'[c] = due[c] /\ t \in Tasks
  BY <1>1, DueFrame DEF IInv, TypeOK
<1>3. ticket[t] = "done"
  <2>1. CASE client[c].call # "flush"
    BY <1>2, <2>1 DEF FlushDrains
  <2>2. CASE client[c].call = "flush"
    BY <1>2, <2>2, FlushEnds, DrainedAtAsk
  <2> QED BY <2>1, <2>2
<1> QED BY <1>2, <1>3, DoneStays

LEMMA InitFInv == Init => FInv
<1> SUFFICES ASSUME Init PROVE FInv
  OBVIOUS
<1>1. /\ \A c \in Clients : client[c].call = "none" /\ due[c] = {}
      /\ \A t \in Tasks : ticket[t] = "none"
      /\ \A q \in Devices : queue[q] = <<>> /\ Len(queue[q]) = 0
      /\ \A w \in Workers : worker[w].task = NoTask
  <2>1. Len(<<>>) = 0
    BY EmptySeq
  <2> QED BY <2>1, AtType DEF Init, Free
<1>2. SynchAtHome
  <2>1. \A c \in Flushers : \A q \in Devices : Synch[<<c, q>>] # NoTask
    BY SynchApart, TasksAssumption
  <2>2. \A p \in Devices : \A i \in 1..Len(queue[p]) : FALSE
    BY <1>1
  <2> QED BY <1>1, <2>1, <2>2 DEF SynchAtHome
<1>3. DueFirst /\ AwaitsSynch /\ Emptied /\ FlushDrains
  BY <1>1, ClientsAssumption DEF DueFirst, AwaitsSynch, Emptied, FlushDrains
<1>4. NothingLost /\ Spare
  BY <1>1 DEF NothingLost, Spare
<1> QED BY <1>2, <1>3, <1>4 DEF FInv

LEMMA NextFInv == IInv /\ FInv /\ [Next]_vars => FInv'
  BY NothingLostNext, SynchAtHomeNext, DueFirstNext, AwaitsSynchNext, SpareNext, EmptiedNext,
     FlushDrainsNext DEF FInv

(* When flush() has come back, all that was enqueued before, by whomever,  *)
(* has been executed and its ticket marked, also if the pool is restarted  *)
(* afterwards (gpu_pool.cc, flush(); gpu_function.cc, pick_work()).        *)
THEOREM GPUFlushDrains == Spec => []FlushDrains
<1>1. Init => IInv /\ FInv
  BY InitIInv, InitFInv
<1>2. IInv /\ FInv /\ [Next]_vars => IInv' /\ FInv'
  BY NextIInv, NextFInv
<1>3. FInv => FlushDrains
  BY DEF FInv
<1> QED BY <1>1, <1>2, <1>3, PTL DEF Spec
=============================================================================
