--------------------------- MODULE GPUPoolProofs ---------------------------
(***************************************************************************)
(* Proofs about GPUPool, for any numbers of devices, clients, tasks and    *)
(* restarts, whoever uses the pool: types, tasks in one place, idle()      *)
(* telling operations where they run, and that it implements Executor.     *)
(***************************************************************************)
EXTENDS GPUPool, SequenceTheorems, TLAPS

-----------------------------------------------------------------------------
(* The parts of the inductive invariant. *)

Busied == {"run", "ran", "stuck"}

(* The vector has the thread of queue i at place i, and a thread that is   *)
(* neither unborn nor gone is in it.                                       *)
ThreadsInPlace ==
    /\ \A i \in 1..numGpus : Home(threads[i]) = i
    /\ \A w \in Devices : worker[w].at # "absent"
    /\ \A w \in Workers : worker[w].at \notin {"absent", "gone"} =>
           \E i \in 1..numGpus : threads[i] = w

(* Whoever deletes the threads does so alone, in the order of the vector.  *)
InOrder(c) ==
    /\ client[c].call = "restart" =>
           /\ users = {c}
           /\ \E w \in Workers : worker[w].at = "absent"
           /\ client[c].at = "ask" => client[c].i = 1
    /\ client[c].at \in {"stop", "join"} =>
           /\ client[c].call \in {"restart", "destroy"}
           /\ \A j \in 1..numGpus : j < client[c].i => worker[threads[j]].at = "gone"
    /\ client[c].at = "ask" => client[c].call \in {"operate", "flush", "restart"}

CallsInOrder ==
    /\ \A c \in Clients : c \notin users => client[c] = Free
    /\ \A c \in Clients : InOrder(c)

(* A task that a client is about to enqueue is new, and nobody else's.     *)
InReserve(c) ==
    /\ client[c].call = "operate" =>
           /\ client[c].task \in Operations
           /\ client[c].at \in {"ask", "put"} => ticket[client[c].task] = "none"
    /\ client[c].call # "operate" => client[c].task = NoTask
    /\ client[c].at = "put" => client[c].call \in {"operate", "flush"}
    /\ client[c].at = "put" /\ client[c].call = "flush" =>
           /\ c \in Flushers /\ client[c].i \in 1..numGpus
           /\ \A q \in Devices : q >= client[c].i => ticket[Synch[<<c, q>>]] = "none"

Reserved ==
    /\ \A c \in Clients : InReserve(c)
    /\ \A c, d \in Clients : client[c].task = client[d].task /\ client[c].task # NoTask => c = d

(* A task between enqueue and mark() is in one queue once, or with one     *)
(* thread.                                                                 *)
TaskInOnePlace ==
    /\ \A p, q \in Devices : \A i \in 1..Len(queue[p]) : \A j \in 1..Len(queue[q]) :
           queue[p][i] = queue[q][j] => p = q /\ i = j
    /\ \A q \in Devices : \A i \in 1..Len(queue[q]) :
           /\ ticket[queue[q][i]] = "open"
           /\ \A w \in Workers : worker[w].task # queue[q][i]
    /\ \A w \in Workers :
           /\ worker[w].task # NoTask <=> worker[w].at \in Busied \cup {"mark"}
           /\ worker[w].task # NoTask => ticket[worker[w].task] = "open"
           /\ worker[w].at \in {"ran", "mark"} => worker[w].task \notin Faulty
    /\ \A v, w \in Workers : worker[v].task = worker[w].task /\ worker[v].task # NoTask => v = w

(* A thread whose flag is not idle has a task, or had one that threw.      *)
FlagsInPlace ==
    \A w \in Workers :
        /\ worker[w].at \in Busied => ~idle[w]
        /\ ~idle[w] => \/ worker[w].at \in Busied
                       \/ \E t \in Faulty : ticket[t] = "open"

(* Only a task that calls operations asks. *)
AskersRun == \A w \in Workers : ask[w] # 0 => worker[w].at = "run" /\ worker[w].task \in Curious

IInv == /\ TypeOK /\ ThreadsInPlace /\ CallsInOrder /\ Reserved /\ TaskInOnePlace
        /\ FlagsInPlace /\ TasksKnowTheirThread /\ AskersRun

-----------------------------------------------------------------------------
(* Types. *)

Holding == Tasks \cup {NoTask}

WorkerStates == [at : Places, task : Holding]

ClientStates == [at : ClientPlaces, i : Nat, task : Holding,
                 call : {"none", "operate", "flush", "restart", "destroy"}]

LEMMA FrontType ==
  ASSUME NEW S, NEW s \in Seq(S)
  PROVE  Front(s) \in Seq(S)
<1>1. Len(s) \in Nat /\ \A i \in 1..Len(s) : s[i] \in S
  BY LenProperties, ElementOfSeq
<1>2. 1 \in Int /\ Len(s) - 1 \in Int /\ \A i \in 1..Len(s) - 1 : s[i] \in S
  BY <1>1
<1> QED BY <1>2, SubSeqProperties DEF Front

LEMMA AtType ==
  ASSUME NEW p, NEW t
  PROVE  /\ At(p, t).at = p /\ At(p, t).task = t
         /\ p \in Places /\ t \in Holding => At(p, t) \in WorkerStates
  BY DEF At, WorkerStates

LEMMA BroadcastType ==
  ASSUME NEW ws \in [Workers -> WorkerStates], NEW q
  PROVE  Broadcast(ws, q) \in [Workers -> WorkerStates]
<1>1. At("woken", NoTask) \in WorkerStates
  BY AtType DEF Places, Holding
<1> QED BY <1>1 DEF Broadcast

LEMMA FreeType == Free \in ClientStates
  BY DEF Free, ClientStates, ClientPlaces, Holding

LEMMA HomeType == \A w \in Workers : Home(w) \in Devices
  BY NumGpusAssumption DEF Home, Devices

LEMMA PutType ==
  ASSUME TypeOK, NEW c \in Clients, NEW t \in Tasks, NEW d, Put(c, t, d)
  PROVE  /\ queue' \in [Devices -> Seq(Tasks)]
         /\ worker' \in [Workers -> WorkerStates]
         /\ ticket' \in [Tasks -> {"none", "open", "done", "direct"}]
         /\ outstanding' \in [Clients -> Seq(Tasks)]
         /\ UNCHANGED <<pool, idle, ask>>
<1>1. \A q \in Devices : Append(queue[q], t) \in Seq(Tasks)
  BY AppendProperties DEF TypeOK
<1>2. Append(outstanding[c], t) \in Seq(Tasks)
  BY AppendProperties DEF TypeOK
<1>3. worker \in [Workers -> WorkerStates]
  BY DEF TypeOK, WorkerStates, Holding
<1> DEFINE q == (d % numGpus) + 1
<1>4. /\ queue' = [queue EXCEPT ![q] = Append(@, t)]
      /\ worker' = Broadcast(worker, q)
      /\ ticket' = [ticket EXCEPT ![t] = "open"]
      /\ outstanding' = [outstanding EXCEPT ![c] = Append(@, t)]
      /\ UNCHANGED <<pool, idle, ask>>
  BY DEF Put
<1> HIDE DEF q
<1> QED BY <1>1, <1>2, <1>3, <1>4, BroadcastType DEF TypeOK

LEMMA PickWorkType ==
  ASSUME TypeOK, NEW w \in Workers, NEW p \in Places, PickWork(w, p)
  PROVE  /\ queue' \in [Devices -> Seq(Tasks)]
         /\ worker' \in [Workers -> WorkerStates]
         /\ idle' \in [Workers -> BOOLEAN]
<1>1. worker \in [Workers -> WorkerStates] /\ Home(w) \in Devices
  BY HomeType DEF TypeOK, WorkerStates, Holding
<1>2. CASE queue[Home(w)] # <<>>
  <2>1. Head(queue[Home(w)]) \in Tasks /\ Tail(queue[Home(w)]) \in Seq(Tasks)
    BY <1>1, <1>2, HeadTailProperties DEF TypeOK
  <2>2. At("run", Head(queue[Home(w)])) \in WorkerStates
    BY <2>1, AtType DEF Places, Holding
  <2> QED BY <1>1, <1>2, <2>1, <2>2 DEF PickWork, TypeOK
<1>3. CASE queue[Home(w)] = <<>>
  <2>1. At(p, NoTask) \in WorkerStates
    BY AtType DEF Holding
  <2> QED BY <1>1, <1>3, <2>1 DEF PickWork, TypeOK
<1> QED BY <1>2, <1>3

LEMMA TypeInit == Init => TypeOK
<1> SUFFICES ASSUME Init PROVE TypeOK
  OBVIOUS
<1>1. 1 \in Devices /\ NumGpus \in Devices /\ Devices \subseteq Workers /\ Devices = 1..NumGpus
  BY NumGpusAssumption DEF Devices, Workers
<1>2. <<>> \in Seq(Tasks)
  BY EmptySeq
<1>3. \A w \in Workers : At(IF w \in Devices THEN "top" ELSE "absent", NoTask) \in WorkerStates
  BY AtType DEF Places, Holding
<1>4. threads \in [1..numGpus -> Workers]
  BY <1>1 DEF Init
<1> QED BY <1>1, <1>2, <1>3, <1>4, FreeType DEF Init, TypeOK, WorkerStates, ClientStates, Holding

(* A step of a thread of the pool, by itself. *)
LEMMA TypeWorker ==
  ASSUME TypeOK, NEW w \in Workers, WorkerStep(w) \/ SpuriousWakeup(w)
  PROVE  TypeOK'
<1>0. /\ worker \in [Workers -> WorkerStates]
      /\ \A p \in Places : [worker EXCEPT ![w].at = p] \in [Workers -> WorkerStates]
      /\ \A p \in Places, t \in Holding : [worker EXCEPT ![w] = At(p, t)] \in [Workers -> WorkerStates]
      /\ worker[w].task \in Holding /\ NoTask \in Holding
      /\ ask[w] \in Nat
  <2>1. worker \in [Workers -> WorkerStates] /\ worker[w].task \in Holding
    BY DEF TypeOK, WorkerStates, Holding
  <2>2. \A p \in Places : [worker EXCEPT ![w].at = p] \in [Workers -> WorkerStates]
    BY <2>1 DEF WorkerStates
  <2> QED BY <2>1, <2>2, AtType DEF TypeOK, Holding
<1>1. CASE Look(w) \/ LookAgain(w)
  <2>1. PICK p \in Places : PickWork(w, p)
    BY <1>1 DEF Look, LookAgain, Places
  <2> QED BY <1>1, <2>1, PickWorkType DEF Look, LookAgain, TypeOK, pool, calls, WorkerStates, Holding
<1>2. CASE Check(w) \/ SpuriousWakeup(w) \/ Mark(w) \/ SetIdle(w)
  <2>1. /\ worker' \in [Workers -> WorkerStates]
        /\ UNCHANGED <<pool, queue, calls, ask>>
    BY <1>0, <1>2 DEF Check, SpuriousWakeup, Mark, SetIdle, Places
  <2>2. ticket' \in [Tasks -> {"none", "open", "done", "direct"}] /\ idle' \in [Workers -> BOOLEAN]
    <3>1. UNCHANGED ticket \/ \E u : ticket' = [ticket EXCEPT ![u] = "done"]
      BY <1>2 DEF Check, SpuriousWakeup, Mark, SetIdle
    <3>2. UNCHANGED idle \/ idle' = [idle EXCEPT ![w] = TRUE]
      BY <1>2 DEF Check, SpuriousWakeup, Mark, SetIdle
    <3>3. ticket \in [Tasks -> {"none", "open", "done", "direct"}] /\ idle \in [Workers -> BOOLEAN]
      BY DEF TypeOK
    <3> QED BY <3>1, <3>2, <3>3
  <2> QED BY <2>1, <2>2 DEF TypeOK, pool, calls, WorkerStates, Holding
<1>3. CASE Run(w)
  BY <1>0, <1>3 DEF Run, Places, TypeOK, pool, calls, WorkerStates, Holding
<1>4. CASE Ask(w) \/ AskOn(w)
  <2>1. \A n \in Nat : [ask EXCEPT ![w] = n] \in [Clients \cup Workers -> Nat]
    BY DEF TypeOK
  <2>2. [ask EXCEPT ![w] = 1] \in [Clients \cup Workers -> Nat]
    BY <2>1
  <2>3. [ask EXCEPT ![w] = ask[w] + 1] \in [Clients \cup Workers -> Nat]
    <3> DEFINE n == ask[w] + 1
    <3>1. n \in Nat
      BY <1>0
    <3> HIDE DEF n
    <3>2. [ask EXCEPT ![w] = n] \in [Clients \cup Workers -> Nat]
      BY <2>1, <3>1
    <3> QED BY <3>2 DEF n
  <2>4. UNCHANGED <<pool, work, ticket, calls>> /\ ask' \in [Clients \cup Workers -> Nat]
    BY <1>4, <2>2, <2>3 DEF Ask, AskOn
  <2> QED BY <2>4 DEF TypeOK, pool, work, calls
<1>5. CASE RunAnswered(w)
  BY <1>0, <1>5 DEF RunAnswered, Places, TypeOK, pool, calls, WorkerStates, Holding
<1> QED BY <1>1, <1>2, <1>3, <1>4, <1>5 DEF WorkerStep

(* A step of a client, by itself. *)
LEMMA TypeClient ==
  ASSUME TypeOK, CallsInOrder, Reserved, NEW c \in Clients, ClientStep(c) \/ ClientCall(c)
  PROVE  TypeOK'
<1>0. /\ client \in [Clients -> ClientStates] /\ client[c] \in ClientStates
      /\ \A p \in ClientPlaces : [client EXCEPT ![c].at = p] \in [Clients -> ClientStates]
      /\ \A n \in Nat : [client EXCEPT ![c].i = n] \in [Clients -> ClientStates]
      /\ \A s \in ClientStates : [client EXCEPT ![c] = s] \in [Clients -> ClientStates]
      /\ \A n \in Nat : [ask EXCEPT ![c] = n] \in [Clients \cup Workers -> Nat]
      /\ worker \in [Workers -> WorkerStates]
      /\ \A s \in Seq(Tasks) : [outstanding EXCEPT ![c] = s] \in [Clients -> Seq(Tasks)]
      /\ ask[c] \in Nat /\ Len(outstanding[c]) \in Nat /\ outstanding[c] \in Seq(Tasks)
  <2>1. client \in [Clients -> ClientStates] /\ client[c] \in ClientStates
    BY DEF TypeOK, ClientStates, Holding
  <2>2. /\ \A p \in ClientPlaces : [client EXCEPT ![c].at = p] \in [Clients -> ClientStates]
        /\ \A n \in Nat : [client EXCEPT ![c].i = n] \in [Clients -> ClientStates]
    BY <2>1 DEF ClientStates
  <2>3. Len(outstanding[c]) \in Nat
    BY LenProperties DEF TypeOK
  <2> QED BY <2>1, <2>2, <2>3 DEF TypeOK, WorkerStates, Holding
<1>a. /\ [ask EXCEPT ![c] = 0] \in [Clients \cup Workers -> Nat]
      /\ [ask EXCEPT ![c] = 1] \in [Clients \cup Workers -> Nat]
      /\ [ask EXCEPT ![c] = ask[c] + 1] \in [Clients \cup Workers -> Nat]
  <2> DEFINE n == ask[c] + 1
  <2>1. n \in Nat
    BY <1>0
  <2> HIDE DEF n
  <2>2. [ask EXCEPT ![c] = n] \in [Clients \cup Workers -> Nat]
    BY <1>0, <2>1
  <2> QED BY <1>0, <2>2 DEF n
<1>i. /\ client[c].i \in Nat /\ (client[c].i # 0 => client[c].i - 1 \in Nat) /\ client[c].i + 1 \in Nat
      /\ client[c].task \in Holding
  BY <1>0 DEF ClientStates
<1>f. \A t \in Holding : \A p \in ClientPlaces :
         \A o \in {"none", "operate", "flush", "restart", "destroy"} :
             /\ [Free EXCEPT !.at = p, !.task = t, !.call = o] \in ClientStates
             /\ [Free EXCEPT !.at = p, !.call = o] \in ClientStates
  BY FreeType DEF Free, ClientStates
<1>u. ASSUME UNCHANGED <<pool, work, ticket>>,
             client' \in [Clients -> ClientStates], outstanding' \in [Clients -> Seq(Tasks)],
             ask' \in [Clients \cup Workers -> Nat], due' \in [Clients -> SUBSET Tasks]
      PROVE  TypeOK'
  BY <1>u DEF TypeOK, pool, work, ClientStates, Holding
<1>k. /\ outstanding \in [Clients -> Seq(Tasks)] /\ ask \in [Clients \cup Workers -> Nat]
      /\ due \in [Clients -> SUBSET Tasks]
  BY DEF TypeOK
<1>p. ASSUME NEW t \in Tasks, NEW d, Put(c, t, d), client' \in [Clients -> ClientStates], UNCHANGED due
      PROVE  TypeOK'
  BY <1>p, PutType DEF TypeOK, pool, WorkerStates, ClientStates, Holding
<1>1. CASE AskOn(c)
  BY <1>0, <1>a, <1>1, <1>u, <1>k DEF AskOn, calls
<1>2. CASE Answered(c)
  <2> DEFINE op == client[c].call
             cl == CASE op = "operate" -> IF SaysYes(c) THEN [client[c] EXCEPT !.at = "put"] ELSE Free
                     [] op = "flush"   -> IF SaysYes(c) THEN Free ELSE client[c]
                     [] op = "restart" -> IF SaysYes(c) THEN [client[c] EXCEPT !.at = "stop"] ELSE Free
  <2>1. ask' \in [Clients \cup Workers -> Nat]
    BY <1>a, <1>2 DEF Answered
  <2>2. ticket' \in [Tasks -> {"none", "open", "done", "direct"}]
    BY <1>2 DEF Answered, TypeOK
  <2>3. cl \in ClientStates
    <3>1. op \in {"operate", "flush", "restart"}
      BY <1>2 DEF Answered, CallsInOrder, InOrder
    <3> QED BY <1>0, <3>1, FreeType DEF ClientStates, ClientPlaces
  <2>4. client' = [client EXCEPT ![c] = cl]
    BY <1>2 DEF Answered
  <2>5. client' \in [Clients -> ClientStates]
    BY <1>0, <2>3, <2>4
  <2>6. UNCHANGED <<pool, work, outstanding, due>>
    BY <1>2 DEF Answered
  <2> QED BY <2>1, <2>2, <2>5, <2>6 DEF TypeOK, pool, work, ClientStates, Holding
<1>3. CASE FlushDevice(c)
  <2> DEFINE q == client[c].i
             cl == IF q = numGpus THEN [client[c] EXCEPT !.at = "await"] ELSE [client[c] EXCEPT !.i = q + 1]
  <2>1. cl \in ClientStates
    BY <1>0, <1>i DEF ClientStates, ClientPlaces
  <2>2. client' = [client EXCEPT ![c] = cl] /\ Put(c, Synch[<<c, q>>], q - 1) /\ UNCHANGED due
    BY <1>3 DEF FlushDevice
  <2>3. <<c, q>> \in Flushers \X Devices
    BY <1>3, NumGpusAssumption DEF FlushDevice, Reserved, InReserve, TypeOK, Devices
  <2>4. Synch[<<c, q>>] \in Tasks
    BY <2>3, SynchAssumption
  <2> HIDE DEF q, cl
  <2> QED BY <1>0, <1>p, <2>1, <2>2, <2>4
<1>4. ASSUME NEW d, PutOperation(c, d) PROVE TypeOK'
  <2>1. client[c].task \in Tasks
    BY <1>4 DEF PutOperation, Reserved, InReserve, Operations
  <2>2. client' \in [Clients -> ClientStates]
    BY <1>0, <1>4 DEF PutOperation, ClientPlaces
  <2> QED BY <1>4, <1>p, <2>1, <2>2 DEF PutOperation
<1>5. CASE Await(c)
  <2>1. Front(outstanding[c]) \in Seq(Tasks)
    BY <1>0, FrontType
  <2>2. client' \in [Clients -> ClientStates]
    BY <1>0, <1>i, <1>5 DEF Await
  <2>3. outstanding' \in [Clients -> Seq(Tasks)]
    BY <1>0, <1>5, <2>1 DEF Await
  <2> QED BY <1>5, <1>u, <1>k, <2>2, <2>3 DEF Await
<1>6. CASE Awaited(c)
  <2>1. client' \in [Clients -> ClientStates]
    BY <1>0, <1>6, FreeType DEF Awaited, ClientPlaces
  <2>2. ask' \in [Clients \cup Workers -> Nat]
    BY <1>a, <1>k, <1>6 DEF Awaited
  <2> QED BY <1>6, <1>u, <1>k, <2>1, <2>2 DEF Awaited
<1>7. CASE Stop(c)
  <2>1. client' \in [Clients -> ClientStates]
    BY <1>0, <1>7 DEF Stop, ClientPlaces
  <2>2. worker' \in [Workers -> WorkerStates]
    BY <1>0, <1>7, BroadcastType DEF Stop
  <2>3. terminate' \in [Workers -> BOOLEAN]
    BY <1>7 DEF Stop, TypeOK
  <2> QED BY <1>7, <2>1, <2>2, <2>3 DEF Stop, TypeOK, WorkerStates, ClientStates, Holding
<1>8. CASE Join(c)
  <2>1. client' \in [Clients -> ClientStates]
    <3> DEFINE last == client[c].i = Len(threads)
               cl == CASE ~last -> [client[c] EXCEPT !.at = "stop", !.i = client[c].i + 1]
                       [] last /\ client[c].call = "restart" -> Free
                       [] last /\ client[c].call = "destroy" -> [client[c] EXCEPT !.at = "left"]
    <3>1. client[c].call \in {"restart", "destroy"}
      BY <1>8 DEF Join, CallsInOrder, InOrder
    <3>2. cl \in ClientStates
      BY <1>0, <1>i, <3>1, FreeType DEF ClientStates, ClientPlaces
    <3>3. client' = [client EXCEPT ![c] = cl]
      BY <1>8 DEF Join
    <3> HIDE DEF cl
    <3> QED BY <1>0, <3>2, <3>3
  <2>2. CASE client[c].i = Len(threads) /\ client[c].call = "restart"
    <3>1. Restarted \in Workers
      BY <2>2 DEF Restarted, CallsInOrder, InOrder
    <3>2. /\ threads' = <<Restarted>> /\ numGpus' = 1
          /\ worker' = [worker EXCEPT ![Restarted] = At("top", NoTask)]
          /\ UNCHANGED <<users, terminate, queue, idle, ticket, outstanding, ask, due>>
      BY <1>8, <2>2 DEF Join
    <3>3. threads' \in [1..numGpus' -> Workers] /\ numGpus' \in Devices
      BY <3>1, <3>2, NumGpusAssumption DEF Devices
    <3>4. worker' \in [Workers -> WorkerStates]
      BY <1>0, <3>2, AtType DEF Places, Holding
    <3> QED BY <2>1, <3>2, <3>3, <3>4 DEF TypeOK, WorkerStates, ClientStates, Holding
  <2>3. CASE ~(client[c].i = Len(threads) /\ client[c].call = "restart")
    <3>1. UNCHANGED <<pool, work, ticket, outstanding, ask, due>>
      BY <1>8, <2>3 DEF Join, pool, work
    <3> QED BY <1>u, <1>k, <2>1, <3>1
  <2> QED BY <2>2, <2>3
<1>9. CASE Wait(c)
  <2>1. client' = [client EXCEPT ![c] = [client[c] EXCEPT !.at = "await", !.i = Len(outstanding[c])]]
    BY <1>0, <1>9 DEF Wait, ClientStates
  <2>2. [client[c] EXCEPT !.at = "await", !.i = Len(outstanding[c])] \in ClientStates
    BY <1>0 DEF ClientStates, ClientPlaces
  <2> QED BY <1>0, <1>9, <1>u, <1>k, <2>1, <2>2 DEF Wait
<1>10. CASE Flush(c)
  <2>1. client' \in [Clients -> ClientStates]
    BY <1>0, <1>f, <1>10 DEF Flush, ClientPlaces, Holding
  <2>2. due' \in [Clients -> SUBSET Tasks]
    BY <1>k, <1>10 DEF Flush
  <2> QED BY <1>10, <1>u, <1>k, <2>1, <2>2 DEF Flush
<1>11. CASE Restart(c) \/ Destroy(c)
  <2>1. client' \in [Clients -> ClientStates]
    <3>1. PICK p \in ClientPlaces, o \in {"restart", "destroy"} :
             client' = [client EXCEPT ![c] = [Free EXCEPT !.at = p, !.call = o]]
      BY <1>11 DEF Restart, Destroy, ClientPlaces
    <3> DEFINE s == [Free EXCEPT !.at = p, !.call = o]
    <3>2. s \in ClientStates
      BY <1>0, <1>f DEF Holding
    <3>3. client' = [client EXCEPT ![c] = s]
      BY <3>1
    <3> HIDE DEF s
    <3> QED BY <1>0, <3>2, <3>3
  <2>2. ask' \in [Clients \cup Workers -> Nat]
    BY <1>a, <1>k, <1>11 DEF Restart, Destroy
  <2> QED BY <1>11, <1>u, <1>k, <2>1, <2>2 DEF Restart, Destroy
<1>12. ASSUME NEW t \in Operations, Operate(c, t) PROVE TypeOK'
  <2>1. t \in Holding
    BY DEF Operations, Holding
  <2>2. client' \in [Clients -> ClientStates]
    BY <1>0, <1>f, <1>12, <2>1 DEF Operate, ClientPlaces
  <2>3. ask' \in [Clients \cup Workers -> Nat]
    BY <1>a, <1>12 DEF Operate
  <2> QED BY <1>12, <1>u, <1>k, <2>2, <2>3 DEF Operate
<1>13. ASSUME NEW t \in Operations, NEW d, Enqueue(c, t, d) PROVE TypeOK'
  BY <1>0, <1>13, <1>p DEF Enqueue, Operations
<1> QED BY <1>1, <1>2, <1>3, <1>4, <1>5, <1>6, <1>7, <1>8, <1>9, <1>10, <1>11, <1>12, <1>13
    DEF ClientStep, ClientCall

LEMMA TypeNext == TypeOK /\ CallsInOrder /\ Reserved /\ [Next]_vars => TypeOK'
<1> SUFFICES ASSUME TypeOK, CallsInOrder, Reserved, [Next]_vars PROVE TypeOK'
  OBVIOUS
<1>1. CASE Closed \/ UNCHANGED vars
  BY <1>1 DEF Closed, TypeOK, vars, pool, work, calls
<1> QED BY <1>1, TypeWorker, TypeClient DEF Next

-----------------------------------------------------------------------------
(* What steps do to the places of threads. *)

LEMMA BroadcastEffect ==
  ASSUME NEW ws \in [Workers -> WorkerStates], NEW q, NEW w \in Workers
  PROVE  \/ Broadcast(ws, q)[w] = ws[w]
         \/ ws[w].at = "wait" /\ Broadcast(ws, q)[w] = At("woken", NoTask)
  BY DEF Broadcast

LEMMA PickWorkEffect ==
  ASSUME TypeOK, NEW w \in Workers, NEW p, PickWork(w, p)
  PROVE  /\ \A v \in Workers : v # w => worker'[v] = worker[v]
         /\ worker'[w].at \in {"run", p}
<1>1. worker \in [Workers -> WorkerStates]
  BY DEF TypeOK, WorkerStates, Holding
<1>2. \/ worker' = [worker EXCEPT ![w] = At("run", Head(queue[Home(w)]))]
      \/ worker' = [worker EXCEPT ![w] = At(p, NoTask)]
  BY DEF PickWork
<1> QED BY <1>1, <1>2, AtType

(* After the answer a task that asked is stuck, or ends or throws. *)
LEMMA AnswerEffect ==
  ASSUME TypeOK, NEW w \in Workers, RunAnswered(w)
  PROVE  /\ worker[w].at = "run" /\ ask[w] # 0 /\ ask'[w] = 0
         /\ \A v \in Workers : v # w => worker'[v] = worker[v]
         /\ UNCHANGED <<queue, idle, ticket>>
         /\ \/ SaysYes(w) /\ worker'[w] = At("stuck", worker[w].task)
            \/ ~SaysYes(w) /\ worker[w].task \in Faulty /\ worker'[w] = At("gone", NoTask)
            \/ ~SaysYes(w) /\ worker[w].task \notin Faulty /\ worker'[w] = At("ran", worker[w].task)
<1>1. worker \in [Workers -> WorkerStates] /\ ask \in [Clients \cup Workers -> Nat]
  BY DEF TypeOK, WorkerStates, Holding
<1>2. /\ worker[w].at = "run" /\ ask[w] # 0 /\ ask' = [ask EXCEPT ![w] = 0]
      /\ UNCHANGED <<queue, idle, ticket>>
  BY DEF RunAnswered, SaysNo, SaysYes
<1>3. worker' = [worker EXCEPT ![w] = IF SaysYes(w) THEN At("stuck", @.task)
                                      ELSE IF @.task \in Faulty THEN At("gone", NoTask)
                                      ELSE At("ran", @.task)]
  BY DEF RunAnswered
<1>4. \A v \in Workers : v # w => worker'[v] = worker[v]
  BY <1>1, <1>3
<1>5. worker'[w] = IF SaysYes(w) THEN At("stuck", worker[w].task)
                   ELSE IF worker[w].task \in Faulty THEN At("gone", NoTask)
                   ELSE At("ran", worker[w].task)
  BY <1>1, <1>3
<1>6. ask'[w] = 0
  BY <1>1, <1>2
<1> QED BY <1>2, <1>4, <1>5, <1>6

LEMMA WorkerEffect ==
  ASSUME TypeOK, NEW w \in Workers, WorkerStep(w) \/ SpuriousWakeup(w)
  PROVE  /\ \A v \in Workers : v # w => worker'[v] = worker[v]
         /\ UNCHANGED <<pool, calls>>
         /\ worker'[w] # worker[w] => /\ worker[w].at \notin {"absent", "gone"}
                                      /\ worker'[w].at # "absent"
<1>0. worker \in [Workers -> WorkerStates]
  BY DEF TypeOK, WorkerStates, Holding
<1>1. CASE Look(w) \/ LookAgain(w)
  <2>1. PICK p \in {"check", "wait"} : PickWork(w, p)
    BY <1>1 DEF Look, LookAgain
  <2> QED BY <1>1, <2>1, PickWorkEffect DEF Look, LookAgain
<1>2. CASE Check(w) \/ SpuriousWakeup(w)
  BY <1>0, <1>2 DEF Check, SpuriousWakeup, WorkerStates
<1>3. CASE Mark(w) \/ Run(w)
  BY <1>0, <1>3, AtType DEF Mark, Run
<1>4. CASE SetIdle(w)
  BY <1>0, <1>4 DEF SetIdle, WorkerStates
<1>5. CASE Ask(w) \/ AskOn(w)
  BY <1>0, <1>5 DEF Ask, AskOn, work
<1>6. CASE RunAnswered(w)
  BY <1>6, AnswerEffect, AtType DEF RunAnswered
<1> QED BY <1>1, <1>2, <1>3, <1>4, <1>5, <1>6 DEF WorkerStep

(* The last step of single_start(): the only one that changes the vector.  *)
Renews(c) == Join(c) /\ client[c].i = Len(threads) /\ client[c].call = "restart"

LEMMA PutEffect ==
  ASSUME TypeOK, NEW c, NEW t, NEW d, Put(c, t, d)
  PROVE  /\ \A w \in Workers : \/ worker'[w] = worker[w]
                               \/ worker[w].at = "wait" /\ worker'[w] = At("woken", NoTask)
         /\ UNCHANGED <<pool, idle, ask>>
<1>1. worker \in [Workers -> WorkerStates] /\ worker' = Broadcast(worker, (d % numGpus) + 1)
  BY DEF Put, TypeOK, WorkerStates, Holding
<1> QED BY <1>1, BroadcastEffect DEF Put

LEMMA ClientEffect ==
  ASSUME TypeOK, NEW c \in Clients, ClientStep(c) \/ ClientCall(c), ~Renews(c)
  PROVE  /\ \A w \in Workers : \/ worker'[w] = worker[w]
                               \/ worker[w].at = "wait" /\ worker'[w] = At("woken", NoTask)
         /\ UNCHANGED <<users, numGpus, threads, idle>>
<1>1. ASSUME NEW t, NEW d, Put(c, t, d)
      PROVE  /\ \A w \in Workers : \/ worker'[w] = worker[w]
                                   \/ worker[w].at = "wait" /\ worker'[w] = At("woken", NoTask)
             /\ UNCHANGED <<users, numGpus, threads, idle>>
  BY <1>1, PutEffect DEF pool
<1>2. CASE Stop(c)
  <2>1. worker \in [Workers -> WorkerStates] /\ worker' = Broadcast(worker, Home(threads[client[c].i]))
    BY <1>2 DEF Stop, TypeOK, WorkerStates, Holding
  <2> QED BY <1>2, <2>1, BroadcastEffect DEF Stop
<1>3. CASE Join(c)
  BY <1>3 DEF Join, Renews
<1>4. CASE \/ AskOn(c) \/ Answered(c) \/ Await(c) \/ Awaited(c) \/ Wait(c)
           \/ Flush(c) \/ Restart(c) \/ Destroy(c) \/ \E t \in Operations : Operate(c, t)
  BY <1>4 DEF AskOn, Answered, Await, Awaited, Wait, Flush, Restart, Destroy, Operate, pool, work
<1> QED BY <1>1, <1>2, <1>3, <1>4
    DEF ClientStep, ClientCall, FlushDevice, PutOperation, Enqueue

LEMMA RenewsEffect ==
  ASSUME TypeOK, CallsInOrder, ThreadsInPlace, NEW c \in Clients, Renews(c)
  PROVE  /\ Restarted \in Workers \ Devices /\ worker[Restarted].at = "absent"
         /\ users' = users /\ users = {c} /\ numGpus' = 1 /\ threads' = <<Restarted>>
         /\ worker' = [worker EXCEPT ![Restarted] = At("top", NoTask)]
         /\ client' = [client EXCEPT ![c] = Free]
         /\ UNCHANGED <<terminate, queue, idle, ticket, outstanding, ask, due>>
         /\ \A w \in Workers : worker[w].at \in {"absent", "gone"}
<1>1. /\ client[c].call = "restart" /\ client[c].at = "join" /\ client[c].i = Len(threads)
      /\ worker[threads[client[c].i]].at = "gone"
  BY DEF Renews, Join
<1>2. /\ users = {c} /\ \E w \in Workers : worker[w].at = "absent"
      /\ \A j \in 1..numGpus : j < client[c].i => worker[threads[j]].at = "gone"
  BY <1>1 DEF CallsInOrder, InOrder
<1>3. Restarted \in Workers /\ worker[Restarted].at = "absent"
  BY <1>2 DEF Restarted
<1>4. Len(threads) = numGpus /\ numGpus \in Nat
  <2>1. numGpus \in Nat /\ threads \in [1..numGpus -> Workers]
    BY NumGpusAssumption DEF TypeOK, Devices
  <2> QED BY <2>1
<1>5. \A w \in Workers : worker[w].at \in {"absent", "gone"}
  <2> SUFFICES ASSUME NEW w \in Workers, worker[w].at \notin {"absent", "gone"} PROVE FALSE
    OBVIOUS
  <2>1. PICK i \in 1..numGpus : threads[i] = w
    BY DEF ThreadsInPlace
  <2>2. i < client[c].i \/ i = client[c].i
    BY <1>1, <1>4
  <2> QED BY <1>1, <1>2, <2>1, <2>2
<1>6. Restarted \notin Devices
  BY <1>3 DEF ThreadsInPlace
<1>7. client' = [client EXCEPT ![c] = Free]
  BY <1>1 DEF Renews, Join
<1> QED BY <1>1, <1>2, <1>3, <1>5, <1>6, <1>7 DEF Renews, Join

(* Another client's call and walk are left alone. *)
LEMMA ClientFrame ==
  ASSUME TypeOK, CallsInOrder, NEW c \in Clients, ClientStep(c) \/ ClientCall(c)
  PROVE  /\ \A d \in Clients : d # c => client'[d] = client[d]
         /\ \A x \in Clients \cup Workers : x # c => ask'[x] = ask[x]
         /\ users' = users
         /\ client' = client \/ c \in users
<1>0. /\ \A x, y : client' = [client EXCEPT ![c] = x] => \A d \in Clients : d # c => client'[d] = client[d]
      /\ \A x : ask' = [ask EXCEPT ![c] = x] => \A y \in Clients \cup Workers : y # c => ask'[y] = ask[y]
      /\ DOMAIN client = Clients /\ DOMAIN ask = Clients \cup Workers
  BY DEF TypeOK
<1>1. c \in users \/ client[c] = Free
  BY DEF CallsInOrder
<1>2. client[c] = Free => client[c].at = "free"
  BY DEF Free
<1>3. \A t, d : Put(c, t, d) => UNCHANGED <<pool, ask>>
  BY DEF Put
<1>4. CASE AskOn(c)
  BY <1>0, <1>4 DEF AskOn, calls, pool
<1>5. CASE Answered(c)
  BY <1>0, <1>1, <1>2, <1>5 DEF Answered, pool
<1>6. CASE FlushDevice(c) \/ \E d : PutOperation(c, d)
  BY <1>0, <1>1, <1>2, <1>3, <1>6 DEF FlushDevice, PutOperation, pool
<1>7. CASE Await(c) \/ Awaited(c)
  BY <1>0, <1>1, <1>2, <1>7 DEF Await, Awaited, pool
<1>8. CASE Stop(c) \/ Join(c)
  BY <1>0, <1>1, <1>2, <1>8 DEF Stop, Join
<1>9. CASE Wait(c) \/ Flush(c) \/ Restart(c) \/ Destroy(c)
  BY <1>0, <1>9 DEF Wait, Flush, Restart, Destroy, MayCall, pool
<1>10. CASE \E t \in Operations : Operate(c, t)
  BY <1>0, <1>10 DEF Operate, MayCall, pool
<1>11. CASE \E t \in Operations, d \in 0..NumGpus : Enqueue(c, t, d)
  BY <1>0, <1>3, <1>11 DEF Enqueue, pool
<1> QED BY <1>4, <1>5, <1>6, <1>7, <1>8, <1>9, <1>10, <1>11 DEF ClientStep, ClientCall

-----------------------------------------------------------------------------
(* The vector, and who deletes it. *)

LEMMA ThreadsInPlaceNext ==
  ASSUME TypeOK, CallsInOrder, ThreadsInPlace, [Next]_vars
  PROVE  ThreadsInPlace'
<1>0. Devices \subseteq Workers /\ At("woken", NoTask).at = "woken" /\ At("top", NoTask).at = "top"
  BY NumGpusAssumption, AtType DEF Devices, Workers
<1>1. ASSUME UNCHANGED <<numGpus, threads>>,
             \A w \in Workers : worker'[w] # worker[w] => /\ worker[w].at \notin {"absent", "gone"}
                                                          /\ worker'[w].at # "absent"
      PROVE  ThreadsInPlace'
  BY <1>0, <1>1 DEF ThreadsInPlace
<1>2. ASSUME NEW w \in Workers, WorkerStep(w) \/ SpuriousWakeup(w) PROVE ThreadsInPlace'
  BY <1>1, <1>2, WorkerEffect DEF pool
<1>3. ASSUME NEW c \in Clients, ClientStep(c) \/ ClientCall(c), ~Renews(c) PROVE ThreadsInPlace'
  <2>1. /\ \A w \in Workers : \/ worker'[w] = worker[w]
                              \/ worker[w].at = "wait" /\ worker'[w] = At("woken", NoTask)
        /\ UNCHANGED <<numGpus, threads>>
    BY <1>3, ClientEffect
  <2> QED BY <1>0, <1>1, <2>1
<1>4. ASSUME NEW c \in Clients, Renews(c) PROVE ThreadsInPlace'
  <2>1. /\ Restarted \in Workers \ Devices /\ numGpus' = 1 /\ threads' = <<Restarted>>
        /\ worker' = [worker EXCEPT ![Restarted] = At("top", NoTask)]
        /\ \A w \in Workers : worker[w].at \in {"absent", "gone"}
    BY <1>4, RenewsEffect
  <2>2. worker \in [Workers -> WorkerStates]
    BY DEF TypeOK, WorkerStates, Holding
  <2>3. \A i \in 1..numGpus' : i = 1 /\ Home(threads'[i]) = i
    BY <2>1 DEF Home
  <2>4. \A w \in Devices : worker'[w].at # "absent"
    BY <1>0, <2>1, <2>2 DEF ThreadsInPlace
  <2>5. \A w \in Workers : worker'[w].at \notin {"absent", "gone"} => 1 \in 1..numGpus' /\ threads'[1] = w
    BY <2>1, <2>2
  <2> QED BY <2>3, <2>4, <2>5 DEF ThreadsInPlace
<1>5. CASE Closed \/ UNCHANGED vars
  BY <1>5 DEF Closed, vars, pool, work, ThreadsInPlace
<1> QED BY <1>2, <1>3, <1>4, <1>5 DEF Next

(* What no step of others disturbs. *)
LEMMA InOrderFrame ==
  ASSUME NEW d \in Clients, InOrder(d), client'[d] = client[d], UNCHANGED <<users, numGpus, threads>>,
         threads \in [1..numGpus -> Workers],
         \A w \in Workers : worker[w].at \in {"absent", "gone"} => worker'[w] = worker[w]
  PROVE  InOrder(d)'
  BY DEF InOrder

LEMMA CallsInOrderNext ==
  ASSUME TypeOK, CallsInOrder, ThreadsInPlace, [Next]_vars
  PROVE  CallsInOrder'
<1>0. /\ threads \in [1..numGpus -> Workers] /\ client \in [Clients -> ClientStates]
      /\ Free.at = "free" /\ Free.call = "none" /\ Free.i = 1
  BY DEF TypeOK, ClientStates, Holding, Free
<1>1. ASSUME NEW w \in Workers, WorkerStep(w) \/ SpuriousWakeup(w) PROVE CallsInOrder'
  BY <1>0, <1>1, WorkerEffect, InOrderFrame DEF pool, calls, CallsInOrder
<1>2. ASSUME NEW c \in Clients, ClientStep(c) \/ ClientCall(c), ~Renews(c) PROVE CallsInOrder'
  <2>1. /\ \A w \in Workers : worker[w].at \in {"absent", "gone"} => worker'[w] = worker[w]
        /\ UNCHANGED <<users, numGpus, threads>>
    BY <1>2, ClientEffect
  <2>2. \A d \in Clients : d # c => client'[d] = client[d] /\ InOrder(d)'
    BY <1>0, <1>2, <2>1, ClientFrame, InOrderFrame DEF CallsInOrder
  <2>3. \A d \in Clients : d \notin users' => client'[d] = Free
    BY <1>2, <2>1, ClientFrame DEF CallsInOrder
  <2>s. client'[c] = client[c] => InOrder(c)'
    BY <1>0, <2>1, InOrderFrame DEF CallsInOrder
  <2>f. client'[c] = Free => InOrder(c)'
    BY <1>0 DEF InOrder
  <2> SUFFICES InOrder(c)'
    BY <2>2, <2>3 DEF CallsInOrder
  <2>4. CASE AskOn(c) \/ \E t \in Operations, d \in 0..NumGpus : Enqueue(c, t, d)
    BY <2>s, <2>4 DEF AskOn, Enqueue, calls
  <2>5. CASE Answered(c)
    <3>1. /\ client[c].at = "ask" /\ client[c].call \in {"operate", "flush", "restart"}
          /\ client[c].call = "restart" => client[c].i = 1
          /\ \/ client'[c] = Free \/ client'[c] = client[c]
             \/ client[c].call = "operate" /\ client'[c] = [client[c] EXCEPT !.at = "put"]
             \/ client[c].call = "restart" /\ client'[c] = [client[c] EXCEPT !.at = "stop"]
      BY <1>0, <2>5 DEF Answered, CallsInOrder, InOrder
    <3>2. CASE client'[c] = [client[c] EXCEPT !.at = "put"] /\ client[c].call = "operate"
      BY <1>0, <3>2 DEF InOrder, ClientStates
    <3>3. CASE client'[c] = [client[c] EXCEPT !.at = "stop"] /\ client[c].call = "restart"
      <4>1. /\ client'[c].at = "stop" /\ client'[c].i = 1 /\ client'[c].call = "restart"
        BY <1>0, <3>1, <3>3 DEF ClientStates
      <4>2. users = {c} /\ \E w \in Workers : worker[w].at = "absent"
        BY <3>3 DEF CallsInOrder, InOrder
      <4>3. users' = {c} /\ \E w \in Workers : worker'[w].at = "absent"
        BY <2>1, <4>2
      <4> QED BY <4>1, <4>3 DEF InOrder
    <3> QED BY <2>s, <2>f, <3>1, <3>2, <3>3
  <2>6. CASE FlushDevice(c) \/ \E d : PutOperation(c, d)
    <3>1. /\ client'[c].at \in {"put", "await"} /\ client'[c].call \in {"operate", "flush"}
      BY <1>0, <2>6 DEF FlushDevice, PutOperation, ClientStates
    <3> QED BY <3>1 DEF InOrder
  <2>7. CASE Await(c)
    <3>1. client'[c].at = "await" /\ client'[c].call = client[c].call
      BY <1>0, <2>7 DEF Await, ClientStates
    <3>2. client[c].call = "restart" => /\ users = {c} 
                                        /\ \E w \in Workers : worker[w].at = "absent"
      BY DEF CallsInOrder, InOrder
    <3> QED BY <2>1, <3>1, <3>2 DEF InOrder
  <2>8. CASE Awaited(c)
    <3>1. client'[c] = Free \/ (client'[c].at = "ask" /\ client'[c].call = "flush")
      <4>1. CASE client[c].call = "flush"
        <5>1. client' = [client EXCEPT ![c].at = "ask"]
          BY <2>8, <4>1 DEF Awaited
        <5> QED BY <1>0, <4>1, <5>1 DEF ClientStates
      <4>2. CASE client[c].call # "flush"
        <5>1. client' = [client EXCEPT ![c] = Free]
          BY <2>8, <4>2 DEF Awaited
        <5> QED BY <1>0, <5>1
      <4> QED BY <4>1, <4>2
    <3> QED BY <2>f, <3>1 DEF InOrder
  <2>9. CASE Stop(c)
    <3>1. /\ client[c].at = "stop" /\ client'[c].at = "join" /\ client'[c].call = client[c].call
          /\ client'[c].i = client[c].i
      BY <1>0, <2>9 DEF Stop, ClientStates
    <3>2. /\ client[c].call \in {"restart", "destroy"}
          /\ \A j \in 1..numGpus : j < client[c].i => worker[threads[j]].at = "gone"
          /\ client[c].call = "restart" => users = {c} /\ \E w \in Workers : worker[w].at = "absent"
      BY <3>1 DEF CallsInOrder, InOrder
    <3>3. \A j \in 1..numGpus' : j < client'[c].i => worker'[threads'[j]].at = "gone"
      BY <1>0, <2>1, <3>1, <3>2
    <3> QED BY <2>1, <3>1, <3>2, <3>3 DEF InOrder
  <2>10. CASE Join(c)
    <3>1. /\ client[c].at = "join" /\ worker[threads[client[c].i]].at = "gone" /\ UNCHANGED worker
          /\ \/ /\ client'[c].at = "stop" /\ client'[c].i = client[c].i + 1
                /\ client'[c].call = client[c].call
             \/ client'[c].at = "left" /\ client'[c].call = "destroy"
      <4>1. client[c].call \in {"restart", "destroy"} /\ client[c].at = "join"
        BY <2>10 DEF Join, CallsInOrder, InOrder
      <4>2. CASE client[c].i = Len(threads)
        BY <1>0, <1>2, <2>10, <4>1, <4>2 DEF Join, Renews, ClientStates
      <4>3. CASE client[c].i # Len(threads)
        BY <1>0, <1>2, <2>10, <4>1, <4>3 DEF Join, Renews, ClientStates
      <4> QED BY <4>2, <4>3
    <3>2. /\ client[c].call \in {"restart", "destroy"} /\ client[c].i \in Nat
          /\ \A j \in 1..numGpus : j < client[c].i => worker[threads[j]].at = "gone"
          /\ client[c].call = "restart" => users = {c} /\ \E w \in Workers : worker[w].at = "absent"
      BY <1>0, <3>1 DEF CallsInOrder, InOrder, ClientStates
    <3>3. client'[c].i = client[c].i + 1 =>
              \A j \in 1..numGpus' : j < client'[c].i => worker'[threads'[j]].at = "gone"
      BY <2>1, <3>1, <3>2
    <3> QED BY <2>1, <3>1, <3>2, <3>3 DEF InOrder
  <2>11. CASE Wait(c)
    <3>1. client'[c].at = "await" /\ client'[c].call = "none"
      BY <1>0, <2>11 DEF Wait, MayCall, ClientStates
    <3> QED BY <3>1 DEF InOrder
  <2>12. CASE Flush(c) \/ \E t \in Operations : Operate(c, t)
    <3>1. client'[c].at \in {"put", "ask"} /\ client'[c].call \in {"flush", "operate"}
      BY <1>0, <2>12 DEF Flush, Operate, Free
    <3> QED BY <3>1 DEF InOrder
  <2>13. CASE Restart(c)
    <3>1. /\ client'[c].at = "ask" /\ client'[c].call = "restart" /\ client'[c].i = 1
          /\ users = {c} /\ \E w \in Workers : worker[w].at = "absent"
      BY <1>0, <2>13 DEF Restart, Free
    <3> QED BY <2>1, <3>1 DEF InOrder
  <2>14. CASE Destroy(c)
    <3>1. client'[c].at = "stop" /\ client'[c].call = "destroy" /\ client'[c].i = 1
      BY <1>0, <2>14 DEF Destroy, Free
    <3> QED BY <3>1 DEF InOrder
  <2> QED BY <1>2, <2>4, <2>5, <2>6, <2>7, <2>8, <2>9, <2>10, <2>11, <2>12, <2>13, <2>14
          DEF ClientStep, ClientCall
<1>3. ASSUME NEW c \in Clients, Renews(c) PROVE CallsInOrder'
  <2>1. users' = users /\ users = {c} /\ client' = [client EXCEPT ![c] = Free]
    BY <1>3, RenewsEffect
  <2>2. \A d \in Clients : client'[d] = Free
    BY <1>0, <2>1 DEF CallsInOrder
  <2> QED BY <1>0, <2>2 DEF CallsInOrder, InOrder
<1>4. CASE Closed \/ UNCHANGED vars
  BY <1>4 DEF Closed, vars, pool, work, calls, CallsInOrder, InOrder
<1> QED BY <1>1, <1>2, <1>3, <1>4 DEF Next

-----------------------------------------------------------------------------
(* Tasks that are about to be enqueued. *)

LEMMA PutTicket ==
  ASSUME TypeOK, NEW c, NEW t, NEW d, Put(c, t, d)
  PROVE  \A u \in Tasks : u # t => ticket'[u] = ticket[u]
  BY DEF Put, TypeOK

(* The synchronising tasks are each its client's and device's own, and no operation. *)
LEMMA SynchApart ==
  ASSUME NEW c \in Flushers, NEW d \in Flushers, NEW p \in Devices, NEW q \in Devices
  PROVE  /\ Synch[<<c, p>>] \in Tasks \ (Curious \cup Faulty) /\ Synch[<<c, p>>] \notin Operations
         /\ Synch[<<c, p>>] = Synch[<<d, q>>] => c = d /\ p = q
<1>1. <<c, p>> \in Flushers \X Devices /\ <<d, q>> \in Flushers \X Devices
  OBVIOUS
<1> QED BY <1>1, SynchAssumption DEF Operations

(* The task whose ticket a client's step changes was new, and reserved by nobody else. *)
LEMMA TicketEffect ==
  ASSUME TypeOK, Reserved, NEW c \in Clients, ClientStep(c) \/ ClientCall(c)
  PROVE  \/ UNCHANGED ticket
         \/ \E u \in Tasks :
              /\ ticket[u] = "none" /\ \A v \in Tasks : v # u => ticket'[v] = ticket[v]
              /\ \/ New(u) /\ u \in Operations /\ UNCHANGED client
                 \/ /\ client[c].call = "operate" /\ u = client[c].task /\ client[c].at \in {"ask", "put"}
                    /\ client'[c].at \notin {"ask", "put"} \/ client'[c] = Free
                 \/ /\ client[c].call = "flush" /\ client[c].at = "put" /\ u = Synch[<<c, client[c].i>>]
                    /\ c \in Flushers /\ client[c].i \in Devices
<1>0. Operations \subseteq Tasks /\ client \in [Clients -> ClientStates] /\ DOMAIN ticket = Tasks
  BY DEF TypeOK, Operations, ClientStates, Holding
<1>1. CASE Answered(c)
  <2>1. CASE client[c].call = "operate" /\ SaysNo(c)
    <3>1. ticket' = [ticket EXCEPT ![client[c].task] = "direct"] /\ client[c].at = "ask"
      BY <1>1, <2>1 DEF Answered
    <3>2. client[c].task \in Tasks /\ ticket[client[c].task] = "none"
      BY <1>0, <2>1, <3>1 DEF Reserved, InReserve
    <3>3. client'[c] = Free
      BY <1>0, <1>1, <2>1 DEF Answered, SaysNo, SaysYes
    <3> QED BY <1>0, <2>1, <3>1, <3>2, <3>3
  <2>2. CASE ~(client[c].call = "operate" /\ SaysNo(c))
    BY <1>1, <2>2 DEF Answered
  <2> QED BY <2>1, <2>2
<1>2. ASSUME NEW d, PutOperation(c, d)
      PROVE \E u \in Tasks :
              /\ ticket[u] = "none" /\ \A v \in Tasks : v # u => ticket'[v] = ticket[v]
              /\ client[c].call = "operate" /\ u = client[c].task /\ client[c].at \in {"ask", "put"}
              /\ client'[c].at \notin {"ask", "put"}
  <2>1. /\ client[c].task \in Tasks /\ ticket[client[c].task] = "none"
        /\ client[c].at = "put" /\ client[c].call = "operate"
    BY <1>0, <1>2 DEF PutOperation, Reserved, InReserve
  <2>2. client'[c].at = "await"
    BY <1>0, <1>2 DEF PutOperation, ClientStates
  <2> QED BY <1>2, <2>1, <2>2, PutTicket DEF PutOperation
<1>3. CASE FlushDevice(c)
  <2>1. /\ client[c].at = "put" /\ client[c].call = "flush" /\ c \in Flushers
        /\ client[c].i \in 1..numGpus /\ \A q \in Devices : q >= client[c].i => ticket[Synch[<<c, q>>]] = "none"
    BY <1>3 DEF FlushDevice, Reserved, InReserve
  <2>2. client[c].i \in Devices /\ client[c].i \in Nat
    BY <2>1, NumGpusAssumption DEF TypeOK, Devices
  <2>3. Synch[<<c, client[c].i>>] \in Tasks /\ ticket[Synch[<<c, client[c].i>>]] = "none"
    BY <2>1, <2>2, SynchApart
  <2> QED BY <1>3, <2>1, <2>2, <2>3, PutTicket DEF FlushDevice
<1>4. ASSUME NEW t \in Operations, NEW d, Enqueue(c, t, d)
      PROVE \E u \in Tasks : /\ ticket[u] = "none" /\ \A v \in Tasks : v # u => ticket'[v] = ticket[v]
                             /\ New(u) /\ u \in Operations /\ UNCHANGED client
  BY <1>0, <1>4, PutTicket DEF Enqueue, New
<1>5. CASE \/ AskOn(c) \/ Await(c) \/ Awaited(c) \/ Wait(c) \/ Stop(c) \/ Join(c)
           \/ Flush(c) \/ Restart(c) \/ Destroy(c) \/ \E t \in Operations : Operate(c, t)
  BY <1>5 DEF AskOn, Await, Awaited, Wait, Stop, Join, Flush, Restart, Destroy, Operate
<1>6. CASE \E d \in 0..NumGpus : PutOperation(c, d)
  <2>1. PICK d \in 0..NumGpus : PutOperation(c, d)
    BY <1>6
  <2> QED BY <1>2, <2>1
<1>7. CASE \E t \in Operations, d \in 0..NumGpus : Enqueue(c, t, d)
  <2>1. PICK t \in Operations, d \in 0..NumGpus : Enqueue(c, t, d)
    BY <1>7
  <2> QED BY <1>4, <2>1
<1> QED BY <1>1, <1>3, <1>5, <1>6, <1>7 DEF ClientStep, ClientCall

(* A thread of the pool changes the ticket of no task but its own. *)
LEMMA WorkerTicket ==
  ASSUME TypeOK, TaskInOnePlace, NEW w \in Workers, WorkerStep(w) \/ SpuriousWakeup(w)
  PROVE  \A u \in Tasks : ticket'[u] # ticket[u] =>
             ticket[u] = "open" /\ ticket'[u] = "done" /\ Mark(w) /\ u = worker[w].task
<1>1. CASE Mark(w)
  BY <1>1 DEF Mark, TaskInOnePlace, TypeOK
<1>2. CASE ~Mark(w)
  <2>1. UNCHANGED ticket
    BY <1>2 DEF WorkerStep, Look, LookAgain, Check, SpuriousWakeup, Run, Ask, AskOn, RunAnswered, SetIdle
  <2> QED BY <2>1
<1> QED BY <1>1, <1>2

(* The task a client's step names is its last one, or a new one. *)
LEMMA ClientTask ==
  ASSUME TypeOK, Reserved, CallsInOrder, NEW c \in Clients, ClientStep(c) \/ ClientCall(c)
  PROVE  \/ client'[c].task \in {client[c].task, NoTask}
         \/ \A d \in Clients : client[d].task # client'[c].task
<1>0. client \in [Clients -> ClientStates] /\ Free.task = NoTask
  BY DEF TypeOK, ClientStates, Holding, Free
<1>1. CASE Answered(c)
  <2>1. client[c].call \in {"operate", "flush", "restart"}
    BY <1>1 DEF Answered, CallsInOrder, InOrder
  <2>2. \/ client'[c] \in {Free, client[c]}
        \/ \E p : client'[c] = [client[c] EXCEPT !.at = p]
    BY <1>0, <1>1, <2>1 DEF Answered
  <2> QED BY <1>0, <2>2 DEF ClientStates
<1>2. CASE FlushDevice(c) \/ Await(c) \/ Stop(c) \/ Wait(c) \/ \E d \in 0..NumGpus : PutOperation(c, d)
  BY <1>0, <1>2 DEF FlushDevice, Await, Stop, Wait, PutOperation, ClientStates
<1>3. CASE Awaited(c)
  <2>1. client' = [client EXCEPT ![c].at = "ask"] \/ client' = [client EXCEPT ![c] = Free]
    BY <1>3 DEF Awaited
  <2> QED BY <1>0, <2>1 DEF ClientStates
<1>4. CASE Join(c)
  <2>1. client[c].call \in {"restart", "destroy"}
    BY <1>4 DEF Join, CallsInOrder, InOrder
  <2>2. \/ client'[c] = Free
        \/ \E p : client'[c] = [client[c] EXCEPT !.at = p]
        \/ \E p, n : client'[c] = [client[c] EXCEPT !.at = p, !.i = n]
    BY <1>0, <1>4, <2>1 DEF Join
  <2> QED BY <1>0, <2>2 DEF ClientStates
<1>5. CASE Flush(c) \/ Restart(c) \/ Destroy(c)
  BY <1>0, <1>5 DEF Flush, Restart, Destroy, Free
<1>6. CASE \E t \in Operations : Operate(c, t)
  BY <1>0, <1>6 DEF Operate, New, Free
<1>7. CASE AskOn(c) \/ \E t \in Operations, d \in 0..NumGpus : Enqueue(c, t, d)
  BY <1>7 DEF AskOn, Enqueue, calls
<1> QED BY <1>1, <1>2, <1>3, <1>4, <1>5, <1>6, <1>7 DEF ClientStep, ClientCall

(* Another client's reservations stand. *)
LEMMA ReserveFrame ==
  ASSUME TypeOK, Reserved, CallsInOrder, NEW c \in Clients, ClientStep(c) \/ ClientCall(c),
         NEW d \in Clients, d # c, UNCHANGED numGpus
  PROVE  InReserve(d)'
<1>0. client'[d] = client[d] /\ InReserve(d) /\ Operations \subseteq Tasks
  BY ClientFrame DEF Reserved, Operations
<1>1. CASE UNCHANGED ticket
  BY <1>0, <1>1 DEF InReserve
<1>2. CASE ~UNCHANGED ticket
  <2>1. PICK u \in Tasks :
              /\ ticket[u] = "none" /\ \A v \in Tasks : v # u => ticket'[v] = ticket[v]
              /\ \/ New(u) /\ u \in Operations
                 \/ client[c].call = "operate" /\ u = client[c].task
                 \/ u = Synch[<<c, client[c].i>>] /\ c \in Flushers /\ client[c].i \in Devices
    BY <1>2, TicketEffect
  <2>2. \/ u \in Operations /\ u # client[d].task
        \/ u \notin Operations /\ \A q \in Devices : d \in Flushers => u # Synch[<<d, q>>]
    <3>1. CASE New(u) /\ u \in Operations
      BY <3>1 DEF New
    <3>2. CASE client[c].call = "operate" /\ u = client[c].task
      <4>1. u \in Operations /\ u # NoTask
        BY <1>0, <3>2, TasksAssumption DEF Reserved, InReserve
      <4> QED BY <3>2, <4>1 DEF Reserved
    <3>3. CASE u = Synch[<<c, client[c].i>>] /\ c \in Flushers /\ client[c].i \in Devices
      BY <3>3, SynchApart
    <3> QED BY <2>1, <3>1, <3>2, <3>3
  <2>3. client[d].call = "operate" => client[d].task \in Operations /\ u # client[d].task
    BY <1>0, <2>2 DEF InReserve
  <2>4. d \in Flushers => \A q \in Devices : Synch[<<d, q>>] \in Tasks \ {u}
    BY <2>2, SynchApart
  <2> QED BY <1>0, <2>1, <2>3, <2>4 DEF InReserve
<1> QED BY <1>1, <1>2

(* The acting client's own. *)
LEMMA ReserveStep ==
  ASSUME TypeOK, Reserved, CallsInOrder, NEW c \in Clients, ClientStep(c) \/ ClientCall(c), ~Renews(c)
  PROVE  InReserve(c)'
<1>0. /\ client \in [Clients -> ClientStates] /\ Operations \subseteq Tasks /\ InReserve(c)
      /\ Free.task = NoTask /\ Free.call = "none" /\ Free.at = "free" /\ Free.i = 1 /\ DOMAIN ticket = Tasks
      /\ UNCHANGED numGpus /\ numGpus \in Nat \ {0} /\ Devices = 1..NumGpus /\ numGpus <= NumGpus
  BY ClientEffect, NumGpusAssumption DEF TypeOK, ClientStates, Holding, Operations, Reserved, Free, Devices
<1>f. client'[c] = Free => InReserve(c)'
  BY <1>0 DEF InReserve
<1>k. ASSUME client'[c].at # "put", client'[c].at # "ask", client'[c].task = client[c].task,
             client'[c].call = client[c].call
      PROVE  InReserve(c)'
  BY <1>0, <1>k DEF InReserve
<1>1. CASE AskOn(c)
  BY <1>0, <1>1 DEF AskOn, calls, InReserve
<1>2. CASE Answered(c)
  <2>1. client[c].call \in {"operate", "flush", "restart"} /\ client[c].at = "ask"
    BY <1>2 DEF Answered, CallsInOrder, InOrder
  <2>2. CASE client[c].call = "operate"
    <3>1. CASE SaysYes(c)
      <4>1. client'[c] = [client[c] EXCEPT !.at = "put"] /\ UNCHANGED ticket
        BY <1>0, <1>2, <2>2, <3>1 DEF Answered, SaysYes, SaysNo
      <4> QED BY <1>0, <2>1, <2>2, <4>1 DEF InReserve, ClientStates
    <3>2. CASE ~SaysYes(c)
      BY <1>0, <1>f, <1>2, <2>2, <3>2 DEF Answered
    <3> QED BY <3>1, <3>2
  <2>3. CASE client[c].call = "flush"
    <3>1. client'[c] \in {Free, client[c]} /\ UNCHANGED ticket
      BY <1>0, <1>2, <2>3 DEF Answered
    <3> QED BY <1>0, <1>f, <2>1, <2>3, <3>1 DEF InReserve
  <2>4. CASE client[c].call = "restart"
    <3>1. client'[c] = Free \/ client'[c] = [client[c] EXCEPT !.at = "stop"]
      BY <1>0, <1>2, <2>4 DEF Answered
    <3> QED BY <1>0, <1>f, <1>k, <3>1 DEF ClientStates
  <2> QED BY <2>1, <2>2, <2>3, <2>4
<1>3. ASSUME NEW d, PutOperation(c, d) PROVE InReserve(c)'
  <2>1. client'[c] = [client[c] EXCEPT !.at = "await"]
    BY <1>0, <1>3 DEF PutOperation
  <2> QED BY <1>0, <1>k, <2>1 DEF ClientStates
<1>4. CASE FlushDevice(c)
  <2>1. CASE client[c].i = numGpus
    <3>1. client'[c] = [client[c] EXCEPT !.at = "await"]
      BY <1>0, <1>4, <2>1 DEF FlushDevice
    <3> QED BY <1>0, <1>k, <3>1 DEF ClientStates
  <2>2. CASE client[c].i # numGpus
    <3>1. /\ client'[c].i = client[c].i + 1 /\ client'[c].at = "put"
          /\ client'[c].call = "flush" /\ client'[c].task = client[c].task
      BY <1>0, <1>4, <2>2 DEF FlushDevice, ClientStates
    <3>2. /\ c \in Flushers /\ client[c].i \in 1..numGpus /\ client[c].call = "flush"
          /\ \A q \in Devices : q >= client[c].i => ticket[Synch[<<c, q>>]] = "none"
      BY <1>0, <1>4 DEF FlushDevice, InReserve
    <3>3. client'[c].i \in 1..numGpus' /\ client[c].i \in Devices
      <4>1. client[c].i \in 1..numGpus /\ numGpus' = numGpus /\ numGpus \in Nat /\ NumGpus \in Nat
        BY <1>0, <3>2, NumGpusAssumption
      <4> QED BY <1>0, <2>2, <3>1, <4>1
    <3>4. \A q \in Devices : q >= client'[c].i => ticket'[Synch[<<c, q>>]] = "none"
      <4> SUFFICES ASSUME NEW q \in Devices, q >= client'[c].i PROVE ticket'[Synch[<<c, q>>]] = "none"
        OBVIOUS
      <4>1. q >= client[c].i /\ q # client[c].i
        BY <1>0, <3>1, <3>2
      <4>2. Synch[<<c, q>>] \in Tasks /\ Synch[<<c, q>>] # Synch[<<c, client[c].i>>]
        BY <3>2, <3>3, <4>1, SynchApart
      <4>3. ticket'[Synch[<<c, q>>]] = ticket[Synch[<<c, q>>]]
        BY <1>4, <4>2, PutTicket DEF FlushDevice
      <4> QED BY <3>2, <4>1, <4>3
    <3> QED BY <1>0, <3>1, <3>2, <3>3, <3>4 DEF InReserve
  <2> QED BY <2>1, <2>2
<1>5. CASE Await(c)
  <2>1. client'[c] = [client[c] EXCEPT !.i = client[c].i - 1] /\ client[c].at = "await"
    BY <1>0, <1>5 DEF Await, ClientStates
  <2> QED BY <1>0, <1>k, <2>1 DEF ClientStates
<1>6. CASE Awaited(c)
  <2>1. CASE client[c].call = "flush"
    <3>1. client' = [client EXCEPT ![c].at = "ask"] /\ UNCHANGED ticket
      BY <1>6, <2>1 DEF Awaited
    <3> QED BY <1>0, <2>1, <3>1 DEF InReserve, ClientStates
  <2>2. CASE client[c].call # "flush"
    <3>1. client' = [client EXCEPT ![c] = Free]
      BY <1>6, <2>2 DEF Awaited
    <3> QED BY <1>0, <1>f, <3>1
  <2> QED BY <2>1, <2>2
<1>7. CASE Stop(c)
  <2>1. client'[c] = [client[c] EXCEPT !.at = "join"]
    BY <1>0, <1>7 DEF Stop
  <2> QED BY <1>0, <1>k, <2>1 DEF ClientStates
<1>8. CASE Join(c)
  <2>1. client[c].call \in {"restart", "destroy"}
    BY <1>8 DEF Join, CallsInOrder, InOrder
  <2>2. \/ client'[c] = [client[c] EXCEPT !.at = "left"]
        \/ client'[c] = [client[c] EXCEPT !.at = "stop", !.i = client[c].i + 1]
        \/ client'[c] = Free
    BY <1>0, <1>8, <2>1 DEF Join
  <2> QED BY <1>0, <1>f, <1>k, <2>2 DEF ClientStates
<1>9. CASE Wait(c)
  <2>1. client'[c].at = "await" /\ client'[c].task = client[c].task /\ client'[c].call = client[c].call
    BY <1>0, <1>9 DEF Wait, ClientStates
  <2> QED BY <1>k, <2>1
<1>10. CASE Flush(c)
  <2>1. /\ client'[c].at = "put" /\ client'[c].call = "flush" /\ client'[c].i = 1 /\ client'[c].task = NoTask
        /\ c \in Flushers /\ \A q \in Devices : ticket'[Synch[<<c, q>>]] = "none"
    BY <1>0, <1>10 DEF Flush, Free
  <2> QED BY <1>0, <2>1 DEF InReserve
<1>11. CASE Restart(c) \/ Destroy(c)
  <2>1. client'[c].at # "put" /\ client'[c].call \notin {"operate"} /\ client'[c].task = NoTask
    BY <1>0, <1>11 DEF Restart, Destroy, Free
  <2> QED BY <2>1 DEF InReserve
<1>12. ASSUME NEW t \in Operations, Operate(c, t) PROVE InReserve(c)'
  <2>1. /\ client'[c].at = "ask" /\ client'[c].call = "operate" /\ client'[c].task = t
        /\ ticket'[t] = "none"
    BY <1>0, <1>12 DEF Operate, New, Free
  <2> QED BY <2>1 DEF InReserve
<1>13. ASSUME NEW t \in Operations, NEW d, Enqueue(c, t, d) PROVE InReserve(c)'
  <2>1. client[c] = Free /\ UNCHANGED client
    BY <1>13 DEF Enqueue, MayCall
  <2> QED BY <1>f, <2>1
<1> QED BY <1>1, <1>2, <1>3, <1>4, <1>5, <1>6, <1>7, <1>8, <1>9, <1>10, <1>11, <1>12, <1>13
    DEF ClientStep, ClientCall

LEMMA ReservedNext ==
  ASSUME TypeOK, CallsInOrder, ThreadsInPlace, Reserved, TaskInOnePlace, [Next]_vars
  PROVE  Reserved'
<1>0. NoTask \notin Operations /\ Operations \subseteq Tasks
  BY TasksAssumption DEF Operations
<1>1. ASSUME NEW w \in Workers, WorkerStep(w) \/ SpuriousWakeup(w) PROVE Reserved'
  <2>1. UNCHANGED <<numGpus, client>>
    BY <1>1, WorkerEffect DEF pool, calls
  <2>2. \A u \in Tasks : ticket[u] = "none" => ticket'[u] = "none"
    BY <1>1, WorkerTicket
  <2>3. \A c \in Flushers, q \in Devices : Synch[<<c, q>>] \in Tasks
    BY SynchApart
  <2> QED BY <1>0, <2>1, <2>2, <2>3 DEF Reserved, InReserve
<1>2. ASSUME NEW c \in Clients, ClientStep(c) \/ ClientCall(c) PROVE Reserved'
  <2>1. \A d \in Clients : d # c => client'[d] = client[d]
    BY <1>2, ClientFrame
  <2>2. /\ \/ client'[c].task \in {client[c].task, NoTask}
           \/ \A d \in Clients : client[d].task # client'[c].task
        /\ \A d, e \in Clients : client[d].task = client[e].task /\ client[d].task # NoTask => d = e
    BY <1>2, ClientTask DEF Reserved
  <2>3. \A d, e \in Clients : client'[d].task = client'[e].task /\ client'[d].task # NoTask => d = e
    BY <2>1, <2>2
  <2>4. \A d \in Clients : InReserve(d)'
    <3>1. CASE Renews(c)
      <4>1. users = {c} /\ client' = [client EXCEPT ![c] = Free]
        BY <3>1, RenewsEffect
      <4>2. \A d \in Clients : client'[d] = Free
        BY <4>1 DEF CallsInOrder, TypeOK
      <4> QED BY <4>2 DEF InReserve, Free
    <3>2. CASE ~Renews(c)
      BY <1>2, <3>2, ClientEffect, ReserveFrame, ReserveStep
    <3> QED BY <3>1, <3>2
  <2> QED BY <2>3, <2>4 DEF Reserved
<1>3. CASE Closed \/ UNCHANGED vars
  BY <1>3 DEF Closed, vars, pool, work, calls, Reserved, InReserve
<1> QED BY <1>1, <1>2, <1>3 DEF Next

-----------------------------------------------------------------------------
(* Tasks in one place, and the flags of the threads that have them. *)

(* What pick_work() leaves in the queues is what comes after the front. *)
LEMMA Popped ==
  ASSUME TypeOK, NEW q \in Devices, queue[q] # <<>>, queue' = [queue EXCEPT ![q] = Tail(@)]
  PROVE  /\ 1 \in 1..Len(queue[q]) /\ Head(queue[q]) = queue[q][1] /\ queue[q][1] \in Tasks
         /\ \A p \in Devices : \A i \in 1..Len(queue'[p]) :
                \E j \in 1..Len(queue[p]) : /\ queue'[p][i] = queue[p][j]
                                            /\ j = IF p = q THEN i + 1 ELSE i
<1>1. queue \in [Devices -> Seq(Tasks)] /\ queue[q] \in Seq(Tasks)
  BY DEF TypeOK
<1>2. /\ Len(queue[q]) \in Nat /\ Len(queue[q]) # 0
      /\ Head(queue[q]) = queue[q][1] /\ Head(queue[q]) \in Tasks
      /\ Tail(queue[q]) \in Seq(Tasks) /\ Len(Tail(queue[q])) = Len(queue[q]) - 1
      /\ \A i \in 1..Len(Tail(queue[q])) : Tail(queue[q])[i] = queue[q][i + 1]
  BY <1>1, HeadTailProperties, EmptySeq, LenProperties
<1>3. queue'[q] = Tail(queue[q]) /\ \A p \in Devices : p # q => queue'[p] = queue[p]
  BY <1>1
<1>4. ASSUME NEW p \in Devices, NEW i \in 1..Len(queue'[p])
      PROVE  \E j \in 1..Len(queue[p]) : /\ queue'[p][i] = queue[p][j]
                                         /\ j = IF p = q THEN i + 1 ELSE i
  <2>1. CASE p = q
    <3>1. i \in 1..Len(Tail(queue[q]))
      BY <1>3, <2>1
    <3>2. i + 1 \in 1..Len(queue[q])
      BY <1>2, <3>1
    <3>3. queue'[p][i] = queue[p][i + 1]
      BY <1>2, <1>3, <2>1, <3>1
    <3> QED BY <2>1, <3>2, <3>3
  <2>2. CASE p # q
    BY <1>3, <2>2
  <2> QED BY <2>1, <2>2
<1> QED BY <1>2, <1>4

LEMMA PoppedBack ==
  ASSUME TypeOK, NEW q \in Devices, queue[q] # <<>>, queue' = [queue EXCEPT ![q] = Tail(@)],
         NEW r \in Devices, NEW j \in 1..Len(queue[r])
  PROVE  (r = q /\ j = 1) \/ \E i \in 1..Len(queue'[r]) : queue'[r][i] = queue[r][j]
<1>1. queue \in [Devices -> Seq(Tasks)] /\ queue[q] \in Seq(Tasks)
  BY DEF TypeOK
<1>2. /\ Len(queue[q]) \in Nat /\ Len(Tail(queue[q])) = Len(queue[q]) - 1
      /\ \A i \in 1..Len(Tail(queue[q])) : Tail(queue[q])[i] = queue[q][i + 1]
  BY <1>1, HeadTailProperties, LenProperties
<1>3. queue'[q] = Tail(queue[q]) /\ \A p \in Devices : p # q => queue'[p] = queue[p]
  BY <1>1
<1>4. CASE r # q
  BY <1>3, <1>4
<1>5. CASE r = q /\ j # 1
  <2>1. PICK i \in 1..Len(Tail(queue[q])) : i + 1 = j
    <3>1. j - 1 \in 1..Len(Tail(queue[q])) /\ (j - 1) + 1 = j
      BY <1>2, <1>5
    <3> QED BY <3>1
  <2>2. Tail(queue[q])[i] = queue[q][j]
    BY <1>2, <2>1
  <2> QED BY <1>3, <1>5, <2>1, <2>2
<1> QED BY <1>4, <1>5

LEMMA Pushed ==
  ASSUME TypeOK, NEW q, NEW t \in Tasks, queue' = [queue EXCEPT ![q] = Append(@, t)],
         NEW p \in Devices, NEW i \in 1..Len(queue'[p])
  PROVE  \/ i \in 1..Len(queue[p]) /\ queue'[p][i] = queue[p][i]
         \/ p = q /\ i = Len(queue[p]) + 1 /\ queue'[p][i] = t
<1>1. queue \in [Devices -> Seq(Tasks)] /\ queue[p] \in Seq(Tasks)
  BY DEF TypeOK
<1>2. /\ Len(queue[p]) \in Nat /\ Len(Append(queue[p], t)) = Len(queue[p]) + 1
      /\ \A j \in 1..Len(queue[p]) : Append(queue[p], t)[j] = queue[p][j]
      /\ Append(queue[p], t)[Len(queue[p]) + 1] = t
  BY <1>1, AppendProperties, LenProperties
<1>3. queue'[p] = IF p = q THEN Append(queue[p], t) ELSE queue[p]
  BY <1>1
<1> QED BY <1>2, <1>3

(* The parts of TaskInOnePlace about the queues are kept by a step that    *)
(* takes nothing out but a front.                                          *)
LEMMA OnePlaceWorker ==
  ASSUME TypeOK, TaskInOnePlace, AskersRun, NEW w \in Workers, WorkerStep(w) \/ SpuriousWakeup(w)
  PROVE  TaskInOnePlace'
<1>0. /\ worker \in [Workers -> WorkerStates] /\ Home(w) \in Devices
      /\ \A v \in Workers : v # w => worker'[v] = worker[v]
      /\ NoTask \notin Tasks /\ DOMAIN ticket = Tasks
      /\ \A q \in Devices : \A i \in 1..Len(queue[q]) : queue[q][i] \in Tasks
  <2>1. \A q \in Devices : queue[q] \in Seq(Tasks)
    BY DEF TypeOK
  <2>2. \A q \in Devices : \A i \in 1..Len(queue[q]) : queue[q][i] \in Tasks
    BY <2>1, ElementOfSeq
  <2> QED BY <2>2, WorkerEffect, HomeType, TasksAssumption DEF TypeOK, WorkerStates, Holding
<1>k. ASSUME UNCHANGED <<queue, ticket>>, worker'[w].task \in {worker[w].task, NoTask},
             worker'[w].task # NoTask <=> worker'[w].at \in Busied \cup {"mark"},
             worker'[w].at \in {"ran", "mark"} => worker'[w].task \notin Faulty
      PROVE  TaskInOnePlace'
  <2>1. \A v \in Workers : worker'[v].task \in {worker[v].task, NoTask}
    BY <1>0, <1>k
  <2>2. \A p, q \in Devices : \A i \in 1..Len(queue'[p]) : \A j \in 1..Len(queue'[q]) :
           queue'[p][i] = queue'[q][j] => p = q /\ i = j
    BY <1>k DEF TaskInOnePlace
  <2>3. \A q \in Devices : \A i \in 1..Len(queue'[q]) :
           /\ ticket'[queue'[q][i]] = "open"
           /\ \A v \in Workers : worker'[v].task # queue'[q][i]
    BY <1>0, <1>k, <2>1 DEF TaskInOnePlace
  <2>4. \A v \in Workers :
           /\ worker'[v].task # NoTask <=> worker'[v].at \in Busied \cup {"mark"}
           /\ worker'[v].task # NoTask => ticket'[worker'[v].task] = "open"
           /\ worker'[v].at \in {"ran", "mark"} => worker'[v].task \notin Faulty
    BY <1>0, <1>k, <2>1 DEF TaskInOnePlace
  <2>5. \A v, u \in Workers : worker'[v].task = worker'[u].task /\ worker'[v].task # NoTask => v = u
    BY <2>1 DEF TaskInOnePlace
  <2> QED BY <2>2, <2>3, <2>4, <2>5 DEF TaskInOnePlace
<1>1. CASE Look(w) \/ LookAgain(w)
  <2>1. PICK p \in {"check", "wait"} : PickWork(w, p)
    BY <1>1 DEF Look, LookAgain
  <2>2. UNCHANGED ticket /\ worker[w].at \in {"top", "woken", "pick"}
    BY <1>1 DEF Look, LookAgain
  <2>3. worker[w].task = NoTask
    BY <2>2 DEF TaskInOnePlace, Busied
  <2>4. CASE queue[Home(w)] = <<>>
    <3>1. worker'[w] = At(p, NoTask) /\ UNCHANGED queue
      BY <1>0, <2>1, <2>4 DEF PickWork
    <3> QED BY <1>k, <2>1, <2>2, <3>1, AtType DEF Busied
  <2>5. CASE queue[Home(w)] # <<>>
    <3> DEFINE h == Head(queue[Home(w)])
    <3>1. /\ worker'[w] = At("run", h) /\ queue' = [queue EXCEPT ![Home(w)] = Tail(@)]
      BY <1>0, <2>1, <2>5 DEF PickWork
    <3>2. /\ h = queue[Home(w)][1] /\ h \in Tasks /\ 1 \in 1..Len(queue[Home(w)])
          /\ \A p2 \in Devices : \A i \in 1..Len(queue'[p2]) :
                \E j \in 1..Len(queue[p2]) : /\ queue'[p2][i] = queue[p2][j]
                                             /\ j = IF p2 = Home(w) THEN i + 1 ELSE i
      BY <1>0, <2>5, <3>1, Popped
    <3> HIDE DEF h
    <3>3. worker'[w].at = "run" /\ worker'[w].task = h /\ h # NoTask
      BY <1>0, <3>1, <3>2, AtType
    <3>4. ticket[h] = "open" /\ \A v \in Workers : worker[v].task # h
      BY <1>0, <3>2 DEF TaskInOnePlace
    <3>5. \A p1, p2 \in Devices : \A i \in 1..Len(queue'[p1]) : \A j \in 1..Len(queue'[p2]) :
              queue'[p1][i] = queue'[p2][j] => p1 = p2 /\ i = j
      <4> SUFFICES ASSUME NEW p1 \in Devices, NEW p2 \in Devices, NEW i \in 1..Len(queue'[p1]),
                          NEW j \in 1..Len(queue'[p2]), queue'[p1][i] = queue'[p2][j]
                   PROVE  p1 = p2 /\ i = j
        OBVIOUS
      <4>1. PICK i2 \in 1..Len(queue[p1]) : /\ queue'[p1][i] = queue[p1][i2]
                                            /\ i2 = IF p1 = Home(w) THEN i + 1 ELSE i
        BY <3>2
      <4>2. PICK j2 \in 1..Len(queue[p2]) : /\ queue'[p2][j] = queue[p2][j2]
                                            /\ j2 = IF p2 = Home(w) THEN j + 1 ELSE j
        BY <3>2
      <4>3. queue[p1][i2] = queue[p2][j2]
        BY <4>1, <4>2
      <4>4. p1 = p2 /\ i2 = j2
        BY <4>3 DEF TaskInOnePlace
      <4> QED BY <4>1, <4>2, <4>4
    <3>6. \A q \in Devices : \A i \in 1..Len(queue'[q]) :
              /\ ticket'[queue'[q][i]] = "open"
              /\ \A v \in Workers : worker'[v].task # queue'[q][i]
      <4> SUFFICES ASSUME NEW q \in Devices, NEW i \in 1..Len(queue'[q])
                   PROVE  /\ ticket[queue'[q][i]] = "open"
                          /\ \A v \in Workers : worker'[v].task # queue'[q][i]
        BY <2>2
      <4>1. PICK j \in 1..Len(queue[q]) : /\ queue'[q][i] = queue[q][j]
                                          /\ j = IF q = Home(w) THEN i + 1 ELSE i
        BY <3>2
      <4>2. ~(q = Home(w) /\ j = 1)
        BY <4>1
      <4>3. queue[q][j] # h
        BY <1>0, <3>2, <4>2 DEF TaskInOnePlace
      <4>4. ticket[queue[q][j]] = "open" /\ \A v \in Workers : worker[v].task # queue[q][j]
        BY DEF TaskInOnePlace
      <4> QED BY <1>0, <3>3, <4>1, <4>3, <4>4
    <3>7. \A v \in Workers :
           /\ worker'[v].task # NoTask <=> worker'[v].at \in Busied \cup {"mark"}
           /\ worker'[v].task # NoTask => ticket'[worker'[v].task] = "open"
           /\ worker'[v].at \in {"ran", "mark"} => worker'[v].task \notin Faulty
      BY <1>0, <2>2, <3>3, <3>4 DEF TaskInOnePlace, Busied
    <3>8. \A v, u \in Workers : worker'[v].task = worker'[u].task /\ worker'[v].task # NoTask => v = u
      BY <1>0, <3>3, <3>4 DEF TaskInOnePlace
    <3> QED BY <3>5, <3>6, <3>7, <3>8 DEF TaskInOnePlace
  <2> QED BY <2>4, <2>5
<1>2. CASE Check(w) \/ SpuriousWakeup(w)
  <2>1. /\ worker[w].at \in {"check", "wait"} /\ worker'[w].at \in {"gone", "top", "woken"}
        /\ worker'[w].task = worker[w].task /\ UNCHANGED <<queue, ticket>>
    BY <1>0, <1>2 DEF Check, SpuriousWakeup, WorkerStates
  <2>2. worker[w].task = NoTask
    BY <2>1 DEF TaskInOnePlace, Busied
  <2> QED BY <1>k, <2>1, <2>2 DEF Busied
<1>3. CASE Run(w)
  <2>1. /\ worker[w].at = "run" /\ UNCHANGED <<queue, ticket>>
        /\ worker' = [worker EXCEPT ![w] = IF @.task \in Faulty THEN At("gone", NoTask) ELSE At("ran", @.task)]
    BY <1>3 DEF Run
  <2>2. worker[w].task # NoTask
    BY <2>1 DEF TaskInOnePlace, Busied
  <2>3. CASE worker[w].task \in Faulty
    <3>1. worker'[w] = At("gone", NoTask)
      BY <1>0, <2>1, <2>3
    <3> QED BY <1>k, <2>1, <3>1, AtType DEF Busied
  <2>4. CASE worker[w].task \notin Faulty
    <3>1. worker'[w] = At("ran", worker[w].task)
      BY <1>0, <2>1, <2>4
    <3> QED BY <1>k, <2>1, <2>2, <2>4, <3>1, AtType DEF Busied
  <2> QED BY <2>3, <2>4
<1>4. CASE Ask(w) \/ AskOn(w)
  <2>1. UNCHANGED <<queue, ticket, worker>>
    BY <1>4 DEF Ask, AskOn, work
  <2> QED BY <1>k, <2>1 DEF TaskInOnePlace
<1>5. CASE RunAnswered(w)
  <2>1. /\ worker[w].at = "run" /\ UNCHANGED <<queue, ticket>>
        /\ \/ worker'[w] = At("stuck", worker[w].task)
           \/ worker'[w] = At("gone", NoTask)
           \/ worker[w].task \notin Faulty /\ worker'[w] = At("ran", worker[w].task)
    BY <1>5, AnswerEffect
  <2>2. worker[w].task # NoTask
    BY <2>1 DEF TaskInOnePlace, Busied
  <2>3. CASE worker'[w] = At("gone", NoTask)
    BY <1>k, <2>1, <2>3, AtType DEF Busied
  <2>4. CASE worker'[w] = At("stuck", worker[w].task)
    BY <1>k, <2>1, <2>2, <2>4, AtType DEF Busied
  <2>5. CASE worker[w].task \notin Faulty /\ worker'[w] = At("ran", worker[w].task)
    BY <1>k, <2>1, <2>2, <2>5, AtType DEF Busied
  <2> QED BY <2>1, <2>3, <2>4, <2>5
<1>6. CASE SetIdle(w)
  <2>1. /\ worker[w].at = "ran" /\ UNCHANGED <<queue, ticket>>
        /\ worker'[w].task = worker[w].task /\ worker'[w].at = "mark"
    BY <1>0, <1>6 DEF SetIdle, WorkerStates
  <2>2. worker[w].task # NoTask /\ worker[w].task \notin Faulty
    BY <2>1 DEF TaskInOnePlace, Busied
  <2> QED BY <1>k, <2>1, <2>2 DEF Busied
<1>7. CASE Mark(w)
  <2>1. /\ worker[w].at = "mark" /\ UNCHANGED queue
        /\ ticket' = [ticket EXCEPT ![worker[w].task] = "done"]
        /\ worker'[w] = At("pick", NoTask)
    BY <1>0, <1>7 DEF Mark
  <2>2. worker[w].task # NoTask
    BY <2>1 DEF TaskInOnePlace, Busied
  <2>3. \A u \in Tasks : u # worker[w].task => ticket'[u] = ticket[u]
    BY <1>0, <2>1
  <2>4. \A q \in Devices : \A i \in 1..Len(queue'[q]) :
           /\ ticket'[queue'[q][i]] = "open"
           /\ \A v \in Workers : worker'[v].task # queue'[q][i]
    BY <1>0, <2>1, <2>3, AtType DEF TaskInOnePlace
  <2>5. \A v \in Workers : worker[v].task # NoTask => worker[v].task \in Tasks
    BY <1>0 DEF WorkerStates, Holding
  <2>6. \A v \in Workers :
           /\ worker'[v].task # NoTask <=> worker'[v].at \in Busied \cup {"mark"}
           /\ worker'[v].task # NoTask => ticket'[worker'[v].task] = "open"
           /\ worker'[v].at \in {"ran", "mark"} => worker'[v].task \notin Faulty
    BY <1>0, <2>1, <2>2, <2>3, <2>5, AtType DEF TaskInOnePlace, Busied
  <2>7. \A v, u \in Workers : worker'[v].task = worker'[u].task /\ worker'[v].task # NoTask => v = u
    BY <1>0, <2>1, AtType DEF TaskInOnePlace
  <2>8. \A p, q \in Devices : \A i \in 1..Len(queue'[p]) : \A j \in 1..Len(queue'[q]) :
           queue'[p][i] = queue'[q][j] => p = q /\ i = j
    BY <2>1 DEF TaskInOnePlace
  <2> QED BY <2>4, <2>6, <2>7, <2>8 DEF TaskInOnePlace
<1> QED BY <1>1, <1>2, <1>3, <1>4, <1>5, <1>6, <1>7 DEF WorkerStep

(* The calls that put a task at the end of a queue: a new one. *)
Puts(c) == \/ FlushDevice(c)
           \/ \E d \in 0..NumGpus : PutOperation(c, d)
           \/ \E t \in Operations, d \in 0..NumGpus : Enqueue(c, t, d)

LEMMA PutsNew ==
  ASSUME TypeOK, Reserved, NEW c \in Clients, Puts(c)
  PROVE  \E t \in Tasks, d \in Int : Put(c, t, d) /\ ticket[t] = "none"
<1>0. 0..NumGpus \subseteq Int /\ Operations \subseteq Tasks
  BY DEF Operations
<1>1. CASE \E d \in 0..NumGpus : PutOperation(c, d)
  <2>1. PICK d \in 0..NumGpus : PutOperation(c, d)
    BY <1>1
  <2>2. client[c].task \in Operations /\ ticket[client[c].task] = "none" /\ Put(c, client[c].task, d)
    BY <2>1 DEF PutOperation, Reserved, InReserve
  <2> QED BY <1>0, <2>2
<1>2. CASE FlushDevice(c)
  <2>1. /\ c \in Flushers /\ client[c].i \in 1..numGpus
        /\ \A q \in Devices : q >= client[c].i => ticket[Synch[<<c, q>>]] = "none"
        /\ Put(c, Synch[<<c, client[c].i>>], client[c].i - 1)
    BY <1>2 DEF FlushDevice, Reserved, InReserve
  <2>2. client[c].i \in Devices /\ client[c].i - 1 \in Int
    BY <2>1, NumGpusAssumption DEF TypeOK, Devices
  <2>3. client[c].i >= client[c].i
    BY <2>2 DEF Devices
  <2> QED BY <2>1, <2>2, <2>3, SynchApart
<1>3. CASE \E t \in Operations, d \in 0..NumGpus : Enqueue(c, t, d)
  BY <1>0, <1>3 DEF Enqueue, New
<1> QED BY <1>1, <1>2, <1>3 DEF Puts

LEMMA ClientPut ==
  ASSUME TypeOK, Reserved, NEW c \in Clients, ClientStep(c) \/ ClientCall(c)
  PROVE  UNCHANGED queue \/ \E t \in Tasks, d \in Int : Put(c, t, d) /\ ticket[t] = "none"
<1>1. CASE Puts(c)
  BY <1>1, PutsNew
<1>2. CASE \/ AskOn(c) \/ Answered(c) \/ Await(c) \/ Awaited(c) \/ Wait(c) \/ Stop(c) \/ Join(c)
           \/ Flush(c) \/ Restart(c) \/ Destroy(c) \/ \E t \in Operations : Operate(c, t)
  BY <1>2 DEF AskOn, Answered, Await, Awaited, Wait, Stop, Join, Flush, Restart, Destroy, Operate, work
<1> QED BY <1>1, <1>2 DEF Puts, ClientStep, ClientCall

(* It touches no task that is open, and no thread that has one. *)
LEMMA ClientLeavesTasks ==
  ASSUME TypeOK, CallsInOrder, ThreadsInPlace, Reserved, TaskInOnePlace,
         NEW c \in Clients, ClientStep(c) \/ ClientCall(c)
  PROVE  /\ \A u \in Tasks : ticket[u] = "open" => ticket'[u] = "open"
         /\ UNCHANGED idle
         /\ \A w \in Workers : /\ worker'[w].task = worker[w].task
                               /\ \/ worker'[w].at = worker[w].at
                                  \/ /\ worker[w].at \in {"wait", "absent"} /\ worker[w].task = NoTask
                                     /\ worker'[w].at \in {"woken", "top"}
<1>1. \A u \in Tasks : ticket[u] = "open" => ticket'[u] = "open"
  BY TicketEffect
<1>2. worker \in [Workers -> WorkerStates]
  BY DEF TypeOK, WorkerStates, Holding
<1>3. CASE Renews(c)
  <2>1. /\ worker' = [worker EXCEPT ![Restarted] = At("top", NoTask)] /\ worker[Restarted].at = "absent"
        /\ UNCHANGED idle /\ Restarted \in Workers
    BY <1>3, RenewsEffect
  <2>2. worker[Restarted].task = NoTask
    BY <2>1 DEF TaskInOnePlace, Busied
  <2> QED BY <1>1, <1>2, <2>1, <2>2, AtType
<1>4. CASE ~Renews(c)
  <2>1. UNCHANGED idle /\ \A w \in Workers : \/ worker'[w] = worker[w]
                                             \/ worker[w].at = "wait" /\ worker'[w] = At("woken", NoTask)
    BY <1>4, ClientEffect
  <2>2. \A w \in Workers : worker[w].at = "wait" => worker[w].task = NoTask
    BY DEF TaskInOnePlace, Busied
  <2> QED BY <1>1, <2>1, <2>2, AtType
<1> QED BY <1>3, <1>4

LEMMA OnePlaceClient ==
  ASSUME TypeOK, CallsInOrder, ThreadsInPlace, Reserved, TaskInOnePlace,
         NEW c \in Clients, ClientStep(c) \/ ClientCall(c)
  PROVE  TaskInOnePlace'
<1>0. /\ \A u \in Tasks : ticket[u] = "open" => ticket'[u] = "open"
      /\ \A w \in Workers : /\ worker'[w].task = worker[w].task
                            /\ \/ worker'[w].at = worker[w].at
                               \/ /\ worker[w].at \in {"wait", "absent"} /\ worker[w].task = NoTask
                                  /\ worker'[w].at \in {"woken", "top"}
  BY ClientLeavesTasks
<1>1. /\ NoTask \notin Tasks /\ \A w \in Workers : worker[w].task \in Tasks \cup {NoTask}
      /\ \A q \in Devices : \A i \in 1..Len(queue[q]) : queue[q][i] \in Tasks
  <2>1. \A q \in Devices : queue[q] \in Seq(Tasks)
    BY DEF TypeOK
  <2>2. \A q \in Devices : \A i \in 1..Len(queue[q]) : queue[q][i] \in Tasks
    BY <2>1, ElementOfSeq
  <2> QED BY <2>2, TasksAssumption DEF TypeOK
<1>2. \A w \in Workers :
           /\ worker'[w].task # NoTask <=> worker'[w].at \in Busied \cup {"mark"}
           /\ worker'[w].task # NoTask => ticket'[worker'[w].task] = "open"
           /\ worker'[w].at \in {"ran", "mark"} => worker'[w].task \notin Faulty
  BY <1>0, <1>1 DEF TaskInOnePlace, Busied
<1>3. \A v, w \in Workers : worker'[v].task = worker'[w].task /\ worker'[v].task # NoTask => v = w
  BY <1>0 DEF TaskInOnePlace
<1>4. CASE UNCHANGED queue
  <2>1. \A p, q \in Devices : \A i \in 1..Len(queue'[p]) : \A j \in 1..Len(queue'[q]) :
           queue'[p][i] = queue'[q][j] => p = q /\ i = j
    BY <1>4 DEF TaskInOnePlace
  <2>2. \A q \in Devices : \A i \in 1..Len(queue'[q]) :
           /\ ticket'[queue'[q][i]] = "open"
           /\ \A w \in Workers : worker'[w].task # queue'[q][i]
    BY <1>0, <1>1, <1>4 DEF TaskInOnePlace
  <2> QED BY <1>2, <1>3, <2>1, <2>2 DEF TaskInOnePlace
<1>5. CASE ~UNCHANGED queue
  <2>1. PICK t \in Tasks, d \in Int : Put(c, t, d) /\ ticket[t] = "none"
    BY <1>5, ClientPut
  <2> DEFINE q0 == (d % numGpus) + 1
  <2>2. queue' = [queue EXCEPT ![q0] = Append(@, t)] /\ ticket' = [ticket EXCEPT ![t] = "open"]
    BY <2>1 DEF Put
  <2> HIDE DEF q0
  <2>3. \A p \in Devices : \A i \in 1..Len(queue'[p]) :
             \/ i \in 1..Len(queue[p]) /\ queue'[p][i] = queue[p][i]
             \/ p = q0 /\ i = Len(queue[p]) + 1 /\ queue'[p][i] = t
    BY <2>2, Pushed
  <2>4. /\ \A p \in Devices : \A i \in 1..Len(queue[p]) : queue[p][i] # t
        /\ \A w \in Workers : worker[w].task # t
        /\ ticket'[t] = "open"
    BY <1>1, <2>1, <2>2 DEF TaskInOnePlace, TypeOK
  <2>5. \A p, q \in Devices : \A i \in 1..Len(queue'[p]) : \A j \in 1..Len(queue'[q]) :
           queue'[p][i] = queue'[q][j] => p = q /\ i = j
    <3> SUFFICES ASSUME NEW p \in Devices, NEW q \in Devices, NEW i \in 1..Len(queue'[p]),
                        NEW j \in 1..Len(queue'[q]), queue'[p][i] = queue'[q][j]
                 PROVE  p = q /\ i = j
      OBVIOUS
    <3>1. CASE queue'[p][i] = t
      <4>1. p = q0 /\ i = Len(queue[p]) + 1
        BY <2>3, <2>4, <3>1
      <4>2. q = q0 /\ j = Len(queue[q]) + 1
        BY <2>3, <2>4, <3>1
      <4> QED BY <4>1, <4>2
    <3>2. CASE queue'[p][i] # t
      <4>1. i \in 1..Len(queue[p]) /\ j \in 1..Len(queue[q]) /\ queue[p][i] = queue[q][j]
        BY <2>3, <3>2
      <4> QED BY <4>1 DEF TaskInOnePlace
    <3> QED BY <3>1, <3>2
  <2>6. \A q \in Devices : \A i \in 1..Len(queue'[q]) :
           /\ ticket'[queue'[q][i]] = "open"
           /\ \A w \in Workers : worker'[w].task # queue'[q][i]
    <3> SUFFICES ASSUME NEW q \in Devices, NEW i \in 1..Len(queue'[q])
                 PROVE  /\ ticket'[queue'[q][i]] = "open"
                        /\ \A w \in Workers : worker'[w].task # queue'[q][i]
      OBVIOUS
    <3>1. CASE queue'[q][i] = t
      BY <1>0, <2>4, <3>1
    <3>2. CASE queue'[q][i] # t
      <4>1. i \in 1..Len(queue[q]) /\ queue'[q][i] = queue[q][i]
        BY <2>3, <3>2
      <4> QED BY <1>0, <1>1, <4>1 DEF TaskInOnePlace
    <3> QED BY <3>1, <3>2
  <2> QED BY <1>2, <1>3, <2>5, <2>6 DEF TaskInOnePlace
<1> QED BY <1>4, <1>5

LEMMA OnePlaceNext ==
  ASSUME TypeOK, CallsInOrder, ThreadsInPlace, Reserved, TaskInOnePlace, AskersRun, [Next]_vars
  PROVE  TaskInOnePlace'
<1>1. CASE Closed \/ UNCHANGED vars
  BY <1>1 DEF Closed, vars, work, TaskInOnePlace
<1> QED BY <1>1, OnePlaceWorker, OnePlaceClient DEF Next

LEMMA FlagsInPlaceNext ==
  ASSUME TypeOK, CallsInOrder, ThreadsInPlace, Reserved, TaskInOnePlace, AskersRun, FlagsInPlace,
         [Next]_vars
  PROVE  FlagsInPlace'
<1>0. /\ worker \in [Workers -> WorkerStates] /\ idle \in [Workers -> BOOLEAN]
      /\ Faulty \subseteq Tasks
  BY TasksAssumption DEF TypeOK, WorkerStates, Holding
<1>1. ASSUME NEW w \in Workers, WorkerStep(w) \/ SpuriousWakeup(w) PROVE FlagsInPlace'
  <2>1. \A v \in Workers : v # w => worker'[v] = worker[v] /\ idle'[v] = idle[v]
    <3>1. CASE Look(w) \/ LookAgain(w)
      <4>1. PICK p : PickWork(w, p)
        BY <3>1 DEF Look, LookAgain
      <4>2. UNCHANGED idle \/ idle' = [idle EXCEPT ![w] = FALSE]
        BY <4>1 DEF PickWork
      <4> QED BY <1>0, <1>1, <4>2, WorkerEffect
    <3>2. CASE ~(Look(w) \/ LookAgain(w))
      <4>1. UNCHANGED idle \/ idle' = [idle EXCEPT ![w] = TRUE]
        BY <1>1, <3>2 DEF WorkerStep, Check, SpuriousWakeup, Run, Ask, AskOn, RunAnswered, SetIdle, Mark, work
      <4> QED BY <1>0, <1>1, <4>1, WorkerEffect
    <3> QED BY <3>1, <3>2
  <2>2. \A t \in Faulty : ticket[t] = "open" => ticket'[t] = "open"
    <3> SUFFICES ASSUME NEW t \in Faulty, ticket'[t] # ticket[t] PROVE FALSE
      OBVIOUS
    <3>1. worker[w].at = "mark" /\ t = worker[w].task
      <4>1. Mark(w) /\ t = worker[w].task
        BY <1>0, <1>1, WorkerTicket
      <4> QED BY <4>1 DEF Mark
    <3>2. worker[w].task \notin Faulty
      BY <3>1 DEF TaskInOnePlace
    <3> QED BY <3>1, <3>2
  <2>3. /\ worker'[w].at \in Busied => ~idle'[w]
        /\ ~idle'[w] => \/ worker'[w].at \in Busied
                        \/ \E t \in Faulty : ticket'[t] = "open"
    <3>1. CASE Look(w) \/ LookAgain(w)
      <4>1. PICK p \in {"check", "wait"} : PickWork(w, p)
        BY <3>1 DEF Look, LookAgain
      <4>2. worker[w].at \notin Busied
        BY <3>1 DEF Look, LookAgain, Busied
      <4>3. \/ worker'[w] = At("run", Head(queue[Home(w)])) /\ ~idle'[w]
            \/ worker'[w] = At(p, NoTask) /\ idle'[w] = idle[w]
        BY <1>0, <4>1 DEF PickWork
      <4> QED BY <1>0, <2>2, <4>2, <4>3, AtType DEF FlagsInPlace, Busied
    <3>2. CASE Check(w) \/ SpuriousWakeup(w)
      <4>1. worker[w].at \notin Busied /\ worker'[w].at \notin Busied /\ UNCHANGED idle
        BY <1>0, <3>2 DEF Check, SpuriousWakeup, Busied, WorkerStates
      <4> QED BY <2>2, <4>1 DEF FlagsInPlace
    <3>3. CASE Run(w)
      <4>1. /\ worker[w].at = "run" /\ UNCHANGED <<idle, ticket>>
            /\ \/ worker'[w] = At("ran", worker[w].task)
               \/ worker'[w] = At("gone", NoTask) /\ worker[w].task \in Faulty
        BY <1>0, <3>3 DEF Run
      <4>2. ticket[worker[w].task] = "open"
        BY <4>1 DEF TaskInOnePlace, Busied
      <4> QED BY <4>1, <4>2, AtType DEF FlagsInPlace, Busied
    <3>4. CASE Ask(w) \/ AskOn(w)
      BY <2>2, <3>4 DEF Ask, AskOn, work, FlagsInPlace
    <3>5. CASE RunAnswered(w)
      <4>1. /\ worker[w].at = "run" /\ UNCHANGED <<idle, ticket>>
            /\ \/ worker'[w] = At("stuck", worker[w].task)
               \/ worker'[w] = At("gone", NoTask) /\ worker[w].task \in Faulty
               \/ worker'[w] = At("ran", worker[w].task)
        BY <1>0, <3>5, AnswerEffect
      <4>2. ticket[worker[w].task] = "open"
        BY <4>1 DEF TaskInOnePlace, Busied
      <4> QED BY <4>1, <4>2, AtType DEF FlagsInPlace, Busied
    <3>6. CASE SetIdle(w)
      <4>1. worker'[w].at = "mark" /\ idle'[w]
        BY <1>0, <3>6 DEF SetIdle, WorkerStates
      <4> QED BY <4>1 DEF Busied
    <3>7. CASE Mark(w)
      <4>1. worker[w].at = "mark" /\ worker'[w] = At("pick", NoTask) /\ UNCHANGED idle
        BY <1>0, <3>7 DEF Mark
      <4> QED BY <2>2, <4>1, AtType DEF FlagsInPlace, Busied
    <3> QED BY <1>1, <3>1, <3>2, <3>3, <3>4, <3>5, <3>6, <3>7 DEF WorkerStep
  <2> QED BY <2>1, <2>2, <2>3 DEF FlagsInPlace
<1>2. ASSUME NEW c \in Clients, ClientStep(c) \/ ClientCall(c) PROVE FlagsInPlace'
  <2>1. /\ \A t \in Faulty : ticket[t] = "open" => ticket'[t] = "open"
        /\ UNCHANGED idle /\ \A w \in Workers : worker'[w].at \in Busied <=> worker[w].at \in Busied
    BY <1>0, <1>2, ClientLeavesTasks DEF Busied
  <2> QED BY <2>1 DEF FlagsInPlace
<1>3. CASE Closed \/ UNCHANGED vars
  BY <1>3 DEF Closed, vars, work, FlagsInPlace
<1> QED BY <1>1, <1>2, <1>3 DEF Next

-----------------------------------------------------------------------------
(* The walk of idle(). *)

LEMMA AskersNext ==
  ASSUME TypeOK, CallsInOrder, ThreadsInPlace, Reserved, TaskInOnePlace, AskersRun, FlagsInPlace,
         TasksKnowTheirThread, [Next]_vars
  PROVE  AskersRun' /\ TasksKnowTheirThread'
<1>0. /\ worker \in [Workers -> WorkerStates] /\ threads \in [1..numGpus -> Workers]
      /\ Len(threads) = numGpus /\ numGpus \in Nat
      /\ ask \in [Clients \cup Workers -> Nat] /\ idle \in [Workers -> BOOLEAN]
  <2>1. numGpus \in Nat /\ threads \in [1..numGpus -> Workers]
    BY NumGpusAssumption DEF TypeOK, Devices
  <2>2. Len(threads) = numGpus
    BY <2>1
  <2> QED BY <2>1, <2>2 DEF TypeOK, WorkerStates, Holding
(* A thread that asks, and neither moves nor goes on asking, is still right. *)
<1>k. ASSUME UNCHANGED threads, NEW v \in Workers, ask'[v] = ask[v], worker'[v] = worker[v],
             idle'[v] = idle[v]
      PROVE  ask'[v] # 0 => /\ worker'[v].at = "run" /\ worker'[v].task \in Curious
                            /\ \E i \in 1..Len(threads') : i >= ask'[v] /\ threads'[i] = v /\ ~idle'[v]
  BY <1>k DEF AskersRun, TasksKnowTheirThread
<1>s. ASSUME \A v \in Workers : ask'[v] # 0 =>
                /\ worker'[v].at = "run" /\ worker'[v].task \in Curious
                /\ \E i \in 1..Len(threads') : i >= ask'[v] /\ threads'[i] = v /\ ~idle'[v]
      PROVE  AskersRun' /\ TasksKnowTheirThread'
  BY <1>s DEF AskersRun, TasksKnowTheirThread
<1>1. ASSUME NEW w \in Workers, WorkerStep(w) \/ SpuriousWakeup(w) PROVE AskersRun' /\ TasksKnowTheirThread'
  <2>1. UNCHANGED threads /\ \A v \in Workers : v # w => worker'[v] = worker[v]
    BY <1>1, WorkerEffect DEF pool
  <2>2. \A v \in Workers : v # w => ask'[v] = ask[v] /\ idle'[v] = idle[v]
    <3>1. \/ UNCHANGED ask
          \/ \E n : ask' = [ask EXCEPT ![w] = n]
      BY <1>1 DEF WorkerStep, SpuriousWakeup, Look, LookAgain, Check, Run, Ask, AskOn, RunAnswered, SetIdle, Mark
    <3>2. CASE Look(w) \/ LookAgain(w)
      <4>1. PICK p : PickWork(w, p)
        BY <3>2 DEF Look, LookAgain
      <4>2. UNCHANGED idle \/ idle' = [idle EXCEPT ![w] = FALSE]
        BY <4>1 DEF PickWork
      <4> QED BY <1>0, <3>1, <4>2
    <3>3. CASE ~(Look(w) \/ LookAgain(w))
      <4>1. UNCHANGED idle \/ idle' = [idle EXCEPT ![w] = TRUE]
        BY <1>1, <3>3 DEF WorkerStep, Check, SpuriousWakeup, Run, Ask, AskOn, RunAnswered, SetIdle, Mark, work
      <4> QED BY <1>0, <3>1, <4>1
    <3> QED BY <3>2, <3>3
  <2>3. ask'[w] # 0 => /\ worker'[w].at = "run" /\ worker'[w].task \in Curious
                       /\ \E i \in 1..Len(threads') : i >= ask'[w] /\ threads'[i] = w /\ ~idle'[w]
    <3>1. CASE Ask(w)
      <4>1. /\ worker[w].at = "run" /\ worker[w].task \in Curious /\ UNCHANGED <<worker, idle>>
            /\ ask'[w] = 1
        BY <1>0, <3>1 DEF Ask, work
      <4>2. PICK i \in 1..numGpus : threads[i] = w
        BY <4>1 DEF ThreadsInPlace
      <4>3. ~idle[w]
        BY <4>1 DEF FlagsInPlace, Busied
      <4>4. i \in 1..Len(threads') /\ i >= 1
        BY <1>0, <2>1
      <4> QED BY <2>1, <4>1, <4>2, <4>3, <4>4
    <3>2. CASE AskOn(w)
      <4>1. /\ ask[w] # 0 /\ ~Busy(w) /\ UNCHANGED <<worker, idle>> /\ ask'[w] = ask[w] + 1 /\ ask[w] \in Nat
        BY <1>0, <3>2 DEF AskOn, work
      <4>2. PICK i \in 1..Len(threads) : i >= ask[w] /\ threads[i] = w /\ ~idle[w]
        BY <4>1 DEF TasksKnowTheirThread
      <4>3. i # ask[w]
        <5> SUFFICES ASSUME i = ask[w] PROVE FALSE
          OBVIOUS
        <5>1. ask[w] <= Len(threads) /\ threads[ask[w]] = w
          BY <1>0, <4>2
        <5> QED BY <4>1, <4>2, <5>1 DEF Busy
      <4>4. i >= ask'[w] /\ threads'[i] = w /\ ~idle'[w] /\ i \in 1..Len(threads')
        BY <1>0, <2>1, <4>1, <4>2, <4>3
      <4> QED BY <4>1, <4>4 DEF AskersRun
    <3>3. CASE RunAnswered(w)
      BY <1>0, <3>3 DEF RunAnswered
    <3>4. CASE ~(Ask(w) \/ AskOn(w) \/ RunAnswered(w))
      <4>1. UNCHANGED ask /\ (worker[w].at = "run" => ask[w] = 0)
        BY <1>1, <3>4 DEF WorkerStep, SpuriousWakeup, Look, LookAgain, Check, Run, SetIdle, Mark
      <4> QED BY <4>1 DEF AskersRun
    <3> QED BY <3>1, <3>2, <3>3, <3>4
  <2> QED BY <1>k, <1>s, <2>1, <2>2, <2>3
<1>2. ASSUME NEW c \in Clients, ClientStep(c) \/ ClientCall(c) PROVE AskersRun' /\ TasksKnowTheirThread'
  <2>1. \A v \in Workers : ask'[v] = ask[v]
    BY <1>2, ClientFrame, ClientsAssumption
  <2>2. CASE Renews(c)
    <3>1. \A v \in Workers : worker[v].at \in {"absent", "gone"}
      BY <2>2, RenewsEffect
    <3> QED BY <1>s, <2>1, <3>1 DEF AskersRun
  <2>3. CASE ~Renews(c)
    <3>1. /\ UNCHANGED <<threads, idle>>
          /\ \A v \in Workers : worker'[v] = worker[v] \/ worker[v].at = "wait"
      BY <1>2, <2>3, ClientEffect
    <3>2. \A v \in Workers : ask[v] # 0 => worker'[v] = worker[v]
      BY <3>1 DEF AskersRun
    <3> QED BY <1>k, <1>s, <2>1, <3>1, <3>2
  <2> QED BY <2>2, <2>3
<1>3. CASE Closed \/ UNCHANGED vars
  BY <1>k, <1>s, <1>3 DEF Closed, vars, pool, work
<1> QED BY <1>1, <1>2, <1>3 DEF Next

-----------------------------------------------------------------------------
(* The invariant. *)

LEMMA InitIInv == Init => IInv
<1> SUFFICES ASSUME Init PROVE IInv
  OBVIOUS
<1>0. /\ 1..NumGpus = Devices /\ Devices \subseteq Workers /\ numGpus = NumGpus
      /\ \A w \in Workers : worker[w].task = NoTask /\ worker[w].at = IF w \in Devices THEN "top" ELSE "absent"
      /\ \A c \in Clients : client[c] = Free /\ client[c].task = NoTask /\ client[c].call = "none"
                            /\ client[c].at = "free"
      /\ \A q \in Devices : Len(queue[q]) = 0
  <2>1. Len(<<>>) = 0
    BY EmptySeq
  <2> QED BY <2>1, NumGpusAssumption, AtType DEF Init, Devices, Workers, Free
<1>1. ThreadsInPlace
  BY <1>0 DEF Init, ThreadsInPlace, Home
<1>2. CallsInOrder /\ Reserved
  BY <1>0 DEF Init, CallsInOrder, InOrder, Reserved, InReserve
<1>3. TaskInOnePlace
  BY <1>0 DEF TaskInOnePlace, Busied
<1>4. FlagsInPlace
  BY <1>0 DEF Init, FlagsInPlace, Busied
<1>5. AskersRun /\ TasksKnowTheirThread
  BY DEF Init, AskersRun, TasksKnowTheirThread
<1> QED BY TypeInit, <1>1, <1>2, <1>3, <1>4, <1>5 DEF IInv

LEMMA NextIInv == IInv /\ [Next]_vars => IInv'
  BY TypeNext, ThreadsInPlaceNext, CallsInOrderNext, ReservedNext, OnePlaceNext, FlagsInPlaceNext,
     AskersNext DEF IInv

LEMMA QuietFromIInv == IInv => QuietPoolIsIdle
<1> SUFFICES ASSUME IInv, \A t \in Tasks : ticket[t] # "open"
             PROVE  /\ \A i \in 1..Len(threads) : idle[threads[i]]
                    /\ \A q \in 1..numGpus : queue[q] = <<>>
  BY DEF QuietPoolIsIdle
<1>1. ASSUME NEW i \in 1..Len(threads) PROVE idle[threads[i]]
  <2>1. threads[i] \in Workers /\ worker \in [Workers -> WorkerStates]
    <3>1. numGpus \in Nat /\ threads \in [1..numGpus -> Workers]
      BY NumGpusAssumption DEF IInv, TypeOK, Devices
    <3>2. Len(threads) = numGpus
      BY <3>1
    <3> QED BY <3>1, <3>2 DEF IInv, TypeOK, WorkerStates, Holding
  <2>2. worker[threads[i]].at \notin Busied
    <3> SUFFICES ASSUME worker[threads[i]].at \in Busied PROVE FALSE
      OBVIOUS
    <3>1. worker[threads[i]].task # NoTask /\ ticket[worker[threads[i]].task] = "open"
      BY <2>1 DEF IInv, TaskInOnePlace
    <3>2. worker[threads[i]].task \in Tasks
      BY <2>1, <3>1 DEF WorkerStates, Holding
    <3> QED BY <3>1, <3>2
  <2> QED BY <2>1, <2>2, TasksAssumption DEF IInv, FlagsInPlace
<1>2. ASSUME NEW q \in 1..numGpus PROVE queue[q] = <<>>
  <2> SUFFICES ASSUME queue[q] # <<>> PROVE FALSE
    OBVIOUS
  <2>1. q \in Devices /\ queue[q] \in Seq(Tasks)
    BY NumGpusAssumption DEF IInv, TypeOK, Devices
  <2>2. Len(queue[q]) \in Nat /\ Len(queue[q]) # 0
    BY <2>1, EmptySeq, LenProperties
  <2>3. 1 \in 1..Len(queue[q]) /\ queue[q][1] \in Tasks
    BY <2>1, <2>2, ElementOfSeq
  <2> QED BY <2>1, <2>3 DEF IInv, TaskInOnePlace
<1> QED BY <1>1, <1>2

-----------------------------------------------------------------------------
(* Types: every variable keeps its type, whatever is called, restarted or  *)
(* thrown.                                                                 *)
THEOREM GPUTypeOK == Spec => []TypeOK
<1>1. IInv => TypeOK
  BY DEF IInv
<1> QED BY InitIInv, NextIInv, <1>1, PTL DEF Spec

(* idle() says yes to a client that has waited for everything, and no to a *)
(* task in a thread of the pool (gpu_pool.cc, idle(); gpu_function.cc, the *)
(* flag set before the functor runs and reset before its ticket is marked).*)
THEOREM GPUIdleTellsWhereOneIs == Spec => []IdleTellsWhereOneIs
<1>1. IInv => IdleTellsWhereOneIs
  BY QuietFromIInv DEF IInv, IdleTellsWhereOneIs
<1> QED BY InitIInv, NextIInv, <1>1, PTL DEF Spec

(* A task enqueued and not yet marked is in one queue, once, or with one   *)
(* thread, unless its functor threw (gpu_function.cc, pick_work()).        *)
THEOREM GPUTaskInOnePlace == Spec => []TaskInOnePlace
<1>1. IInv => TaskInOnePlace
  BY DEF IInv
<1> QED BY InitIInv, NextIInv, <1>1, PTL DEF Spec
-----------------------------------------------------------------------------
(* The pool implements Executor.                                           *)

StatusMap == [t \in Tasks |-> Status(t)]

InPool(t) == ticket[t] \notin {"none", "direct"}

AwaitedSet == {t \in Tasks : InPool(t) /\ ~Outstanding(t)}

LEMMA HeldFacts ==
  ASSUME TypeOK, TaskInOnePlace, NEW t \in Tasks
  PROVE  /\ \A p \in {"run", "ran", "mark"} : Held(t, p) => ticket[t] = "open" /\ ~Queued(t)
         /\ \A p, q \in {"run", "ran", "mark"} : Held(t, p) /\ Held(t, q) => p = q
         /\ Queued(t) => ticket[t] = "open"
<1>0. t # NoTask
  BY TasksAssumption
<1>1. \A w \in Workers : \A p : worker[w] = At(p, t) => worker[w].task = t /\ worker[w].at = p
  BY AtType
<1>2. \A w \in Workers : \A p : worker[w] = At(p, t) => ticket[t] = "open"
  BY <1>0, <1>1 DEF TaskInOnePlace
<1>3. \A w \in Workers : \A p : worker[w] = At(p, t) => ~Queued(t)
  BY <1>1 DEF TaskInOnePlace, Queued
<1>4. \A v, w \in Workers : \A p, q : worker[v] = At(p, t) /\ worker[w] = At(q, t) => p = q
  BY <1>0, <1>1 DEF TaskInOnePlace
<1>5. Queued(t) => ticket[t] = "open"
  BY DEF TaskInOnePlace, Queued
<1> QED BY <1>2, <1>3, <1>4, <1>5 DEF Held

StatusCases ==
    \A t \in Tasks :
      /\ ~InPool(t) <=> Status(t) = "new"
      /\ ticket[t] = "done" <=> Status(t) = "done"
      /\ Queued(t) => Status(t) = "queued"
      /\ Held(t, "run") => Status(t) = "running"
      /\ Held(t, "ran") \/ Held(t, "mark") => Status(t) = "executed"
      /\ ticket[t] = "open" /\ ~Queued(t) /\ ~Held(t, "run") /\ ~Held(t, "ran") /\ ~Held(t, "mark")
           => Status(t) = "lost"

(* No two of the cases of Status meet. *)
LEMMA StatusValue == TypeOK /\ TaskInOnePlace => StatusCases
<1> SUFFICES ASSUME TypeOK, TaskInOnePlace, NEW t \in Tasks
             PROVE /\ ~InPool(t) <=> Status(t) = "new"
                   /\ ticket[t] = "done" <=> Status(t) = "done"
                   /\ Queued(t) => Status(t) = "queued"
                   /\ Held(t, "run") => Status(t) = "running"
                   /\ Held(t, "ran") \/ Held(t, "mark") => Status(t) = "executed"
                   /\ ticket[t] = "open" /\ ~Queued(t) /\ ~Held(t, "run") /\ ~Held(t, "ran")
                        /\ ~Held(t, "mark") => Status(t) = "lost"
  BY DEF StatusCases
<1>1. ticket[t] \in {"none", "open", "done", "direct"}
  BY DEF TypeOK
<1>2. /\ Held(t, "run") \/ Held(t, "ran") \/ Held(t, "mark") => ticket[t] = "open" /\ ~Queued(t)
      /\ ~(Held(t, "run") /\ (Held(t, "ran") \/ Held(t, "mark")))
      /\ Queued(t) => ticket[t] = "open"
  BY HeldFacts
<1>3. Status(t) = CASE ticket[t] \in {"none", "direct"} -> "new"
                    [] ticket[t] = "done" -> "done"
                    [] ticket[t] = "open" /\ Queued(t) -> "queued"
                    [] ticket[t] = "open" /\ Held(t, "run") -> "running"
                    [] ticket[t] = "open" /\ (Held(t, "ran") \/ Held(t, "mark")) -> "executed"
                    [] OTHER -> "lost"
  BY DEF Status
<1> QED BY <1>1, <1>2, <1>3 DEF InPool

LEMMA StatusValueNext == TypeOK' /\ TaskInOnePlace' => StatusCases'
  BY StatusValue, PTL

(* A step that leaves a task where it is leaves its status. *)
LEMMA StatusKept ==
  ASSUME NEW t \in Tasks, ticket'[t] = ticket[t], Queued(t)' <=> Queued(t),
         \A w \in Workers : \/ worker'[w] = worker[w]
                            \/ worker[w].task # t /\ worker'[w].task # t
  PROVE  Status(t)' = Status(t)
<1>1. \A p : Held(t, p)' <=> Held(t, p)
  BY AtType DEF Held
<1> QED BY <1>1 DEF Status

Simulated == \/ \E t \in Tasks : \/ Exec!Enqueue(t) \/ Exec!Take(t) \/ Exec!Finish(t)
                                 \/ Exec!Throw(t)   \/ Exec!Mark(t) \/ Exec!Return(t)
             \/ StatusMap' = StatusMap /\ AwaitedSet' = AwaitedSet

SameWaits == \A t \in Tasks : (InPool(t) /\ ~Outstanding(t))' <=> InPool(t) /\ ~Outstanding(t)

LEMMA Stutters ==
  ASSUME \A t \in Tasks : Status(t)' = Status(t), SameWaits
  PROVE  Simulated
  BY DEF StatusMap, AwaitedSet, SameWaits, Simulated

LEMMA Moves ==
  ASSUME NEW u \in Tasks, NEW from, NEW to, Status(u) = from, Status(u)' = to,
         \A t \in Tasks : t # u => Status(t)' = Status(t), SameWaits
  PROVE  Exec!Move(u, from, to)
<1>1. StatusMap[u] = from /\ StatusMap' = [StatusMap EXCEPT ![u] = to] /\ AwaitedSet' = AwaitedSet
  BY DEF StatusMap, AwaitedSet, SameWaits
<1> QED BY <1>1 DEF Exec!Move, StatusMap, AwaitedSet, InPool

(* Threads that have no task before and after a step. *)
FreeHands == \A w \in Workers : \/ worker'[w] = worker[w]
                                \/ worker[w].task = NoTask /\ worker'[w].task = NoTask

LEMMA PlainStep ==
  ASSUME UNCHANGED <<queue, ticket, outstanding>>, FreeHands
  PROVE  Simulated
<1>1. \A t \in Tasks : Status(t)' = Status(t)
  BY StatusKept, TasksAssumption DEF Queued, FreeHands
<1>2. SameWaits
  BY DEF SameWaits, InPool, Outstanding
<1> QED BY <1>1, <1>2, Stutters

-----------------------------------------------------------------------------
(* The steps of threads. *)

(* The end of a functor, and mark(): the thread's own task moves on. *)
LEMMA OwnMoves ==
  ASSUME TypeOK, NEW w \in Workers, NEW u \in Tasks, worker[w].task = u,
         worker'[w].task \in {u, NoTask},
         \A v \in Workers : v # w => worker'[v] = worker[v],
         \A t \in Tasks : t # u => ticket'[t] = ticket[t],
         InPool(u), InPool(u)', UNCHANGED <<queue, outstanding>>,
         NEW from, NEW to, Status(u) = from, Status(u)' = to
  PROVE  Exec!Move(u, from, to) /\ (from = to => Simulated)
<1>1. \A t \in Tasks : t # u => Status(t)' = Status(t)
  BY StatusKept, TasksAssumption DEF Queued
<1>2. SameWaits
  BY DEF SameWaits, InPool, Outstanding
<1> QED BY <1>1, <1>2, Moves, Stutters

LEMMA SimulatePick ==
  ASSUME TypeOK, TaskInOnePlace, StatusCases, StatusCases',
         NEW w \in Workers, worker[w].task = NoTask, NEW p, PickWork(w, p),
         UNCHANGED <<ticket, outstanding>>
  PROVE  Simulated
<1>0. /\ worker \in [Workers -> WorkerStates] /\ Home(w) \in Devices
      /\ \A v \in Workers : v # w => worker'[v] = worker[v]
  BY PickWorkEffect, HomeType DEF TypeOK, WorkerStates, Holding
<1>1. CASE queue[Home(w)] = <<>>
  <2>1. UNCHANGED queue /\ worker'[w] = At(p, NoTask)
    BY <1>0, <1>1 DEF PickWork
  <2>2. FreeHands
    BY <1>0, <2>1, AtType DEF FreeHands
  <2> QED BY <2>1, <2>2, PlainStep
<1>2. CASE queue[Home(w)] # <<>>
  <2>u. PICK u : u = Head(queue[Home(w)])
    OBVIOUS
  <2>q. PICK q \in Devices : q = Home(w)
    BY <1>0
  <2>1. worker'[w] = At("run", u) /\ queue' = [queue EXCEPT ![q] = Tail(@)]
    BY <1>0, <1>2, <2>u, <2>q DEF PickWork
  <2>2. /\ 1 \in 1..Len(queue[q]) /\ u = queue[q][1] /\ u \in Tasks
        /\ \A r \in Devices : \A i \in 1..Len(queue'[r]) :
              \E j \in 1..Len(queue[r]) : /\ queue'[r][i] = queue[r][j]
                                          /\ j = IF r = q THEN i + 1 ELSE i
    BY <1>2, <2>1, <2>u, <2>q, Popped
  <2>3. \A r \in Devices : \A j \in 1..Len(queue[r]) :
            (r = q /\ j = 1) \/ \E i \in 1..Len(queue'[r]) : queue'[r][i] = queue[r][j]
    BY <1>2, <2>1, <2>q, PoppedBack
  <2>4. \A t \in Tasks : Queued(t)' => Queued(t) /\ t # u
    <3> SUFFICES ASSUME NEW t \in Tasks, NEW r \in Devices, NEW i \in 1..Len(queue'[r]), queue'[r][i] = t
                 PROVE  Queued(t) /\ t # u
      BY DEF Queued
    <3>1. PICK j \in 1..Len(queue[r]) : queue'[r][i] = queue[r][j] /\ j = IF r = q THEN i + 1 ELSE i
      BY <2>2
    <3>2. ~(r = q /\ j = 1)
      BY <3>1
    <3>4. queue[r][j] # u
      BY <2>2, <3>2 DEF TaskInOnePlace
    <3> QED BY <3>1, <3>4 DEF Queued
  <2>5. \A t \in Tasks : Queued(t) /\ t # u => Queued(t)'
    <3> SUFFICES ASSUME NEW t \in Tasks, t # u, NEW r \in Devices, NEW j \in 1..Len(queue[r]), queue[r][j] = t
                 PROVE  Queued(t)'
      BY DEF Queued
    <3> QED BY <2>2, <2>3 DEF Queued
  <2>6. worker'[w].task = u /\ Held(u, "run")'
    BY <2>1, AtType DEF Held
  <2>7. Queued(u)
    BY <2>2 DEF Queued
  <2>8. Status(u) = "queued" /\ Status(u)' = "running"
    BY <2>2, <2>6, <2>7 DEF StatusCases
  <2>9. \A t \in Tasks : t # u => Status(t)' = Status(t)
    BY <1>0, <2>4, <2>5, <2>6, StatusKept, TasksAssumption
  <2>10. SameWaits
    BY DEF SameWaits, InPool, Outstanding
  <2>11. Exec!Move(u, "queued", "running")
    BY <2>2, <2>8, <2>9, <2>10, Moves
  <2> QED BY <2>2, <2>11 DEF Exec!Take, Simulated
<1> QED BY <1>1, <1>2

(* A thread's task, and where it is. *)
LEMMA OwnTask ==
  ASSUME TypeOK, TaskInOnePlace, NEW w \in Workers, worker[w].at \in {"run", "ran", "mark"}
  PROVE  /\ worker[w].task \in Tasks /\ ticket[worker[w].task] = "open"
         /\ Held(worker[w].task, worker[w].at)
         /\ \A v \in Workers : v # w => worker[v].task # worker[w].task
         /\ ~Queued(worker[w].task)
<1>1. worker \in [Workers -> WorkerStates]
  BY DEF TypeOK, WorkerStates, Holding
<1>2. worker[w].task # NoTask
  BY DEF TaskInOnePlace, Busied
<1>3. worker[w].task \in Tasks
  BY <1>1, <1>2 DEF WorkerStates, Holding
<1>4. worker[w] = At(worker[w].at, worker[w].task)
  BY <1>1 DEF WorkerStates, At
<1>5. Held(worker[w].task, worker[w].at)
  BY <1>4 DEF Held
<1> QED BY <1>2, <1>3, <1>5, HeldFacts DEF TaskInOnePlace

(* The functor ends: it throws, or its ticket will be marked. *)
LEMMA SimulateEnd ==
  ASSUME TypeOK, TypeOK', TaskInOnePlace, StatusCases, StatusCases', NEW w \in Workers,
         worker[w].at = "run", UNCHANGED <<queue, ticket, outstanding>>,
         \A v \in Workers : v # w => worker'[v] = worker[v],
         \/ worker[w].task \in Faulty /\ worker'[w] = At("gone", NoTask)
         \/ worker[w].task \notin Faulty /\ worker'[w] = At("ran", worker[w].task)
  PROVE  Simulated
<1>u. PICK u : u = worker[w].task
  OBVIOUS
<1>1. /\ u \in Tasks /\ ticket[u] = "open" /\ Held(u, "run") /\ ~Queued(u)
      /\ \A v \in Workers : v # w => worker[v].task # u
  BY <1>u, OwnTask
<1>2. Status(u) = "running" /\ InPool(u) /\ InPool(u)'
  BY <1>1 DEF StatusCases, InPool
<1>3. CASE u \in Faulty
  <2>1. worker'[w] = At("gone", NoTask)
    BY <1>u, <1>3
  <2>2. \A v \in Workers : worker'[v].task # u
    BY <1>1, <2>1, AtType, TasksAssumption
  <2>3. \A p : ~Held(u, p)'
    BY <2>2, AtType DEF Held
  <2>4. ~Queued(u)' /\ ticket'[u] = "open"
    BY <1>1 DEF Queued
  <2>5. Status(u)' = "lost"
    BY <1>1, <2>3, <2>4 DEF StatusCases
  <2>6. Exec!Move(u, "running", "lost")
    BY <1>1, <1>2, <1>u, <2>1, <2>5, OwnMoves, AtType
  <2> QED BY <1>1, <1>3, <2>6 DEF Exec!Throw, Simulated
<1>4. CASE u \notin Faulty
  <2>1. worker'[w] = At("ran", u)
    BY <1>u, <1>4
  <2>2. Held(u, "ran")'
    BY <2>1 DEF Held
  <2>3. Status(u)' = "executed"
    BY <1>1, <2>2 DEF StatusCases
  <2>4. Exec!Move(u, "running", "executed")
    BY <1>1, <1>2, <1>u, <2>1, <2>3, OwnMoves, AtType
  <2> QED BY <1>1, <1>4, <2>4 DEF Exec!Finish, Simulated
<1> QED BY <1>3, <1>4
LEMMA SimulateWorker ==
  ASSUME IInv, TypeOK', StatusCases, StatusCases', NEW w \in Workers, WorkerStep(w) \/ SpuriousWakeup(w)
  PROVE  Simulated
<1>0. /\ TypeOK /\ TaskInOnePlace /\ worker \in [Workers -> WorkerStates]
      /\ \A v \in Workers : v # w => worker'[v] = worker[v]
      /\ outstanding' = outstanding
  <2>1. TypeOK /\ TaskInOnePlace
    BY DEF IInv
  <2> QED BY <2>1, WorkerEffect DEF TypeOK, WorkerStates, Holding, calls
<1>1. CASE Look(w) \/ LookAgain(w)
  <2>1. UNCHANGED ticket /\ worker[w].at \in {"top", "woken", "pick"} /\ \E p : PickWork(w, p)
    BY <1>1 DEF Look, LookAgain
  <2>2. worker[w].task = NoTask
    BY <1>0, <2>1 DEF TaskInOnePlace, Busied
  <2> QED BY <1>0, <2>1, <2>2, SimulatePick
<1>2. CASE Check(w) \/ SpuriousWakeup(w)
  <2>1. /\ worker[w].at \in {"check", "wait"} /\ worker'[w].task = worker[w].task
        /\ UNCHANGED <<queue, ticket>>
    BY <1>0, <1>2 DEF Check, SpuriousWakeup, WorkerStates
  <2>2. worker[w].task = NoTask
    BY <1>0, <2>1 DEF TaskInOnePlace, Busied
  <2>3. FreeHands
    BY <1>0, <2>1, <2>2 DEF FreeHands
  <2> QED BY <1>0, <2>1, <2>3, PlainStep
<1>3. CASE Run(w)
  <2>1. worker[w].at = "run" /\ UNCHANGED <<queue, ticket>>
    BY <1>3 DEF Run
  <2>2. \/ worker[w].task \in Faulty /\ worker'[w] = At("gone", NoTask)
        \/ worker[w].task \notin Faulty /\ worker'[w] = At("ran", worker[w].task)
    BY <1>0, <1>3 DEF Run
  <2> QED BY <1>0, <2>1, <2>2, SimulateEnd
<1>4. CASE Ask(w) \/ AskOn(w)
  <2>1. UNCHANGED <<queue, ticket, worker>>
    BY <1>4 DEF Ask, AskOn, work
  <2> QED BY <1>0, <2>1, PlainStep DEF FreeHands
<1>5. CASE RunAnswered(w)
  <2>1. /\ worker[w].at = "run" /\ UNCHANGED <<queue, ticket>> /\ ask[w] # 0 /\ (SaysNo(w) \/ SaysYes(w))
    BY <1>5 DEF RunAnswered, SaysNo, SaysYes
  <2>3. ~SaysYes(w)
    <3>1. PICK k \in 1..Len(threads) : k >= ask[w]
      BY <2>1 DEF IInv, TasksKnowTheirThread
    <3>2. /\ Len(threads) \in Nat /\ numGpus \in Nat /\ numGpus > 0 /\ ask[w] \in Nat
      <4>1. numGpus \in Nat /\ numGpus > 0 /\ threads \in [1..numGpus -> Workers] /\ ask[w] \in Nat
        BY <1>0, NumGpusAssumption DEF TypeOK, Devices
      <4> QED BY <4>1
    <3> QED BY <3>1, <3>2 DEF SaysYes, LastAsked, QueueAsked
  <2>4. \/ worker[w].task \in Faulty /\ worker'[w] = At("gone", NoTask)
        \/ worker[w].task \notin Faulty /\ worker'[w] = At("ran", worker[w].task)
    BY <1>0, <1>5, <2>3, AnswerEffect
  <2> QED BY <1>0, <2>1, <2>4, SimulateEnd
<1>6. CASE SetIdle(w)
  <2>1. /\ worker[w].at = "ran" /\ UNCHANGED <<queue, ticket>>
        /\ worker'[w] = At("mark", worker[w].task)
    BY <1>0, <1>6 DEF SetIdle, WorkerStates, At
  <2>u. PICK u : u = worker[w].task
    OBVIOUS
  <2>2. u \in Tasks /\ ticket[u] = "open" /\ Held(u, "ran")
    BY <1>0, <2>1, <2>u, OwnTask
  <2>3. worker'[w] = At("mark", u) /\ Held(u, "mark")'
    BY <2>1, <2>u DEF Held
  <2>4. Status(u) = "executed" /\ Status(u)' = "executed"
    BY <2>2, <2>3 DEF StatusCases
  <2>5. InPool(u) /\ InPool(u)'
    BY <2>1, <2>2 DEF InPool
  <2> QED BY <1>0, <2>u, <2>1, <2>2, <2>3, <2>4, <2>5, OwnMoves, AtType
<1>7. CASE Mark(w)
  <2>1. worker[w].at = "mark" /\ UNCHANGED queue /\ worker'[w] = At("pick", NoTask)
    BY <1>0, <1>7 DEF Mark
  <2>u. PICK u : u = worker[w].task
    OBVIOUS
  <2>2. u \in Tasks /\ ticket[u] = "open" /\ Held(u, "mark")
    BY <1>0, <2>1, <2>u, OwnTask
  <2>3. ticket'[u] = "done" /\ \A t \in Tasks : t # u => ticket'[t] = ticket[t]
    BY <1>0, <1>7, <2>u, <2>2 DEF Mark, TypeOK
  <2>4. Status(u) = "executed" /\ Status(u)' = "done"
    BY <2>2, <2>3 DEF StatusCases
  <2>5. InPool(u) /\ InPool(u)'
    BY <2>2, <2>3 DEF InPool
  <2>6. Exec!Move(u, "executed", "done")
    BY <1>0, <2>u, <2>1, <2>2, <2>3, <2>4, <2>5, OwnMoves, AtType
  <2> QED BY <2>2, <2>6 DEF Exec!Mark, Simulated
<1> QED BY <1>1, <1>2, <1>3, <1>4, <1>5, <1>6, <1>7 DEF WorkerStep

-----------------------------------------------------------------------------
(* The steps of clients. *)

LEMMA ClientFreeHands ==
  ASSUME IInv, NEW c \in Clients, ClientStep(c) \/ ClientCall(c)
  PROVE  FreeHands
<1>0. /\ TypeOK /\ CallsInOrder /\ ThreadsInPlace /\ TaskInOnePlace
      /\ worker \in [Workers -> WorkerStates]
      /\ \A w \in Workers : worker[w].at \in {"wait", "absent"} => worker[w].task = NoTask
  BY DEF IInv, TypeOK, WorkerStates, Holding, TaskInOnePlace, Busied
<1>1. CASE Renews(c)
  <2>1. /\ worker' = [worker EXCEPT ![Restarted] = At("top", NoTask)]
        /\ worker[Restarted].at = "absent" /\ Restarted \in Workers
    BY <1>0, <1>1, RenewsEffect
  <2> QED BY <1>0, <2>1, AtType DEF FreeHands
<1>2. CASE ~Renews(c)
  BY <1>0, <1>2, ClientEffect, AtType DEF FreeHands
<1> QED BY <1>1, <1>2

LEMMA PutOutstanding ==
  ASSUME TypeOK, NEW c \in Clients, NEW u \in Tasks, NEW d, Put(c, u, d)
  PROVE  Outstanding(u)' /\ \A t : t # u => (Outstanding(t)' <=> Outstanding(t))
<1>1. /\ outstanding \in [Clients -> Seq(Tasks)]
      /\ outstanding' = [outstanding EXCEPT ![c] = Append(@, u)]
  BY DEF Put, TypeOK
<1>2. /\ outstanding'[c] = Append(outstanding[c], u)
      /\ \A e \in Clients : e # c => outstanding'[e] = outstanding[e]
      /\ outstanding[c] \in Seq(Tasks)
  BY <1>1
<1>3. /\ Len(outstanding[c]) \in Nat /\ Len(outstanding'[c]) = Len(outstanding[c]) + 1
      /\ outstanding'[c][Len(outstanding[c]) + 1] = u
      /\ \A i \in 1..Len(outstanding[c]) : outstanding'[c][i] = outstanding[c][i]
  BY <1>2, AppendProperties, LenProperties
<1>4. Outstanding(u)'
  BY <1>3 DEF Outstanding
<1>5. ASSUME NEW t, NEW e \in Clients, NEW i \in 1..Len(outstanding[e]), outstanding[e][i] = t
      PROVE  Outstanding(t)'
  <2>1. i \in 1..Len(outstanding'[e]) /\ outstanding'[e][i] = t
    BY <1>2, <1>3, <1>5
  <2> QED BY <2>1 DEF Outstanding
<1>6. ASSUME NEW t, t # u, NEW e \in Clients, NEW i \in 1..Len(outstanding'[e]), outstanding'[e][i] = t
      PROVE  Outstanding(t)
  <2>1. i \in 1..Len(outstanding[e]) /\ outstanding[e][i] = t
    BY <1>2, <1>3, <1>6
  <2> QED BY <2>1 DEF Outstanding
<1> QED BY <1>4, <1>5, <1>6 DEF Outstanding

LEMMA SimulatePut ==
  ASSUME TypeOK, TypeOK', StatusCases, StatusCases', FreeHands, NEW c \in Clients, NEW u \in Tasks,
         NEW d \in Int, Put(c, u, d), ticket[u] = "none"
  PROVE  Simulated
<1>1. PICK q \in Devices : queue' = [queue EXCEPT ![q] = Append(@, u)]
  <2>1. numGpus \in Nat /\ numGpus > 0 /\ numGpus <= NumGpus
    BY NumGpusAssumption DEF TypeOK, Devices
  <2>2. (d % numGpus) + 1 \in Devices
    BY <2>1, NumGpusAssumption DEF Devices
  <2> QED BY <2>2 DEF Put
<1>2. /\ queue \in [Devices -> Seq(Tasks)] /\ queue'[q] = Append(queue[q], u)
      /\ \A p \in Devices : p # q => queue'[p] = queue[p]
  BY <1>1 DEF TypeOK
<1>3. /\ Len(queue[q]) \in Nat /\ Len(queue'[q]) = Len(queue[q]) + 1
      /\ queue'[q][Len(queue[q]) + 1] = u
      /\ \A i \in 1..Len(queue[q]) : queue'[q][i] = queue[q][i]
  BY <1>2, AppendProperties, LenProperties
<1>4. Queued(u)'
  BY <1>3 DEF Queued
<1>5. \A t \in Tasks : Queued(t) => Queued(t)'
  <2> SUFFICES ASSUME NEW t \in Tasks, NEW p \in Devices, NEW i \in 1..Len(queue[p]), queue[p][i] = t
               PROVE  Queued(t)'
    BY DEF Queued
  <2>1. i \in 1..Len(queue'[p]) /\ queue'[p][i] = t
    BY <1>2, <1>3
  <2> QED BY <2>1 DEF Queued
<1>6. \A t \in Tasks : t # u /\ Queued(t)' => Queued(t)
  <2> SUFFICES ASSUME NEW t \in Tasks, t # u, NEW p \in Devices, NEW i \in 1..Len(queue'[p]), queue'[p][i] = t
               PROVE  Queued(t)
    BY DEF Queued
  <2>1. i \in 1..Len(queue[p]) /\ queue[p][i] = t
    BY <1>2, <1>3
  <2> QED BY <2>1 DEF Queued
<1>7. /\ ticket'[u] = "open" /\ \A t \in Tasks : t # u => ticket'[t] = ticket[t]
  BY DEF Put, TypeOK
<1>8. \A t \in Tasks : t # u => Status(t)' = Status(t)
  BY <1>5, <1>6, <1>7, StatusKept, TasksAssumption DEF FreeHands
<1>9. Status(u) = "new" /\ Status(u)' = "queued"
  BY <1>4 DEF StatusCases, InPool
<1>10. SameWaits
  <2>1. Outstanding(u)' /\ \A t : t # u => (Outstanding(t)' <=> Outstanding(t))
    BY PutOutstanding
  <2> QED BY <1>7, <2>1 DEF SameWaits, InPool
<1>11. Exec!Move(u, "new", "queued")
  BY <1>8, <1>9, <1>10, Moves
<1> QED BY <1>11 DEF Exec!Enqueue, Simulated

LEMMA FrontFacts ==
  ASSUME NEW S, NEW s \in Seq(S), s # <<>>
  PROVE  /\ Front(s) \in Seq(S)
         /\ Len(Front(s)) = Len(s) - 1
         /\ \A i \in 1..Len(s) - 1 : Front(s)[i] = s[i]
<1>1. Len(s) \in Nat /\ Len(s) # 0 /\ \A i \in 1..Len(s) : s[i] \in S
  BY EmptySeq, LenProperties, ElementOfSeq
<1> DEFINE n == Len(s) - 1
           u == SubSeq(s, 1, n)
<1>2. n \in Nat /\ 1 \in Int /\ n \in Int /\ \A i \in 1..n : s[i] \in S
  BY <1>1
<1> HIDE DEF n
<1>3. /\ u \in Seq(S)
      /\ Len(u) = IF 1 <= n THEN n - 1 + 1 ELSE 0
      /\ \A i \in 1..n - 1 + 1 : u[i] = s[1 + i - 1]
  BY <1>2, SubSeqProperties
<1> HIDE DEF u
<1>4. u \in Seq(S) /\ Len(u) = n /\ \A i \in 1..n : u[i] = s[i]
  BY <1>2, <1>3
<1> QED BY <1>4 DEF Front, n, u

(* A wait for one ticket: a completed one leaves its vector. *)
LEMMA SimulateAwait ==
  ASSUME TypeOK, StatusCases, FreeHands, NEW c \in Clients, Await(c), outstanding[c] # <<>>
  PROVE  Simulated
<1>1. /\ UNCHANGED <<queue, ticket>> /\ outstanding' = [outstanding EXCEPT ![c] = Front(@)]
      /\ ticket[outstanding[c][Len(outstanding[c])]] = "done"
  BY DEF Await, work
<1>s. PICK s \in Seq(Tasks) : s = outstanding[c] /\ s # <<>>
  BY DEF TypeOK
<1>2. /\ Len(s) \in Nat /\ Len(s) # 0 /\ s[Len(s)] \in Tasks
  BY <1>s, EmptySeq, LenProperties, ElementOfSeq
<1>3. Len(Front(s)) = Len(s) - 1 /\ \A i \in 1..Len(s) - 1 : Front(s)[i] = s[i]
  BY <1>s, FrontFacts
<1>u. PICK u \in Tasks : u = s[Len(s)]
  BY <1>2
<1>4. /\ outstanding'[c] = Front(s)
      /\ \A e \in Clients : e # c => outstanding'[e] = outstanding[e]
  BY <1>1, <1>s DEF TypeOK
<1>5. \A t \in Tasks : Outstanding(t)' => Outstanding(t)
  <2> SUFFICES ASSUME NEW t \in Tasks, NEW e \in Clients, NEW i \in 1..Len(outstanding'[e]), outstanding'[e][i] = t
               PROVE  Outstanding(t)
    BY DEF Outstanding
  <2>1. i \in 1..Len(outstanding[e]) /\ outstanding[e][i] = t
    BY <1>s, <1>2, <1>3, <1>4
  <2> QED BY <2>1 DEF Outstanding
<1>6. \A t \in Tasks : t # u /\ Outstanding(t) => Outstanding(t)'
  <2> SUFFICES ASSUME NEW t \in Tasks, t # u, NEW e \in Clients, NEW i \in 1..Len(outstanding[e]), outstanding[e][i] = t
               PROVE  Outstanding(t)'
    BY DEF Outstanding
  <2>1. i \in 1..Len(outstanding'[e]) /\ outstanding'[e][i] = t
    BY <1>s, <1>u, <1>2, <1>3, <1>4
  <2> QED BY <2>1 DEF Outstanding
<1>7. \A t \in Tasks : Status(t)' = Status(t)
  BY <1>1, StatusKept, TasksAssumption DEF Queued, FreeHands
<1>8. Status(u) = "done" /\ InPool(u) /\ \A t \in Tasks : InPool(t)' <=> InPool(t)
  BY <1>1, <1>s, <1>u DEF StatusCases, InPool
<1>9. CASE Outstanding(u)'
  <2>1. SameWaits
    BY <1>5, <1>6, <1>8, <1>9 DEF SameWaits
  <2> QED BY <1>7, <2>1, Stutters
<1>10. CASE ~Outstanding(u)'
  <2>1. AwaitedSet' = AwaitedSet \cup {u}
    BY <1>5, <1>6, <1>8, <1>10 DEF AwaitedSet
  <2>2. StatusMap[u] = "done" /\ StatusMap' = StatusMap
    BY <1>7, <1>8 DEF StatusMap
  <2>3. Exec!Return(u)
    BY <2>1, <2>2 DEF Exec!Return, StatusMap, AwaitedSet, InPool
  <2> QED BY <2>3 DEF Simulated
<1> QED BY <1>9, <1>10
LEMMA SimulateClient ==
  ASSUME IInv, TypeOK', StatusCases, StatusCases', NEW c \in Clients, ClientStep(c) \/ ClientCall(c)
  PROVE  Simulated
<1>0. FreeHands /\ TypeOK /\ CallsInOrder /\ Reserved /\ Operations \subseteq Tasks /\ 0..NumGpus \subseteq Int
  BY ClientFreeHands DEF IInv, Operations
<1>1. CASE Puts(c)
  <2>1. PICK t \in Tasks, d \in Int : Put(c, t, d) /\ ticket[t] = "none"
    BY <1>0, <1>1, PutsNew
  <2> QED BY <1>0, <2>1, SimulatePut
<1>2. CASE Answered(c)
  <2>1. UNCHANGED <<queue, outstanding>>
    BY <1>2 DEF Answered, work
  <2>2. CASE UNCHANGED ticket
    BY <1>0, <2>1, <2>2, PlainStep
  <2>3. CASE ~UNCHANGED ticket
    <3>1. PICK u : u = client[c].task
      OBVIOUS
    <3>2. /\ client[c].at = "ask" /\ client[c].call = "operate"
          /\ ticket' = [ticket EXCEPT ![u] = "direct"]
      BY <1>2, <2>3, <3>1 DEF Answered
    <3>3. u \in Tasks /\ ticket[u] = "none"
      BY <1>0, <3>1, <3>2 DEF Reserved, InReserve
    <3>4. ticket'[u] = "direct" /\ \A t \in Tasks : t # u => ticket'[t] = ticket[t]
      BY <1>0, <3>2, <3>3 DEF TypeOK
    <3>5. \A t \in Tasks : t # u => Status(t)' = Status(t)
      BY <1>0, <2>1, <3>4, StatusKept, TasksAssumption DEF Queued, FreeHands
    <3>6. ~InPool(u) /\ ~InPool(u)' /\ \A t \in Tasks : InPool(t)' <=> InPool(t)
      BY <3>3, <3>4 DEF InPool
    <3>7. Status(u) = "new" /\ Status(u)' = "new"
      BY <3>3, <3>6 DEF StatusCases
    <3>8. SameWaits
      BY <2>1, <3>6 DEF SameWaits, Outstanding
    <3> QED BY <3>5, <3>7, <3>8, Stutters
  <2> QED BY <2>2, <2>3
<1>3. CASE Await(c)
  <2>1. CASE outstanding[c] # <<>>
    BY <1>0, <1>3, <2>1, SimulateAwait
  <2>2. CASE outstanding[c] = <<>>
    <3>1. Front(outstanding[c]) = <<>>
      <4>1. Len(outstanding[c]) = 0
        BY <2>2, EmptySeq
      <4>2. 1 \in Int /\ Len(outstanding[c]) - 1 \in Int /\ Len(outstanding[c]) - 1 < 1
        BY <4>1
      <4> QED BY <4>2, SubSeqEmpty DEF Front
    <3>2. outstanding' = outstanding /\ UNCHANGED <<queue, ticket>>
      BY <1>0, <1>3, <2>2, <3>1 DEF Await, work, TypeOK
    <3> QED BY <1>0, <3>2, PlainStep
  <2> QED BY <2>1, <2>2
<1>4. CASE \/ AskOn(c) \/ Awaited(c) \/ Wait(c) \/ Stop(c) \/ Join(c)
           \/ Flush(c) \/ Restart(c) \/ Destroy(c) \/ \E t \in Operations : Operate(c, t)
  <2>1. UNCHANGED <<queue, ticket, outstanding>>
    BY <1>4 DEF AskOn, Awaited, Wait, Stop, Join, Flush, Restart, Destroy, Operate, work, calls
  <2> QED BY <1>0, <2>1, PlainStep
<1> QED BY <1>1, <1>2, <1>3, <1>4 DEF Puts, ClientStep, ClientCall
LEMMA Simulation == IInv /\ IInv' /\ [Next]_vars => [Exec!Next]_Exec!vars
<1> SUFFICES ASSUME IInv, IInv', [Next]_vars PROVE Simulated
  BY DEF Simulated, Exec!Next, Exec!vars, StatusMap, AwaitedSet, InPool
<1>0. TypeOK' /\ StatusCases /\ StatusCases'
  BY StatusValue, StatusValueNext DEF IInv
<1>1. CASE Closed \/ UNCHANGED vars
  <2>1. UNCHANGED <<queue, ticket, outstanding, worker>>
    BY <1>1 DEF Closed, vars, work, calls
  <2> QED BY <2>1, PlainStep DEF FreeHands
<1>2. CASE \E w \in Workers : WorkerStep(w) \/ SpuriousWakeup(w)
  BY <1>0, <1>2, SimulateWorker
<1>3. CASE \E c \in Clients : ClientStep(c) \/ ClientCall(c)
  BY <1>0, <1>3, SimulateClient
<1> QED BY <1>1, <1>2, <1>3 DEF Next

(* Clients may rely on the GPU pool as on Executor: a task is taken once,  *)
(* its functor ends once and is then marked, and a wait returns after that,*)
(* whatever is flushed, restarted or called from a task (gpu_pool.cc,      *)
(* gpu_function.cc).                                                       *)
THEOREM GPUImplementsExecutor == Spec => ImplementsExecutor
<1>1. Init => Exec!Init
  <2> SUFFICES ASSUME Init PROVE Exec!Init
    OBVIOUS
  <2>1. \A t \in Tasks : ticket[t] = "none"
    BY DEF Init
  <2>2. \A t \in Tasks : Status(t) = "new"
    BY <2>1 DEF Status
  <2> QED BY <2>1, <2>2 DEF Exec!Init
<1> QED BY <1>1, InitIInv, NextIInv, Simulation, PTL DEF Spec, ImplementsExecutor, Exec!Spec
=============================================================================
