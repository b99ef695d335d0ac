-------------------------- MODULE ThreadPoolProofs --------------------------
(***************************************************************************)
(* Proofs about ThreadPool, for any numbers of workers, clients and tasks, *)
(* any kind of list and any functors that throw: tasks are in one place,   *)
(* no wake-up is lost, nothing is left when the pool is destroyed, workers *)
(* are bound, waiters are told, and the pool implements Executor.          *)
(***************************************************************************)
EXTENDS ThreadPool, SequenceTheorems, TLAPS

-----------------------------------------------------------------------------
(* Sequences: what Append, Front and Without leave of one. *)

LEMMA FrontFacts ==
  ASSUME NEW S, NEW s \in Seq(S), s # <<>>
  PROVE  /\ Front(s) \in Seq(S)
         /\ Len(Front(s)) = Len(s) - 1
         /\ \A i \in 1..Len(s) - 1 : Front(s)[i] = s[i]
<1>1. Len(s) \in Nat /\ Len(s) # 0 /\ \A i \in 1..Len(s) : s[i] \in S
  BY EmptySeq, LenProperties, ElementOfSeq
<1> DEFINE n == Len(s) - 1
           u == SubSeq(s, 1, n)
<1>2. n \in Nat /\ 1 \in Int /\ n \in Int /\ \A i \in 1..n : s[i] \in S
  BY <1>1
<1> HIDE DEF n
<1>3. /\ u \in Seq(S)
      /\ Len(u) = IF 1 <= n THEN n - 1 + 1 ELSE 0
      /\ \A i \in 1..n - 1 + 1 : u[i] = s[1 + i - 1]
  BY <1>2, SubSeqProperties
<1> HIDE DEF u
<1>4. u \in Seq(S) /\ Len(u) = n /\ \A i \in 1..n : u[i] = s[i]
  BY <1>2, <1>3
<1> QED BY <1>4 DEF Front, n, u

(* The element that position j of Without(s, i) shows. *)
Skip(i, j) == IF j < i THEN j ELSE j + 1

LEMMA WithoutFacts ==
  ASSUME NEW S, NEW s \in Seq(S), NEW i \in 1..Len(s)
  PROVE  /\ Without(s, i) \in Seq(S)
         /\ Len(Without(s, i)) = Len(s) - 1
         /\ \A j \in 1..Len(s) - 1 : Without(s, i)[j] = s[Skip(i, j)]
<1> DEFINE u == SubSeq(s, 1, i - 1)
           v == SubSeq(s, i + 1, Len(s))
<1>1. Len(s) \in Nat /\ i \in Int /\ \A j \in 1..Len(s) : s[j] \in S
  BY LenProperties, ElementOfSeq
<1>2. /\ u \in Seq(S) /\ Len(u) = i - 1
      /\ \A j \in 1..i - 1 : u[j] = s[j]
  BY <1>1, SubSeqProperties
<1>3. /\ v \in Seq(S) /\ Len(v) = Len(s) - i
      /\ \A j \in 1..Len(s) - i : v[j] = s[i + j]
  <2>1. i + 1 \in Int /\ Len(s) \in Int /\ \A j \in i + 1..Len(s) : s[j] \in S
    BY <1>1
  <2>2. /\ v \in Seq(S)
        /\ Len(v) = IF i + 1 <= Len(s) THEN Len(s) - (i + 1) + 1 ELSE 0
        /\ \A j \in 1..Len(s) - (i + 1) + 1 : v[j] = s[i + 1 + j - 1]
    BY <2>1, SubSeqProperties
  <2> QED BY <1>1, <2>2
<1> HIDE DEF u, v
<1>4. /\ u \o v \in Seq(S)
      /\ Len(u \o v) = Len(u) + Len(v)
      /\ \A j \in 1..Len(u) + Len(v) : (u \o v)[j] = IF j <= Len(u) THEN u[j] ELSE v[j - Len(u)]
  BY <1>2, <1>3, ConcatProperties
<1>5. Len(u) + Len(v) = Len(s) - 1
  BY <1>1, <1>2, <1>3
<1>6. \A j \in 1..Len(s) - 1 : (u \o v)[j] = s[Skip(i, j)]
  <2> SUFFICES ASSUME NEW j \in 1..Len(s) - 1 PROVE (u \o v)[j] = s[Skip(i, j)]
    OBVIOUS
  <2>1. CASE j <= i - 1
    BY <1>1, <1>2, <1>4, <1>5, <2>1 DEF Skip
  <2>2. CASE ~(j <= i - 1)
    <3>1. j - (i - 1) \in 1..Len(s) - i /\ i + (j - (i - 1)) = j + 1 /\ ~(j < i)
      BY <1>1, <2>2
    <3> QED BY <1>1, <1>2, <1>3, <1>4, <1>5, <2>2, <3>1 DEF Skip
  <2> QED BY <2>1, <2>2
<1> QED BY <1>4, <1>5, <1>6 DEF Without, u, v

(* Erasing position i of a sequence takes away that element, and no other. *)
LEMMA WithoutElements ==
  ASSUME NEW S, NEW s \in Seq(S), NEW i \in 1..Len(s), NEW x
  PROVE  /\ \A j \in 1..Len(Without(s, i)) : Skip(i, j) \in 1..Len(s) /\ Skip(i, j) # i
         /\ \A j, k \in 1..Len(Without(s, i)) : Skip(i, j) = Skip(i, k) => j = k
         /\ \A k \in 1..Len(s) : k # i => \E j \in 1..Len(Without(s, i)) : k = Skip(i, j)
<1>1. Len(s) \in Nat /\ Len(Without(s, i)) = Len(s) - 1
  BY LenProperties, WithoutFacts
<1>2. \A k \in 1..Len(s) : k # i => \E j \in 1..Len(Without(s, i)) : k = Skip(i, j)
  <2> SUFFICES ASSUME NEW k \in 1..Len(s), k # i
               PROVE  \E j \in 1..Len(s) - 1 : k = Skip(i, j)
    BY <1>1
  <2>1. CASE k < i
    BY <1>1, <2>1 DEF Skip
  <2>2. CASE k > i
    <3>1. k - 1 \in 1..Len(s) - 1 /\ ~(k - 1 < i) /\ (k - 1) + 1 = k
      BY <1>1, <2>2
    <3> QED BY <3>1 DEF Skip
  <2> QED BY <1>1, <2>1, <2>2
<1> QED BY <1>1, <1>2 DEF Skip

-----------------------------------------------------------------------------
(* Types. *)

Holding == Tasks \cup {NoTask}

WorkerStates == [at : Places, task : Holding]

LEMMA AtType ==
  ASSUME NEW p, NEW t
  PROVE  /\ At(p, t).at = p /\ At(p, t).task = t
         /\ p \in Places /\ t \in Holding => At(p, t) \in WorkerStates
         /\ p \in ClientPlaces /\ t \in Holding => At(p, t) \in [at : ClientPlaces, task : Holding]
  BY DEF At, WorkerStates

LEMMA BroadcastType ==
  ASSUME NEW ws \in [Workers -> WorkerStates]
  PROVE  Broadcast(ws) \in [Workers -> WorkerStates]
<1>1. At("look", NoTask) \in WorkerStates
  BY AtType DEF Places, Holding
<1> QED BY <1>1 DEF Broadcast, Awake

LEMMA RousedType ==
  ASSUME main \in [at : MainPlaces, i : Workers]
  PROVE  Roused \in [at : MainPlaces, i : Workers]
  BY DEF Roused, MainPlaces

LEMMA TakeType ==
  ASSUME TypeOK, NEW w \in Workers, NEW i \in 1..Len(list), Take(w, i)
  PROVE  worker' \in [Workers -> WorkerStates] /\ list' \in Seq(Tasks)
<1>1. list[i] \in Tasks
  BY ElementOfSeq DEF TypeOK
<1>2. At("run", list[i]) \in WorkerStates
  BY <1>1, AtType DEF Places, Holding
<1>3. Without(list, i) \in Seq(Tasks)
  BY WithoutFacts DEF TypeOK
<1> QED BY <1>2, <1>3 DEF Take, TypeOK, WorkerStates, Holding

LEMMA WaitForType ==
  ASSUME TypeOK, NEW c \in Clients, NEW t \in Holding, WaitFor(c, t)
  PROVE  /\ client' \in [Clients -> [at : ClientPlaces, task : Holding]]
         /\ outstanding' \in [Clients -> Seq(Tasks)]
<1>1. /\ At("idle", NoTask) \in [at : ClientPlaces, task : Holding]
      /\ At("wait", t) \in [at : ClientPlaces, task : Holding]
  BY AtType DEF ClientPlaces, Holding
<1>2. outstanding[c] # <<>> => Front(outstanding[c]) \in Seq(Tasks)
  BY FrontFacts DEF TypeOK
<1>3. client' \in [Clients -> [at : ClientPlaces, task : Holding]]
  BY <1>1 DEF WaitFor, TypeOK, Holding
<1>4. CASE outstanding' = outstanding
  BY <1>3, <1>4 DEF TypeOK
<1>5. CASE outstanding[c] # <<>> /\ outstanding' = [outstanding EXCEPT ![c] = Front(@)]
  BY <1>2, <1>3, <1>5 DEF TypeOK
<1> QED BY <1>4, <1>5 DEF WaitFor

(* mark() wakes one of the clients that wait for the ticket, if any does.  *)
LEMMA MarkEffect ==
  ASSUME NEW w \in Workers, Mark(w)
  PROVE  \/ /\ \A c \in Clients : client[c] # At("wait", worker[w].task)
            /\ client' = client
         \/ \E c \in Clients : /\ client[c] = At("wait", worker[w].task)
                              /\ client' = [client EXCEPT ![c] = At("woken", worker[w].task)]
<1> DEFINE waiters == {c \in Clients : client[c] = At("wait", worker[w].task)}
<1>1. CASE waiters = {}
  <2>1. client' \in {client}
    BY <1>1 DEF Mark, Signalled
  <2> QED BY <1>1, <2>1
<1>2. CASE waiters # {}
  <2>1. client' \in {[client EXCEPT ![c] = At("woken", worker[w].task)] : c \in waiters}
    BY <1>2 DEF Mark, Signalled
  <2> QED BY <2>1
<1> QED BY <1>1, <1>2

LEMMA TypeInit == Init => TypeOK
<1>1. 1 \in Workers
  BY NumThreadsAssumption DEF Workers
<1>2. /\ At("absent", NoTask) \in WorkerStates
      /\ At("idle", NoTask) \in [at : ClientPlaces, task : Holding]
  BY AtType DEF Places, ClientPlaces, Holding
<1>3. <<>> \in Seq(Tasks)
  BY EmptySeq
<1> QED BY <1>1, <1>2, <1>3 DEF Init, TypeOK, MainPlaces, WorkerStates, Holding

LEMMA TypeNext == TypeOK /\ [Next]_vars => TypeOK'
<1> SUFFICES ASSUME TypeOK, [Next]_vars PROVE TypeOK'
  OBVIOUS
<1> USE DEF TypeOK
<1>0. /\ worker \in [Workers -> WorkerStates]
      /\ NoTask \in Holding
      /\ \A p \in Places : At(p, NoTask) \in WorkerStates
      /\ \A p \in ClientPlaces : At(p, NoTask) \in [at : ClientPlaces, task : Holding]
      /\ main.i \in Workers /\ main.at \in MainPlaces
  BY AtType DEF WorkerStates, Holding
<1>n. main.i # NumThreads => main.i + 1 \in Workers
  BY <1>0, NumThreadsAssumption DEF Workers
<1>1. CASE Spawn
  BY <1>0, <1>1 DEF Spawn, MainPlaces, Places, WorkerStates, Holding
<1>2. CASE Pin
  BY <1>0, <1>n, <1>2 DEF Pin, MainPlaces
<1>3. CASE Terminate
  BY <1>0, <1>3, BroadcastType DEF Terminate, MainPlaces, WorkerStates, Holding
<1>4. CASE Join
  BY <1>0, <1>n, <1>4 DEF Join, MainPlaces
<1>5. CASE SpuriousWakeup
  BY <1>5, RousedType DEF SpuriousWakeup
<1>6. CASE Drop
  <2>1. 1 \in Workers
    BY NumThreadsAssumption DEF Workers
  <2> QED BY <1>6, <2>1 DEF Drop, MainPlaces
<1>7. CASE Closed \/ UNCHANGED vars
  BY <1>7 DEF Closed, vars
<1>8. ASSUME NEW w \in Workers, WorkerStep(w) \/ SpuriousLook(w) PROVE TypeOK'
  <2>1. CASE Start(w)
    <3>1. [worker EXCEPT ![w] = At("look", NoTask)] \in [Workers -> WorkerStates]
      BY <1>0 DEF Places
    <3> QED BY <2>1, <3>1, BroadcastType, RousedType DEF Start, WorkerStates, Holding
  <2>2. CASE TryPop(w)
    <3>1. CASE list # <<>>
      <4>1. 1 \in 1..Len(list)
        BY <3>1, EmptySeq
      <4> QED BY <2>2, <3>1, <4>1, TakeType DEF TryPop, WorkerStates, Holding
    <3>2. CASE list = <<>>
      <4>1. [worker EXCEPT ![w] = At("slow", NoTask)] \in [Workers -> WorkerStates]
        BY <1>0 DEF Places
      <4> QED BY <2>2, <3>2, <4>1 DEF TryPop, WorkerStates, Holding
    <3> QED BY <3>1, <3>2
  <2>3. CASE Pick(w)
    <3>1. CASE \E i \in Acceptable(w) : Take(w, i)
      BY <2>3, <3>1, TakeType DEF Pick, Acceptable, WorkerStates, Holding
    <3>2. CASE /\ worker' = [worker EXCEPT ![w] = At(IF terminate[w] THEN "gone" ELSE "wait", NoTask)]
               /\ UNCHANGED list
      <4>1. (IF terminate[w] THEN "gone" ELSE "wait") \in Places
        BY DEF Places
      <4> QED BY <1>0, <2>3, <3>2, <4>1 DEF Pick, WorkerStates, Holding
    <3> QED BY <2>3, <3>1, <3>2 DEF Pick
  <2>4. CASE Run(w)
    <3>1. At("mark", worker[w].task) \in WorkerStates
      BY <1>0, AtType DEF Places, WorkerStates
    <3> QED BY <1>0, <2>4, <3>1 DEF Run, Places, WorkerStates, Holding
  <2>5. CASE Mark(w)
    <3>1. client' \in [Clients -> [at : ClientPlaces, task : Holding]]
      <4>1. At("woken", worker[w].task) \in [at : ClientPlaces, task : Holding]
        BY <1>0, AtType DEF ClientPlaces, WorkerStates
      <4> QED BY <2>5, <4>1, MarkEffect DEF Holding
    <3> QED BY <1>0, <2>5, <3>1 DEF Mark, Places, WorkerStates, Holding
  <2>6. CASE SpuriousLook(w)
    BY <1>0, <2>6 DEF SpuriousLook, Places, WorkerStates, Holding
  <2> QED BY <1>8, <2>1, <2>2, <2>3, <2>4, <2>5, <2>6 DEF WorkerStep
<1>9. ASSUME NEW c \in Clients,
             \/ ClientStep(c) \/ SpuriousReturn(c)
             \/ \E t \in Tasks : Enqueue(c, t) \/ Wait(c, t)
      PROVE  TypeOK'
  <2>1. CASE Announce(c)
    BY <1>0, <2>1, BroadcastType DEF Announce, ClientPlaces, WorkerStates, Holding
  <2>2. CASE WakeUp(c)
    <3>1. client[c].task \in Holding
      BY DEF Holding
    <3> QED BY <2>2, <3>1, WaitForType DEF WakeUp, Holding
  <2>3. CASE SpuriousReturn(c)
    BY <2>3 DEF SpuriousReturn, ClientPlaces
  <2>4. ASSUME NEW t \in Tasks, Enqueue(c, t) PROVE TypeOK'
    <3>1. Append(list, t) \in Seq(Tasks) /\ Append(outstanding[c], t) \in Seq(Tasks)
      BY AppendProperties
    <3> QED BY <1>0, <2>4, <3>1, BroadcastType DEF Enqueue, ClientPlaces, WorkerStates, Holding
  <2>5. ASSUME NEW t \in Tasks, Wait(c, t) PROVE TypeOK'
    <3>1. t \in Holding
      BY DEF Holding
    <3> QED BY <2>5, <3>1, WaitForType DEF Wait, Holding
  <2> QED BY <1>9, <2>1, <2>2, <2>3, <2>4, <2>5 DEF ClientStep
<1> QED BY <1>1, <1>2, <1>3, <1>4, <1>5, <1>6, <1>7, <1>8, <1>9 DEF Next, MainStep

(* Every variable keeps its type, the places of threads included. *)
THEOREM PoolTypeOK == Spec => []TypeOK
  BY TypeInit, TypeNext, PTL DEF Spec

-----------------------------------------------------------------------------
(* What the broadcast on the shared barrier, a waiter's wake-up and taking *)
(* a task do to the places of workers and tasks.                           *)

LEMMA BroadcastEffect ==
  ASSUME NEW ws \in [Workers -> WorkerStates], NEW w \in Workers
  PROVE  /\ Broadcast(ws)[w].at = IF ws[w].at = "wait" THEN "look" ELSE ws[w].at
         /\ Broadcast(ws)[w].task = IF ws[w].at = "wait" THEN NoTask ELSE ws[w].task
  BY AtType DEF Broadcast, Awake

(* Enqueue, seen from the list and the workers. *)
LEMMA EnqueueEffect ==
  ASSUME TypeOK, NEW c \in Clients, NEW t \in Tasks, Enqueue(c, t)
  PROVE  /\ \A w \in Workers : worker'[w] = worker[w] \/ worker'[w] = Broadcast(worker)[w]
         /\ \/ /\ worker' = Broadcast(worker)
               /\ client' = client
            \/ /\ worker' = worker
               /\ client' = [client EXCEPT ![c] = At("pushed", NoTask)]
         /\ Len(list') = Len(list) + 1
         /\ list'[Len(list) + 1] = t
         /\ \A i \in 1..Len(list) : list'[i] = list[i]
         /\ ticket' = [ticket EXCEPT ![t] = "open"]
         /\ ticket[t] = "none"
  BY AppendProperties DEF Enqueue, TypeOK

LEMMA TakeEffect ==
  ASSUME TypeOK, NEW w \in Workers, NEW i \in 1..Len(list), Take(w, i)
  PROVE  /\ worker'[w].at = "run" /\ worker'[w].task = list[i] /\ list[i] \in Tasks
         /\ \A v \in Workers : v # w => worker'[v] = worker[v]
         /\ \A j \in 1..Len(list') : /\ Skip(i, j) \in 1..Len(list) /\ Skip(i, j) # i
                                     /\ list'[j] = list[Skip(i, j)]
         /\ \A j, k \in 1..Len(list') : Skip(i, j) = Skip(i, k) => j = k
         /\ \A k \in 1..Len(list) : k # i => \E j \in 1..Len(list') : list[k] = list'[j]
<1>1. list \in Seq(Tasks) /\ list[i] \in Tasks /\ list' = Without(list, i)
  BY ElementOfSeq DEF TypeOK, Take
<1>2. /\ Len(list') = Len(list) - 1
      /\ \A j \in 1..Len(list') : list'[j] = list[Skip(i, j)]
  BY <1>1, WithoutFacts
<1>3. /\ \A j \in 1..Len(list') : Skip(i, j) \in 1..Len(list) /\ Skip(i, j) # i
      /\ \A j, k \in 1..Len(list') : Skip(i, j) = Skip(i, k) => j = k
      /\ \A k \in 1..Len(list) : k # i => \E j \in 1..Len(list') : k = Skip(i, j)
  BY <1>1, WithoutElements
<1>4. /\ worker'[w].at = "run" /\ worker'[w].task = list[i]
      /\ \A v \in Workers : v # w => worker'[v] = worker[v]
  BY AtType DEF Take, TypeOK
<1> QED BY <1>1, <1>2, <1>3, <1>4

(* The two ways in which a worker's look ends.                             *)
LEMMA LookEffect ==
  ASSUME TypeOK, NEW w \in Workers, TryPop(w) \/ Pick(w)
  PROVE  /\ worker[w].at \in {"look", "slow"}
         /\ UNCHANGED <<kind, main, terminate, pinned, ticket, client, outstanding>>
         /\ \/ \E i \in 1..Len(list) : Take(w, i)
            \/ /\ list' = list
               /\ worker'[w].at \in {"slow", "wait", "gone"} /\ worker'[w].task = NoTask
               /\ worker'[w].at = "wait" => Acceptable(w) = {} /\ ~terminate[w]
               /\ \A v \in Workers : v # w => worker'[v] = worker[v]
<1>1. CASE TryPop(w)
  <2>1. CASE list # <<>>
    <3>1. 1 \in 1..Len(list)
      BY <2>1, EmptySeq DEF TypeOK
    <3> QED BY <1>1, <2>1, <3>1 DEF TryPop
  <2>2. CASE list = <<>>
    BY <1>1, <2>2, AtType DEF TryPop, TypeOK
  <2> QED BY <2>1, <2>2
<1>2. CASE Pick(w)
  <2>1. CASE \E i \in Acceptable(w) : Take(w, i)
    BY <1>2, <2>1 DEF Pick, Acceptable
  <2>2. CASE /\ Acceptable(w) = {}
             /\ worker' = [worker EXCEPT ![w] = At(IF terminate[w] THEN "gone" ELSE "wait", NoTask)]
             /\ UNCHANGED list
    BY <1>2, <2>2, AtType DEF Pick, TypeOK
  <2> QED BY <1>2, <2>1, <2>2 DEF Pick
<1> QED BY <1>1, <1>2

-----------------------------------------------------------------------------
(* No wake-up is lost.  Workers go to sleep only with nothing to do, and   *)
(* whatever gives them something is followed by a broadcast.               *)

LEMMA SleepersKept ==
  ASSUME NoLostWakeup, UNCHANGED <<kind, terminate, list>>,
         \A w \in Workers : worker'[w].at = "wait" => worker[w].at = "wait",
         \A c \in Clients : client[c].at = "pushed" => client'[c].at = "pushed"
  PROVE  NoLostWakeup'
  BY DEF NoLostWakeup, Acceptable, Acceptors

LEMMA PlacesDiffer ==
  ASSUME NEW c \in Clients, NEW t, client[c] = At("wait", t) PROVE client[c].at # "pushed"
  BY AtType

(* A client's step moves no other client. *)
LEMMA PlaceKept ==
  ASSUME TypeOK, NEW c \in Clients, NEW x, client' = [client EXCEPT ![c] = x]
  PROVE  \A d \in Clients : d # c => client'[d] = client[d]
  BY DEF TypeOK

LEMMA NobodySleeps ==
  ASSUME \A w \in Workers : worker'[w].at # "wait"
  PROVE  NoLostWakeup'
  BY DEF NoLostWakeup

LEMMA SleepersNext == TypeOK /\ NoLostWakeup /\ [Next]_vars => NoLostWakeup'
<1> SUFFICES ASSUME TypeOK, NoLostWakeup, [Next]_vars PROVE NoLostWakeup'
  OBVIOUS
<1>0. worker \in [Workers -> WorkerStates] /\ main.i \in Workers
  BY DEF TypeOK, WorkerStates, Holding
<1>1. CASE Spawn
  BY <1>0, <1>1, AtType, SleepersKept DEF Spawn
<1>2. CASE Terminate
  <2>1. \A w \in Workers : worker'[w].at # "wait"
    BY <1>0, <1>2, BroadcastEffect DEF Terminate
  <2> QED BY <2>1, NobodySleeps
<1>3. CASE Pin \/ Join \/ SpuriousWakeup \/ Drop \/ Closed \/ UNCHANGED vars
  BY <1>3, SleepersKept DEF Pin, Join, SpuriousWakeup, Drop, Closed, vars
<1>4. ASSUME NEW w \in Workers, WorkerStep(w) \/ SpuriousLook(w) PROVE NoLostWakeup'
  <2>1. CASE Start(w)
    <3>1. [worker EXCEPT ![w] = At("look", NoTask)] \in [Workers -> WorkerStates]
      BY <1>0, AtType DEF Places, Holding
    <3>2. \A v \in Workers : worker'[v].at # "wait"
      BY <2>1, <3>1, BroadcastEffect DEF Start
    <3> QED BY <3>2, NobodySleeps
  <2>2. CASE TryPop(w) \/ Pick(w)
    <3>1. CASE \E i \in 1..Len(list) : Take(w, i)
      <4>1. PICK i \in 1..Len(list) : Take(w, i)
        BY <3>1
      <4>2. \A v \in Workers : Acceptable(v)' # {} => Acceptable(v) # {}
        BY <2>2, <4>1, TakeEffect, LookEffect DEF Acceptable, Acceptors
      <4>3. \A v \in Workers : worker'[v].at = "wait" => worker[v].at = "wait"
        BY <4>1, TakeEffect
      <4> QED BY <2>2, <4>2, <4>3, LookEffect DEF NoLostWakeup
    <3>2. CASE ~\E i \in 1..Len(list) : Take(w, i)
      <4>1. /\ list' = list
            /\ worker'[w].at = "wait" => Acceptable(w) = {} /\ ~terminate[w]
            /\ \A v \in Workers : v # w => worker'[v] = worker[v]
        BY <2>2, <3>2, LookEffect
      <4>2. \A v \in Workers : Acceptable(v)' = Acceptable(v)
        BY <2>2, <4>1, LookEffect DEF Acceptable, Acceptors
      <4> QED BY <2>2, <4>1, <4>2, LookEffect DEF NoLostWakeup
    <3> QED BY <3>1, <3>2
  <2>3. CASE Run(w) \/ SpuriousLook(w)
    BY <1>0, <2>3, AtType, SleepersKept DEF Run, SpuriousLook
  <2>4. CASE Mark(w)
    <3>1. \A v \in Workers : worker'[v].at = "wait" => worker[v].at = "wait"
      BY <1>0, <2>4, AtType DEF Mark
    <3>2. \A c \in Clients : client[c].at = "pushed" => client'[c].at = "pushed"
      <4>1. CASE client' = client
        BY <4>1
      <4>2. ASSUME NEW d \in Clients, client[d] = At("wait", worker[w].task),
                   client' = [client EXCEPT ![d] = At("woken", worker[w].task)]
            PROVE  \A c \in Clients : client[c].at = "pushed" => client'[c].at = "pushed"
        BY <4>2, PlacesDiffer, PlaceKept
      <4> QED BY <2>4, <4>1, <4>2, MarkEffect
    <3> QED BY <2>4, <3>1, <3>2, SleepersKept DEF Mark
  <2> QED BY <1>4, <2>1, <2>2, <2>3, <2>4 DEF WorkerStep
<1>5. ASSUME NEW c \in Clients,
             \/ ClientStep(c) \/ SpuriousReturn(c)
             \/ \E t \in Tasks : Enqueue(c, t) \/ Wait(c, t)
      PROVE  NoLostWakeup'
  <2>1. CASE Announce(c)
    <3>1. \A v \in Workers : worker'[v].at # "wait"
      BY <1>0, <2>1, BroadcastEffect DEF Announce
    <3> QED BY <3>1, NobodySleeps
  <2>2. CASE WakeUp(c) \/ SpuriousReturn(c) \/ \E t \in Tasks : Wait(c, t)
    <3>1. client[c].at # "pushed" /\ \A d \in Clients : d # c => client'[d] = client[d]
      <4>1. CASE SpuriousReturn(c)
        BY <4>1 DEF SpuriousReturn, TypeOK
      <4>2. CASE WakeUp(c) \/ \E t \in Tasks : Wait(c, t)
        <5>1. client[c].at # "pushed"
          BY <4>2 DEF WakeUp, Wait
        <5>2. \E x : client' = [client EXCEPT ![c] = x]
          BY <4>2 DEF WakeUp, Wait, WaitFor
        <5> QED BY <5>1, <5>2 DEF TypeOK
      <4> QED BY <2>2, <4>1, <4>2
    <3> QED BY <2>2, <3>1, SleepersKept DEF WakeUp, SpuriousReturn, Wait
  <2>3. ASSUME NEW t \in Tasks, Enqueue(c, t) PROVE NoLostWakeup'
    <3>1. CASE worker' = Broadcast(worker)
      BY <1>0, <3>1, BroadcastEffect, NobodySleeps
    <3>2. CASE worker' = worker /\ client' = [client EXCEPT ![c] = At("pushed", NoTask)]
      <4>1. client'[c].at = "pushed"
        BY <3>2, AtType DEF TypeOK
      <4> QED BY <2>3, <3>2, <4>1 DEF NoLostWakeup, Enqueue
    <3> QED BY <2>3, <3>1, <3>2, EnqueueEffect
  <2> QED BY <1>5, <2>1, <2>2, <2>3 DEF ClientStep
<1> QED BY <1>1, <1>2, <1>3, <1>4, <1>5 DEF Next, MainStep

(* No worker sleeps next to a task it accepts, nor misses its call to      *)
(* leave: broadcasts reach everybody they are for, with all three lists.   *)
THEOREM PoolNoLostWakeup == Spec => []NoLostWakeup
<1>1. Init => NoLostWakeup
  BY AtType DEF Init, NoLostWakeup
<1> QED BY <1>1, PoolTypeOK, SleepersNext, PTL DEF Spec

-----------------------------------------------------------------------------
(* A task is in one place.  The constructor starts each thread once: a     *)
(* worker whose turn has not come is still absent, so starting it cannot   *)
(* make a worker forget its task.                                          *)

Fresh == \A w \in Workers :
            \/ main.at = "spawn" /\ w >= main.i
            \/ main.at \in {"barrier", "pin"} /\ w > main.i
            => worker[w].at = "absent"

Busy == {"run", "mark"}

LEMMA FreshKept ==
  ASSUME Fresh,
         main' = main \/ (main.at = "barrier" /\ main' = [main EXCEPT !.at = "pin"]),
         TypeOK,
         \A w \in Workers : worker[w].at = "absent" => worker'[w].at = "absent"
  PROVE  Fresh'
<1>1. CASE main' = main
  BY <1>1 DEF Fresh
<1>2. CASE main.at = "barrier" /\ main' = [main EXCEPT !.at = "pin"]
  <2>1. main'.at = "pin" /\ main'.i = main.i
    BY <1>2 DEF TypeOK
  <2> QED BY <1>2, <2>1 DEF Fresh
<1> QED BY <1>1, <1>2

LEMMA FreshNext == TypeOK /\ Fresh /\ [Next]_vars => Fresh'
<1> SUFFICES ASSUME TypeOK, Fresh, [Next]_vars PROVE Fresh'
  OBVIOUS
<1>0. /\ worker \in [Workers -> WorkerStates]
      /\ main \in [at : MainPlaces, i : Workers] /\ main.i \in Workers
      /\ NumThreads \in Nat
  BY NumThreadsAssumption DEF TypeOK, WorkerStates, Holding
<1>1. CASE Spawn
  <2>1. main'.at = "barrier" /\ main'.i = main.i
    BY <1>0, <1>1 DEF Spawn
  <2>2. \A w \in Workers : w > main.i => worker'[w] = worker[w] /\ worker[w].at = "absent"
    BY <1>0, <1>1 DEF Spawn, Fresh, Workers
  <2> QED BY <2>1, <2>2 DEF Fresh
<1>2. CASE Pin
  <2>1. \/ main'.at = "open"
        \/ main'.at = "spawn" /\ main'.i = main.i + 1
    BY <1>0, <1>2 DEF Pin
  <2>2. \A w \in Workers : w >= main.i + 1 => worker[w].at = "absent"
    BY <1>0, <1>2 DEF Pin, Fresh, Workers
  <2> QED BY <1>2, <2>1, <2>2 DEF Fresh, Pin
<1>3. CASE Terminate \/ Join \/ Drop
  <2>1. main'.at \in {"drop", "join", "closed"}
    BY <1>0, <1>3 DEF Terminate, Join, Drop
  <2> QED BY <2>1 DEF Fresh
<1>4. CASE SpuriousWakeup \/ Closed \/ UNCHANGED vars
  BY <1>4, FreshKept DEF SpuriousWakeup, Roused, Closed, vars
<1>5. ASSUME NEW w \in Workers, WorkerStep(w) \/ SpuriousLook(w) PROVE Fresh'
  <2>1. CASE Start(w)
    <3> DEFINE ws == [worker EXCEPT ![w] = At("look", NoTask)]
    <3>1. ws \in [Workers -> WorkerStates]
      BY <1>0, AtType DEF Places, Holding
    <3>2. \A v \in Workers : worker[v].at = "absent" => ws[v].at = "absent"
      BY <1>0, <2>1 DEF Start
    <3> HIDE DEF ws
    <3>3. \A v \in Workers : worker[v].at = "absent" => Broadcast(ws)[v].at = "absent"
      BY <3>1, <3>2, BroadcastEffect
    <3> QED BY <2>1, <3>3, FreshKept DEF Start, Roused, ws
  <2>2. CASE TryPop(w) \/ Pick(w)
    <3>1. \A v \in Workers : worker[v].at = "absent" => worker'[v] = worker[v]
      BY <2>2, LookEffect, TakeEffect
    <3> QED BY <2>2, <3>1, LookEffect, FreshKept
  <2>3. CASE Run(w) \/ Mark(w) \/ SpuriousLook(w)
    BY <1>0, <2>3, FreshKept DEF Run, Mark, SpuriousLook
  <2> QED BY <1>5, <2>1, <2>2, <2>3 DEF WorkerStep
<1>6. ASSUME NEW c \in Clients,
             \/ ClientStep(c) \/ SpuriousReturn(c)
             \/ \E t \in Tasks : Enqueue(c, t) \/ Wait(c, t)
      PROVE  Fresh'
  <2>1. worker' = worker \/ worker' = Broadcast(worker)
    BY <1>6 DEF ClientStep, Announce, WakeUp, SpuriousReturn, Enqueue, Wait
  <2>2. main' = main
    BY <1>6 DEF ClientStep, Announce, WakeUp, SpuriousReturn, Enqueue, Wait
  <2>3. \A w \in Workers : worker[w].at = "absent" => worker'[w].at = "absent"
    BY <1>0, <2>1, BroadcastEffect
  <2> QED BY <2>2, <2>3, FreshKept
<1> QED BY <1>1, <1>2, <1>3, <1>4, <1>5, <1>6 DEF Next, MainStep

LEMMA TasksKept ==
  ASSUME TaskInOnePlace, UNCHANGED <<list, ticket>>,
         \A w \in Workers : /\ worker'[w].task = worker[w].task
                            /\ worker'[w].at \in Busy <=> worker[w].at \in Busy
  PROVE  TaskInOnePlace'
  BY DEF TaskInOnePlace, Queued, HeldBy, Busy

(* A broadcast moves workers without a task only. *)
LEMMA BroadcastKeeps ==
  ASSUME NEW ws \in [Workers -> WorkerStates],
         \A w \in Workers : ws[w].task # NoTask <=> ws[w].at \in Busy
  PROVE  \A w \in Workers : /\ Broadcast(ws)[w].task = ws[w].task
                            /\ Broadcast(ws)[w].at \in Busy <=> ws[w].at \in Busy
  BY BroadcastEffect DEF Busy

LEMMA TasksNext == TypeOK /\ Fresh /\ TaskInOnePlace /\ [Next]_vars => TaskInOnePlace'
<1> SUFFICES ASSUME TypeOK, Fresh, TaskInOnePlace, [Next]_vars PROVE TaskInOnePlace'
  OBVIOUS
<1>0. /\ worker \in [Workers -> WorkerStates] /\ main.i \in Workers
      /\ \A w \in Workers : worker[w].task # NoTask <=> worker[w].at \in Busy
  BY DEF TypeOK, WorkerStates, Holding, TaskInOnePlace, Busy
<1>1. CASE Spawn
  <2>1. worker[main.i].at = "absent"
    BY <1>0, <1>1 DEF Spawn, Fresh, Workers
  <2>2. \A w \in Workers : /\ worker'[w].task = worker[w].task
                           /\ worker'[w].at \in Busy <=> worker[w].at \in Busy
    BY <1>0, <1>1, <2>1, AtType DEF Spawn, Busy
  <2> QED BY <1>1, <2>2, TasksKept DEF Spawn
<1>2. CASE Terminate
  BY <1>0, <1>2, BroadcastKeeps, TasksKept DEF Terminate
<1>3. CASE Pin \/ Join \/ SpuriousWakeup \/ Drop \/ Closed \/ UNCHANGED vars
  BY <1>3, TasksKept DEF Pin, Join, SpuriousWakeup, Drop, Closed, vars
<1>4. ASSUME NEW w \in Workers, WorkerStep(w) \/ SpuriousLook(w) PROVE TaskInOnePlace'
  <2>1. CASE Start(w)
    <3> DEFINE ws == [worker EXCEPT ![w] = At("look", NoTask)]
    <3>1. ws \in [Workers -> WorkerStates]
      BY <1>0, AtType DEF Places, Holding
    <3>2. \A v \in Workers : /\ ws[v].task = worker[v].task
                             /\ ws[v].at \in Busy <=> worker[v].at \in Busy
      BY <1>0, <2>1, AtType DEF Start, Busy
    <3>3. worker' = Broadcast(ws)
      BY <2>1 DEF Start
    <3> HIDE DEF ws
    <3>4. \A v \in Workers : /\ worker'[v].task = worker[v].task
                             /\ worker'[v].at \in Busy <=> worker[v].at \in Busy
      BY <1>0, <3>1, <3>2, <3>3, BroadcastKeeps
    <3> QED BY <2>1, <3>4, TasksKept DEF Start
  <2>2. CASE TryPop(w) \/ Pick(w)
    <3>1. worker[w].task = NoTask /\ worker[w].at \notin Busy
      BY <1>0, <2>2, LookEffect DEF Busy
    <3>2. CASE \E i \in 1..Len(list) : Take(w, i)
      <4>1. PICK i \in 1..Len(list) : Take(w, i)
        BY <3>2
      <4>2. /\ worker'[w].at = "run" /\ worker'[w].task = list[i] /\ list[i] \in Tasks
            /\ \A v \in Workers : v # w => worker'[v] = worker[v]
            /\ \A j \in 1..Len(list') : /\ Skip(i, j) \in 1..Len(list) /\ Skip(i, j) # i
                                        /\ list'[j] = list[Skip(i, j)]
            /\ \A j, k \in 1..Len(list') : Skip(i, j) = Skip(i, k) => j = k
            /\ \A k \in 1..Len(list) : k # i => \E j \in 1..Len(list') : list[k] = list'[j]
        BY <4>1, TakeEffect
      <4>3. UNCHANGED ticket
        BY <2>2, LookEffect
      <4>4. \A j \in 1..Len(list') : list'[j] # list[i]
        BY <4>2, SMTT(30) DEF TaskInOnePlace
      <4>5. \A j, k \in 1..Len(list') : list'[j] = list'[k] => j = k
        <5> SUFFICES ASSUME NEW j \in 1..Len(list'), NEW k \in 1..Len(list'), list'[j] = list'[k]
                     PROVE  j = k
          OBVIOUS
        <5>1. list[Skip(i, j)] = list[Skip(i, k)]
          BY <4>2
        <5>2. Skip(i, j) \in 1..Len(list) /\ Skip(i, k) \in 1..Len(list)
          BY <4>2
        <5>3. Skip(i, j) = Skip(i, k)
          BY <5>1, <5>2 DEF TaskInOnePlace
        <5> QED BY <4>2, <5>3
      <4>6. \A v \in Workers : worker'[v].task # NoTask <=> worker'[v].at \in {"run", "mark"}
        BY <1>0, <4>2, TasksAssumption DEF Busy
      <4>7. \A t \in Tasks : Queued(t)' <=> Queued(t) /\ t # list[i]
        BY <4>2, <4>4 DEF Queued
      <4>8. \A v \in Workers, t \in Tasks :
               HeldBy(v, t)' <=> (v # w /\ HeldBy(v, t)) \/ (v = w /\ t = list[i])
        BY <4>2 DEF HeldBy
      <4>9. Queued(list[i]) /\ \A t \in Tasks : ~HeldBy(w, t)
        BY <3>1, TasksAssumption DEF Queued, HeldBy
      <4> QED BY <4>2, <4>3, <4>5, <4>6, <4>7, <4>8, <4>9 DEF TaskInOnePlace
    <3>3. CASE ~\E i \in 1..Len(list) : Take(w, i)
      <4>1. /\ list' = list /\ ticket' = ticket
            /\ worker'[w].at \in {"slow", "wait", "gone"} /\ worker'[w].task = NoTask
            /\ \A v \in Workers : v # w => worker'[v] = worker[v]
        BY <2>2, <3>3, LookEffect
      <4> QED BY <3>1, <4>1, TasksKept DEF Busy
    <3> QED BY <3>2, <3>3
  <2>3. CASE Run(w)
    <3>1. CASE worker[w].task \in Faulty
      <4>1. /\ worker'[w].at = "gone" /\ worker'[w].task = NoTask
            /\ \A v \in Workers : v # w => worker'[v] = worker[v]
            /\ list' = list /\ ticket' = ticket
        BY <1>0, <2>3, <3>1, AtType DEF Run
      <4>2. \A v \in Workers : worker'[v].task # NoTask <=> worker'[v].at \in {"run", "mark"}
        BY <1>0, <4>1 DEF Busy
      <4>3. \A v \in Workers, t \in Tasks : HeldBy(v, t)' <=> v # w /\ HeldBy(v, t)
        BY <4>1, TasksAssumption DEF HeldBy
      <4>4. \A t \in Tasks : HeldBy(w, t) => t \in Faulty
        BY <3>1 DEF HeldBy
      <4>5. \A t \in Tasks : Queued(t)' <=> Queued(t)
        BY <4>1 DEF Queued
      <4> QED BY <4>1, <4>2, <4>3, <4>4, <4>5 DEF TaskInOnePlace
    <3>2. CASE worker[w].task \notin Faulty
      <4>1. \A v \in Workers : /\ worker'[v].task = worker[v].task
                               /\ worker'[v].at \in Busy <=> worker[v].at \in Busy
        BY <1>0, <2>3, <3>2, AtType DEF Run, Busy
      <4> QED BY <2>3, <4>1, TasksKept DEF Run
    <3> QED BY <3>1, <3>2
  <2>4. CASE Mark(w)
    <3> DEFINE u == worker[w].task
    <3>1. u \in Tasks /\ HeldBy(w, u)
      BY <1>0, <2>4 DEF Mark, Busy, WorkerStates, Holding, HeldBy
    <3>2. /\ worker'[w].at = "look" /\ worker'[w].task = NoTask
          /\ \A v \in Workers : v # w => worker'[v] = worker[v]
          /\ list' = list /\ ticket' = [ticket EXCEPT ![u] = "done"]
      BY <1>0, <2>4, AtType DEF Mark
    <3> HIDE DEF u
    <3>3. \A t \in Tasks : ticket'[t] = IF t = u THEN "done" ELSE ticket[t]
      BY <3>2 DEF TypeOK
    <3>4. \A v \in Workers : worker'[v].task # NoTask <=> worker'[v].at \in {"run", "mark"}
      BY <1>0, <3>2 DEF Busy
    <3>5. \A v \in Workers, t \in Tasks : HeldBy(v, t)' <=> v # w /\ HeldBy(v, t)
      BY <3>2, TasksAssumption DEF HeldBy
    <3>6. \A t \in Tasks : HeldBy(w, t) => t = u
      BY <3>1 DEF HeldBy
    <3>7. \A t \in Tasks : Queued(t)' <=> Queued(t)
      BY <3>2 DEF Queued
    <3> QED BY <3>1, <3>2, <3>3, <3>4, <3>5, <3>6, <3>7 DEF TaskInOnePlace
  <2>5. CASE SpuriousLook(w)
    <3>1. \A v \in Workers : /\ worker'[v].task = worker[v].task
                             /\ worker'[v].at \in Busy <=> worker[v].at \in Busy
      BY <1>0, <2>5, AtType DEF SpuriousLook, Busy
    <3> QED BY <2>5, <3>1, TasksKept DEF SpuriousLook
  <2> QED BY <1>4, <2>1, <2>2, <2>3, <2>4, <2>5 DEF WorkerStep
<1>5. ASSUME NEW c \in Clients,
             \/ ClientStep(c) \/ SpuriousReturn(c)
             \/ \E t \in Tasks : Enqueue(c, t) \/ Wait(c, t)
      PROVE  TaskInOnePlace'
  <2>1. CASE Announce(c)
    BY <1>0, <2>1, BroadcastKeeps, TasksKept DEF Announce
  <2>2. CASE WakeUp(c) \/ SpuriousReturn(c) \/ \E t \in Tasks : Wait(c, t)
    BY <2>2, TasksKept DEF WakeUp, SpuriousReturn, Wait
  <2>3. ASSUME NEW u \in Tasks, Enqueue(c, u) PROVE TaskInOnePlace'
    <3>1. /\ \A w \in Workers : worker'[w] = worker[w] \/ worker'[w] = Broadcast(worker)[w]
          /\ Len(list') = Len(list) + 1 /\ list'[Len(list) + 1] = u
          /\ \A i \in 1..Len(list) : list'[i] = list[i]
          /\ ticket' = [ticket EXCEPT ![u] = "open"] /\ ticket[u] = "none"
      BY <2>3, EnqueueEffect
    <3>2. Len(list) \in Nat
      BY LenProperties DEF TypeOK
    <3>3. \A w \in Workers : /\ worker'[w].task = worker[w].task
                             /\ worker'[w].at \in Busy <=> worker[w].at \in Busy
      BY <1>0, <3>1, BroadcastKeeps
    <3>4. \A t \in Tasks : ticket'[t] = IF t = u THEN "open" ELSE ticket[t]
      BY <3>1 DEF TypeOK
    <3>5. ~Queued(u) /\ \A w \in Workers : ~HeldBy(w, u)
      BY <3>1 DEF TaskInOnePlace
    <3>6. \A i, j \in 1..Len(list') : list'[i] = list'[j] => i = j
      BY <3>1, <3>2, <3>5 DEF TaskInOnePlace, Queued
    <3>7. \A t \in Tasks : Queued(t)' <=> Queued(t) \/ t = u
      BY <3>1, <3>2 DEF Queued
    <3>8. \A w \in Workers, t \in Tasks : HeldBy(w, t)' <=> HeldBy(w, t)
      BY <3>3 DEF HeldBy
    <3>9. \A w \in Workers : worker'[w].task # NoTask <=> worker'[w].at \in {"run", "mark"}
      BY <1>0, <3>3 DEF Busy
    <3> QED BY <3>4, <3>5, <3>6, <3>7, <3>8, <3>9 DEF TaskInOnePlace
  <2> QED BY <1>5, <2>1, <2>2, <2>3 DEF ClientStep
<1> QED BY <1>1, <1>2, <1>3, <1>4, <1>5 DEF Next, MainStep

(* No task is executed twice, and none is lost between the list and the    *)
(* workers: between enqueue and mark() it is in exactly one place, unless  *)
(* its functor threw.                                                      *)
THEOREM PoolTaskInOnePlace == Spec => []TaskInOnePlace
<1>1. Init => Fresh /\ TaskInOnePlace
  <2> SUFFICES ASSUME Init PROVE Fresh /\ TaskInOnePlace
    OBVIOUS
  <2>1. /\ \A w \in Workers : worker[w].at = "absent" /\ worker[w].task = NoTask
        /\ list = <<>> /\ Len(list) = 0 /\ \A t \in Tasks : ticket[t] = "none"
    BY AtType, EmptySeq DEF Init
  <2> QED BY <2>1, TasksAssumption DEF Fresh, TaskInOnePlace, Queued, HeldBy
<1> QED BY <1>1, PoolTypeOK, FreshNext, TasksNext, PTL DEF Spec

-----------------------------------------------------------------------------
(* Nothing is lost at shutdown.  A ticket that is not completed is in the  *)
(* vector of a client, and the destructor runs when all vectors are empty. *)

OpenIsOutstanding == \A t \in Tasks : ticket[t] = "open" => Outstanding(t)

(* A wait takes a completed ticket out of its vector, and no other.        *)
LEMMA WaitForEffect ==
  ASSUME TypeOK, NEW c \in Clients, NEW u, WaitFor(c, u)
  PROVE  \/ outstanding' = outstanding
         \/ /\ u \in Tasks /\ ticket[u] = "done"
            /\ \A t : Outstanding(t)' => Outstanding(t)
            /\ \A t : Outstanding(t) /\ t # u => Outstanding(t)'
<1> SUFFICES ASSUME outstanding[c] # <<>>, u = outstanding[c][Len(outstanding[c])],
                    ticket[u] = "done",
                    outstanding' = [outstanding EXCEPT ![c] = Front(@)]
             PROVE  /\ u \in Tasks
                    /\ \A t : Outstanding(t)' => Outstanding(t)
                    /\ \A t : Outstanding(t) /\ t # u => Outstanding(t)'
  BY DEF WaitFor
<1> DEFINE s == outstanding[c]
<1>1. s \in Seq(Tasks) /\ s # <<>>
  BY DEF TypeOK
<1>2. Len(s) \in Nat /\ Len(s) # 0
  BY <1>1, EmptySeq, LenProperties
<1>3. /\ Len(Front(s)) = Len(s) - 1
      /\ \A i \in 1..Len(s) - 1 : Front(s)[i] = s[i]
  BY <1>1, FrontFacts
<1>4. u \in Tasks
  BY <1>1, <1>2, ElementOfSeq
<1>5. /\ outstanding'[c] = Front(s)
      /\ \A d \in Clients : d # c => outstanding'[d] = outstanding[d]
  BY DEF TypeOK
<1>6. ASSUME NEW t, NEW d \in Clients, NEW i \in 1..Len(outstanding'[d]), outstanding'[d][i] = t
      PROVE  Outstanding(t)
  BY <1>2, <1>3, <1>5, <1>6 DEF Outstanding
<1>7. ASSUME NEW t, t # u, NEW d \in Clients, NEW i \in 1..Len(outstanding[d]), outstanding[d][i] = t
      PROVE  Outstanding(t)'
  <2>1. CASE d # c
    BY <1>5, <1>7, <2>1 DEF Outstanding
  <2>2. CASE d = c
    <3>1. i # Len(s)
      BY <1>7, <2>2
    <3>2. i \in 1..Len(Front(s)) /\ Front(s)[i] = t
      BY <1>2, <1>3, <1>7, <2>2, <3>1
    <3> QED BY <1>5, <3>2 DEF Outstanding
  <2> QED BY <2>1, <2>2
<1>8. \A t : Outstanding(t)' => Outstanding(t)
  BY <1>6 DEF Outstanding
<1>9. \A t : Outstanding(t) /\ t # u => Outstanding(t)'
  <2> SUFFICES ASSUME NEW t, Outstanding(t), t # u PROVE Outstanding(t)'
    OBVIOUS
  <2>1. PICK d \in Clients : \E i \in 1..Len(outstanding[d]) : outstanding[d][i] = t
    BY DEF Outstanding
  <2> QED BY <1>7, <2>1
<1> QED BY <1>4, <1>8, <1>9

(* Enqueueing a task puts its ticket, and no other, into the vector. *)
LEMMA EnqueueOutstanding ==
  ASSUME TypeOK, NEW c \in Clients, NEW u \in Tasks, Enqueue(c, u)
  PROVE  \A t : Outstanding(t)' <=> Outstanding(t) \/ t = u
<1> DEFINE s == outstanding[c]
<1>1. /\ s \in Seq(Tasks)
      /\ outstanding' = [outstanding EXCEPT ![c] = Append(s, u)]
  BY DEF Enqueue, TypeOK
<1>2. /\ Len(s) \in Nat /\ Len(Append(s, u)) = Len(s) + 1
      /\ Append(s, u)[Len(s) + 1] = u
      /\ \A i \in 1..Len(s) : Append(s, u)[i] = s[i]
  BY <1>1, AppendProperties, LenProperties
<1>3. /\ outstanding'[c] = Append(s, u)
      /\ \A d \in Clients : d # c => outstanding'[d] = outstanding[d]
  BY <1>1 DEF TypeOK
<1>4. Outstanding(u)'
  BY <1>2, <1>3 DEF Outstanding
<1>5. ASSUME NEW t, Outstanding(t) PROVE Outstanding(t)'
  <2>1. PICK d \in Clients : \E i \in 1..Len(outstanding[d]) : outstanding[d][i] = t
    BY <1>5 DEF Outstanding
  <2>2. \E i \in 1..Len(outstanding'[d]) : outstanding'[d][i] = t
    <3>1. CASE d = c
      BY <1>2, <1>3, <2>1, <3>1
    <3>2. CASE d # c
      BY <1>3, <2>1, <3>2
    <3> QED BY <3>1, <3>2
  <2> QED BY <2>2 DEF Outstanding
<1>6. ASSUME NEW t, Outstanding(t)', t # u PROVE Outstanding(t)
  <2>1. PICK d \in Clients : \E i \in 1..Len(outstanding'[d]) : outstanding'[d][i] = t
    BY <1>6 DEF Outstanding
  <2>2. \E i \in 1..Len(outstanding[d]) : outstanding[d][i] = t
    <3>1. CASE d = c
      BY <1>2, <1>3, <1>6, <2>1, <3>1
    <3>2. CASE d # c
      BY <1>3, <2>1, <3>2
    <3> QED BY <3>1, <3>2
  <2> QED BY <2>2 DEF Outstanding
<1> QED BY <1>4, <1>5, <1>6

LEMMA OpenNext == TypeOK /\ OpenIsOutstanding /\ [Next]_vars => OpenIsOutstanding'
<1> SUFFICES ASSUME TypeOK, OpenIsOutstanding, [Next]_vars PROVE OpenIsOutstanding'
  OBVIOUS
<1>1. CASE UNCHANGED <<ticket, outstanding>>
  BY <1>1 DEF OpenIsOutstanding, Outstanding
<1>2. ASSUME NEW w \in Workers, Mark(w) PROVE OpenIsOutstanding'
  <2>1. outstanding' = outstanding /\ \A t \in Tasks : ticket'[t] \in {ticket[t], "done"}
    BY <1>2 DEF Mark, TypeOK
  <2> QED BY <2>1 DEF OpenIsOutstanding, Outstanding
<1>3. ASSUME NEW c \in Clients, NEW u, WaitFor(c, u), UNCHANGED ticket PROVE OpenIsOutstanding'
  <2>1. CASE outstanding' = outstanding
    BY <1>1, <1>3, <2>1
  <2> QED BY <1>3, <2>1, WaitForEffect DEF OpenIsOutstanding
<1>4. ASSUME NEW c \in Clients, NEW u \in Tasks, Enqueue(c, u) PROVE OpenIsOutstanding'
  <2>1. \A t \in Tasks : ticket'[t] = IF t = u THEN "open" ELSE ticket[t]
    BY <1>4 DEF Enqueue, TypeOK
  <2> QED BY <1>4, <2>1, EnqueueOutstanding DEF OpenIsOutstanding
<1>5. CASE \E w \in Workers : WorkerStep(w) \/ SpuriousLook(w)
  <2>1. ASSUME NEW w \in Workers, Start(w) \/ TryPop(w) \/ Pick(w) \/ Run(w) \/ SpuriousLook(w)
        PROVE  UNCHANGED <<ticket, outstanding>>
    BY <2>1 DEF Start, TryPop, Pick, Run, SpuriousLook
  <2> QED BY <1>1, <1>2, <1>5, <2>1 DEF WorkerStep
<1>6. CASE \E c \in Clients : \/ ClientStep(c) \/ SpuriousReturn(c)
                              \/ \E t \in Tasks : Enqueue(c, t) \/ Wait(c, t)
  <2>1. ASSUME NEW c \in Clients, WakeUp(c) \/ \E t \in Tasks : Wait(c, t)
        PROVE  UNCHANGED ticket /\ \E u : WaitFor(c, u)
    BY <2>1 DEF WakeUp, Wait
  <2>2. ASSUME NEW c \in Clients, Announce(c) \/ SpuriousReturn(c)
        PROVE  UNCHANGED <<ticket, outstanding>>
    BY <2>2 DEF Announce, SpuriousReturn
  <2> QED BY <1>1, <1>3, <1>4, <1>6, <2>1, <2>2 DEF ClientStep
<1>7. CASE MainStep \/ SpuriousWakeup \/ Drop \/ Closed \/ UNCHANGED vars
  BY <1>1, <1>7 DEF MainStep, Spawn, Pin, Terminate, Join, SpuriousWakeup, Drop, Closed, vars
<1> QED BY <1>5, <1>6, <1>7 DEF Next

Closing == main.at \in {"drop", "join", "closed"}

LEMMA ShutdownNext ==
  TypeOK /\ TaskInOnePlace /\ OpenIsOutstanding /\ NothingLostAtShutdown /\ [Next]_vars
    => NothingLostAtShutdown'
<1> SUFFICES ASSUME TypeOK, TaskInOnePlace, OpenIsOutstanding, NothingLostAtShutdown, [Next]_vars
             PROVE  NothingLostAtShutdown'
  OBVIOUS
<1>0. /\ worker \in [Workers -> WorkerStates] /\ main \in [at : MainPlaces, i : Workers]
      /\ \A w \in Workers : worker[w].task # NoTask <=> worker[w].at \in Busy
  BY DEF TypeOK, WorkerStates, Holding, TaskInOnePlace, Busy
<1>1. ASSUME Closing' => Closing, UNCHANGED <<list, ticket>>,
             \A w \in Workers : worker'[w].task = worker[w].task
      PROVE  NothingLostAtShutdown'
  BY <1>1 DEF NothingLostAtShutdown, Closing
<1>2. CASE Spawn \/ Pin \/ SpuriousWakeup
  <2>1. ~Closing'
    BY <1>0, <1>2 DEF Spawn, Pin, SpuriousWakeup, Roused, Closing
  <2> QED BY <2>1 DEF NothingLostAtShutdown, Closing
<1>3. CASE Terminate
  BY <1>0, <1>1, <1>3, BroadcastKeeps DEF Terminate, Closing
<1>4. CASE Join \/ Closed \/ UNCHANGED vars
  BY <1>1, <1>4 DEF Join, Closed, vars, Closing
<1>5. CASE Drop
  <2>1. \A t \in Tasks : ~Outstanding(t)
    <3>1. \A c \in Clients : Len(outstanding[c]) = 0
      BY <1>5, EmptySeq DEF Drop
    <3> QED BY <3>1 DEF Outstanding
  <2>2. \A t \in Tasks : ticket[t] # "open"
    BY <2>1 DEF OpenIsOutstanding
  <2>3. \A t \in Tasks : ~Queued(t) /\ \A w \in Workers : ~HeldBy(w, t)
    BY <2>2 DEF TaskInOnePlace
  <2>4. list = <<>>
    <3>1. list \in Seq(Tasks) /\ \A i \in 1..Len(list) : list[i] \in Tasks
      BY ElementOfSeq DEF TypeOK
    <3>2. Len(list) = 0
      BY <2>3, <3>1, LenProperties DEF Queued
    <3> QED BY <3>1, <3>2, EmptySeq
  <2>5. \A w \in Workers : worker[w].task = NoTask
    BY <1>0, <2>3 DEF HeldBy, WorkerStates, Holding
  <2> QED BY <1>5, <2>2, <2>4, <2>5 DEF Drop, NothingLostAtShutdown
<1>6. ASSUME NEW w \in Workers, WorkerStep(w) \/ SpuriousLook(w) PROVE NothingLostAtShutdown'
  <2>1. CASE ~Closing
    <3>1. ~Closing'
      BY <1>0, <1>6, <2>1
         DEF WorkerStep, Start, TryPop, Pick, Run, Mark, SpuriousLook, Roused, Closing
    <3> QED BY <3>1 DEF NothingLostAtShutdown, Closing
  <2>2. CASE Closing
    <3>1. /\ list = <<>> /\ Len(list) = 0 /\ \A v \in Workers : worker[v].task = NoTask
      BY <2>2, EmptySeq DEF NothingLostAtShutdown, Closing
    <3>2. ~Run(w) /\ ~Mark(w)
      BY <1>0, <3>1 DEF Run, Mark, Busy
    <3>3. CASE Start(w)
      <4>1. [worker EXCEPT ![w] = At("look", NoTask)] \in [Workers -> WorkerStates]
        BY <1>0, AtType DEF Places, Holding
      <4>2. \A v \in Workers : [worker EXCEPT ![w] = At("look", NoTask)][v].task = NoTask
        BY <1>0, <3>1, AtType
      <4>3. \A v \in Workers : worker'[v].task = NoTask
        BY <3>3, <4>1, <4>2, BroadcastEffect DEF Start
      <4> QED BY <1>1, <2>2, <3>1, <3>3, <4>3 DEF Start
    <3>4. CASE TryPop(w) \/ Pick(w)
      BY <1>1, <2>2, <3>1, <3>4, LookEffect
    <3>5. CASE SpuriousLook(w)
      BY <1>0, <1>1, <2>2, <3>1, <3>5, AtType DEF SpuriousLook
    <3> QED BY <1>6, <3>2, <3>3, <3>4, <3>5 DEF WorkerStep
  <2> QED BY <2>1, <2>2
<1>7. ASSUME NEW c \in Clients,
             \/ ClientStep(c) \/ SpuriousReturn(c)
             \/ \E t \in Tasks : Enqueue(c, t) \/ Wait(c, t)
      PROVE  NothingLostAtShutdown'
  <2>1. CASE Announce(c)
    BY <1>0, <1>1, <2>1, BroadcastKeeps DEF Announce, Closing
  <2>2. CASE WakeUp(c) \/ SpuriousReturn(c) \/ \E t \in Tasks : Wait(c, t)
    BY <1>1, <2>2 DEF WakeUp, SpuriousReturn, Wait, Closing
  <2>3. ASSUME NEW t \in Tasks, Enqueue(c, t) PROVE NothingLostAtShutdown'
    <3>1. ~Closing'
      BY <2>3 DEF Enqueue, Closing
    <3> QED BY <3>1 DEF NothingLostAtShutdown, Closing
  <2> QED BY <1>7, <2>1, <2>2, <2>3 DEF ClientStep
<1> QED BY <1>2, <1>3, <1>4, <1>5, <1>6, <1>7 DEF Next, MainStep

(* When the destructor starts, and from then on, no task is on the list or *)
(* with a worker, and no ticket is left that somebody may wait for.        *)
THEOREM PoolNothingLostAtShutdown == Spec => []NothingLostAtShutdown
<1>1. Init => OpenIsOutstanding /\ NothingLostAtShutdown
  BY DEF Init, OpenIsOutstanding, NothingLostAtShutdown
<1> QED BY <1>1, PoolTypeOK, PoolTaskInOnePlace, OpenNext, ShutdownNext, PTL DEF Spec

-----------------------------------------------------------------------------
(* The pool implements Executor: what the tickets say of a task is what    *)
(* has become of it, and a wait returns only after its functor has ended.  *)

StatusMap == [t \in Tasks |-> Status(t)]

AwaitedSet == {t \in Tasks : ticket[t] # "none" /\ ~Outstanding(t)}

With(p, t) == \E w \in Workers : worker[w] = At(p, t)

LEMMA WithFacts ==
  ASSUME TypeOK, TaskInOnePlace, NEW t \in Tasks
  PROVE  /\ With("run", t) \/ With("mark", t) => ticket[t] = "open" /\ ~Queued(t)
         /\ ~(With("run", t) /\ With("mark", t))
         /\ Queued(t) => ticket[t] = "open"
<1>1. \A w \in Workers : worker[w] = At("run", t) \/ worker[w] = At("mark", t) => HeldBy(w, t)
  BY AtType DEF HeldBy
<1>2. \A v, w \in Workers : worker[v] = At("run", t) /\ worker[w] = At("mark", t) => v # w
  BY AtType
<1> QED BY <1>1, <1>2 DEF TaskInOnePlace, With

StatusCases ==
    \A t \in Tasks :
      /\ ticket[t] = "none" <=> Status(t) = "new"
      /\ ticket[t] = "done" <=> Status(t) = "done"
      /\ Queued(t) => Status(t) = "queued"
      /\ With("run", t) => Status(t) = "running"
      /\ With("mark", t) => Status(t) = "executed"
      /\ ticket[t] = "open" /\ ~Queued(t) /\ ~With("run", t) /\ ~With("mark", t)
           => Status(t) = "lost"

(* No two of the cases of Status meet. *)
LEMMA StatusValue == TypeOK /\ TaskInOnePlace => StatusCases
<1> SUFFICES ASSUME TypeOK, TaskInOnePlace, NEW t \in Tasks
             PROVE /\ ticket[t] = "none" <=> Status(t) = "new"
                   /\ ticket[t] = "done" <=> Status(t) = "done"
                   /\ Queued(t) => Status(t) = "queued"
                   /\ With("run", t) => Status(t) = "running"
                   /\ With("mark", t) => Status(t) = "executed"
                   /\ ticket[t] = "open" /\ ~Queued(t) /\ ~With("run", t) /\ ~With("mark", t)
                                     => Status(t) = "lost"
  BY DEF StatusCases
<1>1. ticket[t] \in {"none", "open", "done"}
  BY DEF TypeOK
<1>2. /\ With("run", t) \/ With("mark", t) => ticket[t] = "open" /\ ~Queued(t)
      /\ ~(With("run", t) /\ With("mark", t))
      /\ Queued(t) => ticket[t] = "open"
  BY WithFacts
<1>3. Status(t) = CASE ticket[t] = "none" -> "new"
                    [] ticket[t] = "done" -> "done"
                    [] ticket[t] = "open" /\ Queued(t) -> "queued"
                    [] ticket[t] = "open" /\ With("run", t) -> "running"
                    [] ticket[t] = "open" /\ With("mark", t) -> "executed"
                    [] OTHER -> "lost"
  BY DEF Status, With
<1> QED BY <1>1, <1>2, <1>3

LEMMA StatusValueNext == TypeOK' /\ TaskInOnePlace' => StatusCases'
  BY StatusValue, PTL

(* A step that leaves a task where it is leaves its status. *)
LEMMA StatusKept ==
  ASSUME NEW t \in Tasks, ticket'[t] = ticket[t], Queued(t)' <=> Queued(t),
         \A w \in Workers : \/ worker'[w] = worker[w]
                            \/ worker[w].task # t /\ worker'[w].task # t
  PROVE  Status(t)' = Status(t)
<1>1. \A p : With(p, t)' <=> With(p, t)
  BY AtType DEF With
<1> QED BY <1>1 DEF Status, With

(* The steps of Executor, by what they do to the two mapped variables.     *)
LEMMA Stutters ==
  ASSUME \A t \in Tasks : Status(t)' = Status(t),
         \A t \in Tasks : (ticket'[t] # "none" /\ ~Outstanding(t)')
                            <=> (ticket[t] # "none" /\ ~Outstanding(t))
  PROVE  StatusMap' = StatusMap /\ AwaitedSet' = AwaitedSet
  BY DEF StatusMap, AwaitedSet

LEMMA Moves ==
  ASSUME NEW u \in Tasks, NEW from, NEW to, Status(u) = from, Status(u)' = to,
         \A t \in Tasks : t # u => Status(t)' = Status(t),
         \A t \in Tasks : (ticket'[t] # "none" /\ ~Outstanding(t)')
                            <=> (ticket[t] # "none" /\ ~Outstanding(t))
  PROVE  Exec!Move(u, from, to)
<1>1. StatusMap[u] = from /\ StatusMap' = [StatusMap EXCEPT ![u] = to] /\ AwaitedSet' = AwaitedSet
  BY DEF StatusMap, AwaitedSet
<1> QED BY <1>1 DEF Exec!Move, StatusMap, AwaitedSet

Simulated == \/ \E t \in Tasks : \/ Exec!Enqueue(t) \/ Exec!Take(t) \/ Exec!Finish(t)
                                  \/ Exec!Throw(t)   \/ Exec!Mark(t) \/ Exec!Return(t)
             \/ StatusMap' = StatusMap /\ AwaitedSet' = AwaitedSet

(* Steps that neither move a task nor end a wait. *)
LEMMA PlainStep ==
  ASSUME UNCHANGED <<list, ticket, outstanding>>,
         \A w \in Workers : \/ worker'[w] = worker[w]
                            \/ worker[w].task = NoTask /\ worker'[w].task = NoTask
  PROVE  Simulated
<1>1. \A t \in Tasks : Status(t)' = Status(t)
  BY StatusKept, TasksAssumption DEF Queued
<1>2. \A t \in Tasks : Outstanding(t)' <=> Outstanding(t)
  BY DEF Outstanding
<1> QED BY <1>1, <1>2, Stutters DEF Simulated

LEMMA BroadcastMoves ==
  ASSUME NEW ws \in [Workers -> WorkerStates],
         \A w \in Workers : ws[w].task # NoTask <=> ws[w].at \in Busy
  PROVE  \A w \in Workers : \/ Broadcast(ws)[w] = ws[w]
                            \/ ws[w].task = NoTask /\ Broadcast(ws)[w].task = NoTask
  BY AtType DEF Broadcast, Awake, Busy

LEMMA SimulateWaitFor ==
  ASSUME TypeOK, TypeOK', StatusCases, NEW c \in Clients, NEW u, WaitFor(c, u),
         UNCHANGED <<list, ticket, worker>>
  PROVE  Simulated
<1>1. \A t \in Tasks : Status(t)' = Status(t)
  BY StatusKept DEF Queued
<1>2. CASE \A t \in Tasks : Outstanding(t)' <=> Outstanding(t)
  BY <1>1, <1>2, Stutters DEF Simulated
<1>3. CASE ~\A t \in Tasks : Outstanding(t)' <=> Outstanding(t)
  <2>1. /\ u \in Tasks /\ ticket[u] = "done"
        /\ \A t : Outstanding(t)' => Outstanding(t)
        /\ \A t : Outstanding(t) /\ t # u => Outstanding(t)'
    BY <1>3, WaitForEffect DEF Outstanding
  <2>2. Outstanding(u) /\ ~Outstanding(u)'
    BY <1>3, <2>1
  <2>3. AwaitedSet' = AwaitedSet \cup {u}
    BY <2>1, <2>2 DEF AwaitedSet
  <2>4. StatusMap[u] = "done" /\ StatusMap' = StatusMap
    BY <1>1, <2>1 DEF StatusMap, StatusCases
  <2>5. Exec!Return(u)
    BY <2>3, <2>4 DEF Exec!Return, StatusMap, AwaitedSet
  <2> QED BY <2>1, <2>5 DEF Simulated
<1> QED BY <1>2, <1>3

LEMMA SimulateEnqueue ==
  ASSUME TypeOK, TaskInOnePlace, TaskInOnePlace', StatusCases, StatusCases',
         NEW c \in Clients, NEW u \in Tasks, Enqueue(c, u)
  PROVE  Simulated
<1>0. /\ worker \in [Workers -> WorkerStates]
      /\ \A w \in Workers : worker[w].task # NoTask <=> worker[w].at \in Busy
  BY DEF TypeOK, WorkerStates, Holding, TaskInOnePlace, Busy
<1>1. /\ \A w \in Workers : worker'[w] = worker[w] \/ worker'[w] = Broadcast(worker)[w]
      /\ Len(list') = Len(list) + 1 /\ list'[Len(list) + 1] = u
      /\ \A i \in 1..Len(list) : list'[i] = list[i]
      /\ ticket' = [ticket EXCEPT ![u] = "open"] /\ ticket[u] = "none"
  BY EnqueueEffect
<1>2. Len(list) \in Nat
  BY LenProperties DEF TypeOK
<1>3. \A t \in Tasks : ticket'[t] = IF t = u THEN "open" ELSE ticket[t]
  BY <1>1 DEF TypeOK
<1>4. \A t \in Tasks : Queued(t)' <=> Queued(t) \/ t = u
  BY <1>1, <1>2 DEF Queued
<1>5. \A w \in Workers : \/ worker'[w] = worker[w]
                         \/ worker[w].task = NoTask /\ worker'[w].task = NoTask
  BY <1>0, <1>1, BroadcastMoves
<1>6. \A t \in Tasks : t # u => Status(t)' = Status(t)
  BY <1>3, <1>4, <1>5, StatusKept, TasksAssumption
<1>7. Status(u) = "new" /\ Status(u)' = "queued"
  BY <1>1, <1>4 DEF StatusCases
<1>8. \A t \in Tasks : (ticket'[t] # "none" /\ ~Outstanding(t)')
                          <=> (ticket[t] # "none" /\ ~Outstanding(t))
  BY <1>1, <1>3, EnqueueOutstanding
<1>9. Exec!Move(u, "new", "queued")
  BY <1>6, <1>7, <1>8, Moves
<1> QED BY <1>9 DEF Exec!Enqueue, Simulated

LEMMA SimulateTake ==
  ASSUME TypeOK, TaskInOnePlace, StatusCases, StatusCases',
         NEW w \in Workers, worker[w].task = NoTask,
         NEW i \in 1..Len(list), Take(w, i), UNCHANGED <<ticket, outstanding>>
  PROVE  Simulated
<1>0. PICK u \in Tasks : u = list[i]
  BY TakeEffect
<1>1. /\ worker'[w] = At("run", u)
      /\ \A v \in Workers : v # w => worker'[v] = worker[v]
      /\ \A j \in 1..Len(list') : /\ Skip(i, j) \in 1..Len(list) /\ Skip(i, j) # i
                                  /\ list'[j] = list[Skip(i, j)]
      /\ \A k \in 1..Len(list) : k # i => \E j \in 1..Len(list') : list[k] = list'[j]
  <2>1. worker'[w] = At("run", u)
    BY <1>0 DEF Take, TypeOK
  <2> QED BY <2>1, TakeEffect
<1>2. \A t \in Tasks : Queued(t)' <=> Queued(t) /\ t # u
  <2>1. \A j \in 1..Len(list') : list'[j] # u
    BY <1>0, <1>1 DEF TaskInOnePlace
  <2> QED BY <1>0, <1>1, <2>1, SMTT(30) DEF Queued
<1>3. Queued(u)
  BY <1>0 DEF Queued
<1>4. \A t \in Tasks : t # u => Status(t)' = Status(t)
  <2>1. worker'[w].task = u
    BY <1>1, AtType
  <2> QED BY <1>1, <1>2, <2>1, StatusKept, TasksAssumption
<1>5. Status(u) = "queued" /\ Status(u)' = "running"
  BY <1>1, <1>3 DEF StatusCases, With
<1>6. \A t \in Tasks : (ticket'[t] # "none" /\ ~Outstanding(t)')
                          <=> (ticket[t] # "none" /\ ~Outstanding(t))
  BY DEF Outstanding
<1>7. Exec!Move(u, "queued", "running")
  BY <1>1, <1>4, <1>5, <1>6, Moves
<1> QED BY <1>1, <1>7 DEF Exec!Take, Simulated

(* The end of a functor, and mark(): the worker's own task moves on. *)
LEMMA SimulateOwn ==
  ASSUME TypeOK, NEW w \in Workers, NEW u \in Tasks, worker[w].task = u,
         NEW p, NEW q, worker'[w] = At(p, q), q \in {u, NoTask},
         \A v \in Workers : v # w => worker'[v] = worker[v],
         \A t \in Tasks : t # u => ticket'[t] = ticket[t],
         ticket[u] # "none", ticket'[u] # "none", UNCHANGED <<list, outstanding>>,
         NEW from, NEW to, Status(u) = from, Status(u)' = to
  PROVE  Exec!Move(u, from, to)
<1>1. \A t \in Tasks : t # u => Status(t)' = Status(t)
  BY StatusKept, AtType, TasksAssumption DEF Queued
<1>2. \A t \in Tasks : (ticket'[t] # "none" /\ ~Outstanding(t)')
                          <=> (ticket[t] # "none" /\ ~Outstanding(t))
  BY DEF Outstanding
<1> QED BY <1>1, <1>2, Moves

LEMMA SimulateRun ==
  ASSUME TypeOK, TaskInOnePlace, TaskInOnePlace', StatusCases, StatusCases',
         NEW w \in Workers, Run(w)
  PROVE  Simulated
<1>0. worker \in [Workers -> WorkerStates]
  BY DEF TypeOK, WorkerStates, Holding
<1>u. PICK u \in Tasks : u = worker[w].task
  BY <1>0 DEF Run, TaskInOnePlace, WorkerStates, Holding
<1>1. worker[w].task = u /\ worker[w] = At("run", u) /\ HeldBy(w, u)
  BY <1>0, <1>u DEF Run, WorkerStates, At, HeldBy
<1>2. ticket[u] = "open" /\ ~Queued(u) /\ \A v \in Workers : HeldBy(v, u) => v = w
  BY <1>1 DEF TaskInOnePlace
<1>3. Status(u) = "running"
  BY <1>1 DEF StatusCases, With
<1>4. ticket' = ticket /\ list' = list /\ outstanding' = outstanding
  BY DEF Run
<1>5. CASE u \in Faulty
  <2>1. /\ worker'[w] = At("gone", NoTask)
        /\ \A v \in Workers : v # w => worker'[v] = worker[v]
    BY <1>0, <1>1, <1>5 DEF Run
  <2>2. \A v \in Workers : worker'[v] # At("run", u) /\ worker'[v] # At("mark", u)
    BY <1>1, <1>2, <2>1, AtType, TasksAssumption DEF HeldBy
  <2>3. ~Queued(u)'
    BY <1>2, <1>4 DEF Queued
  <2>4. Status(u)' = "lost"
    BY <1>1, <1>2, <1>4, <2>2, <2>3 DEF StatusCases, With
  <2>5. Exec!Move(u, "running", "lost")
    BY <1>1, <1>2, <1>3, <1>4, <2>1, <2>4, SimulateOwn
  <2> QED BY <1>1, <1>5, <2>5 DEF Exec!Throw, Simulated
<1>6. CASE u \notin Faulty
  <2>1. /\ worker'[w] = At("mark", u)
        /\ \A v \in Workers : v # w => worker'[v] = worker[v]
    BY <1>0, <1>1, <1>6 DEF Run
  <2>2. Status(u)' = "executed"
    BY <1>1, <2>1 DEF StatusCases, With
  <2>3. Exec!Move(u, "running", "executed")
    BY <1>1, <1>2, <1>3, <1>4, <2>1, <2>2, SimulateOwn
  <2> QED BY <1>1, <1>6, <2>3 DEF Exec!Finish, Simulated
<1> QED BY <1>5, <1>6

LEMMA SimulateMark ==
  ASSUME TypeOK, TaskInOnePlace, StatusCases, StatusCases', NEW w \in Workers, Mark(w)
  PROVE  Simulated
<1>0. worker \in [Workers -> WorkerStates]
  BY DEF TypeOK, WorkerStates, Holding
<1>u. PICK u \in Tasks : u = worker[w].task
  BY <1>0 DEF Mark, TaskInOnePlace, WorkerStates, Holding
<1>1. worker[w].task = u /\ worker[w] = At("mark", u)
  BY <1>0, <1>u DEF Mark, WorkerStates, At
<1>2. Status(u) = "executed" /\ ticket[u] = "open"
  BY <1>1 DEF StatusCases, With, TaskInOnePlace, HeldBy
<1>3. \A t \in Tasks : ticket'[t] = IF t = u THEN "done" ELSE ticket[t]
  BY <1>1 DEF Mark, TypeOK
<1>4. /\ worker'[w] = At("look", NoTask)
      /\ \A v \in Workers : v # w => worker'[v] = worker[v]
      /\ list' = list /\ outstanding' = outstanding
  BY <1>0 DEF Mark
<1>5. Status(u)' = "done"
  BY <1>1, <1>3 DEF StatusCases
<1>6. Exec!Move(u, "executed", "done")
  BY <1>1, <1>2, <1>3, <1>4, <1>5, SimulateOwn
<1> QED BY <1>1, <1>6 DEF Exec!Mark, Simulated

LEMMA Simulation ==
  TypeOK /\ TypeOK' /\ TaskInOnePlace /\ TaskInOnePlace' /\ Fresh /\ [Next]_vars
    => [Exec!Next]_Exec!vars
<1> SUFFICES ASSUME TypeOK, TypeOK', TaskInOnePlace, TaskInOnePlace', Fresh, [Next]_vars
             PROVE  Simulated
  BY DEF Simulated, Exec!Next, Exec!vars, StatusMap, AwaitedSet
<1>0. /\ worker \in [Workers -> WorkerStates] /\ main.i \in Workers
      /\ \A w \in Workers : worker[w].task # NoTask <=> worker[w].at \in Busy
      /\ StatusCases /\ StatusCases'
  BY StatusValue, StatusValueNext DEF TypeOK, WorkerStates, Holding, TaskInOnePlace, Busy
<1>1. CASE Spawn
  <2>1. worker[main.i].task = NoTask
    BY <1>0, <1>1 DEF Spawn, Fresh, Workers, Busy
  <2>2. \A v \in Workers : \/ worker'[v] = worker[v]
                           \/ worker[v].task = NoTask /\ worker'[v].task = NoTask
    BY <1>0, <1>1, <2>1, AtType DEF Spawn
  <2> QED BY <1>1, <2>2, PlainStep DEF Spawn
<1>2. CASE Terminate
  BY <1>0, <1>2, BroadcastMoves, PlainStep DEF Terminate
<1>3. CASE Pin \/ Join \/ SpuriousWakeup \/ Drop \/ Closed \/ UNCHANGED vars
  BY <1>3, PlainStep DEF Pin, Join, SpuriousWakeup, Drop, Closed, vars
<1>4. ASSUME NEW w \in Workers, WorkerStep(w) \/ SpuriousLook(w) PROVE Simulated
  <2>1. CASE Start(w)
    <3> DEFINE ws == [worker EXCEPT ![w] = At("look", NoTask)]
    <3>1. /\ worker[w].task = NoTask
          /\ ws \in [Workers -> WorkerStates]
          /\ \A v \in Workers : ws[v] = IF v = w THEN At("look", NoTask) ELSE worker[v]
      BY <1>0, <2>1, AtType DEF Start, Busy, Places, Holding
    <3>2. worker' = Broadcast(ws)
      BY <2>1 DEF Start
    <3> HIDE DEF ws
    <3>3. \A v \in Workers : ws[v].task # NoTask <=> ws[v].at \in Busy
      BY <1>0, <3>1, AtType DEF Busy
    <3>4. \A v \in Workers : \/ worker'[v] = ws[v]
                             \/ ws[v].task = NoTask /\ worker'[v].task = NoTask
      BY <3>1, <3>2, <3>3, BroadcastMoves
    <3>5. \A v \in Workers : \/ worker'[v] = worker[v]
                             \/ worker[v].task = NoTask /\ worker'[v].task = NoTask
      BY <3>1, <3>4, AtType
    <3> QED BY <2>1, <3>5, PlainStep DEF Start
  <2>2. CASE TryPop(w) \/ Pick(w)
    <3>1. worker[w].task = NoTask /\ UNCHANGED <<ticket, outstanding>>
      BY <1>0, <2>2, LookEffect DEF Busy
    <3>2. CASE \E i \in 1..Len(list) : Take(w, i)
      BY <1>0, <3>1, <3>2, SimulateTake
    <3>3. CASE ~\E i \in 1..Len(list) : Take(w, i)
      <4>1. /\ list' = list /\ worker'[w].task = NoTask
            /\ \A v \in Workers : v # w => worker'[v] = worker[v]
        BY <2>2, <3>3, LookEffect
      <4> QED BY <3>1, <4>1, PlainStep
    <3> QED BY <3>2, <3>3
  <2>3. CASE SpuriousLook(w)
    <3>1. \A v \in Workers : \/ worker'[v] = worker[v]
                             \/ worker[v].task = NoTask /\ worker'[v].task = NoTask
      BY <1>0, <2>3, AtType DEF SpuriousLook, Busy
    <3> QED BY <2>3, <3>1, PlainStep DEF SpuriousLook
  <2> QED BY <1>0, <1>4, <2>1, <2>2, <2>3, SimulateRun, SimulateMark DEF WorkerStep
<1>5. ASSUME NEW c \in Clients,
             \/ ClientStep(c) \/ SpuriousReturn(c)
             \/ \E t \in Tasks : Enqueue(c, t) \/ Wait(c, t)
      PROVE  Simulated
  <2>1. CASE Announce(c)
    BY <1>0, <2>1, BroadcastMoves, PlainStep DEF Announce
  <2>2. CASE SpuriousReturn(c)
    BY <2>2, PlainStep DEF SpuriousReturn
  <2>3. CASE WakeUp(c) \/ \E t \in Tasks : Wait(c, t)
    <3>1. UNCHANGED <<list, ticket, worker>> /\ \E u : WaitFor(c, u)
      BY <2>3 DEF WakeUp, Wait
    <3> QED BY <1>0, <3>1, SimulateWaitFor
  <2>4. CASE \E t \in Tasks : Enqueue(c, t)
    BY <1>0, <2>4, SimulateEnqueue
  <2> QED BY <1>5, <2>1, <2>2, <2>3, <2>4 DEF ClientStep
<1> QED BY <1>1, <1>2, <1>3, <1>4, <1>5 DEF Next, MainStep

(* Clients may rely on the pool as on Executor, whatever the list is, how  *)
(* many workers it has and whether tickets are shared: a wait that returns *)
(* returns after the task's functor has ended, once, and has been marked.  *)
THEOREM PoolImplementsExecutor == Spec => ImplementsExecutor
<1>1. Init => Exec!Init
  <2> SUFFICES ASSUME Init PROVE Exec!Init
    OBVIOUS
  <2>1. \A t \in Tasks : ticket[t] = "none"
    BY DEF Init
  <2>2. \A t \in Tasks : Status(t) = "new"
    BY <2>1 DEF Status
  <2> QED BY <2>1, <2>2 DEF Exec!Init
<1>2. Init => Fresh
  BY AtType DEF Init, Fresh
<1> QED BY <1>1, <1>2, PoolTypeOK, PoolTaskInOnePlace, FreshNext, Simulation, PTL
        DEF Spec, ImplementsExecutor, Exec!Spec

-----------------------------------------------------------------------------
(* Pinning.  Unless pthread_cond_wait returns to the constructor without a *)
(* signal, a worker has stored its thread id when the constructor reads it.*)

SetUp == \A w \in Workers :
            /\ worker[w].at = "born" => main.at = "barrier" /\ w = main.i
            /\ main.at = "pin" /\ w = main.i => worker[w].at # "absent"

PinnedSoFar ==
    kind = "affinity" =>
        \A w \in Workers : main.at \notin {"spawn", "barrier", "pin"} \/ w < main.i
                           => w \in pinned

LEMMA SetUpKept ==
  ASSUME SetUp, PinnedSoFar, UNCHANGED <<kind, pinned, main>>,
         \A w \in Workers : worker'[w].at \in {"absent", "born"} => worker'[w] = worker[w]
  PROVE  SetUp' /\ PinnedSoFar'
  BY DEF SetUp, PinnedSoFar

LEMMA SetUpNext ==
  ASSUME "constructor" \notin Spurious
  PROVE  TypeOK /\ SetUp /\ PinnedSoFar /\ [Next]_vars => SetUp' /\ PinnedSoFar'
<1> SUFFICES ASSUME TypeOK, SetUp, PinnedSoFar, [Next]_vars PROVE SetUp' /\ PinnedSoFar'
  OBVIOUS
<1>0. /\ worker \in [Workers -> WorkerStates]
      /\ main \in [at : MainPlaces, i : Workers] /\ main.i \in Workers
      /\ NumThreads \in Nat /\ Workers = 1..NumThreads
  BY NumThreadsAssumption DEF TypeOK, WorkerStates, Holding, Workers
<1>b. \A w \in Workers : Broadcast(worker)[w].at \in {"absent", "born"}
                             => Broadcast(worker)[w] = worker[w]
  BY <1>0, AtType DEF Broadcast, Awake
<1>1. CASE Spawn
  <2>1. main.at = "spawn" /\ main'.at = "barrier" /\ main'.i = main.i
    BY <1>0, <1>1 DEF Spawn
  <2>2. \A w \in Workers : w # main.i => worker'[w] = worker[w]
    BY <1>0, <1>1 DEF Spawn
  <2>3. SetUp'
    BY <2>1, <2>2 DEF SetUp
  <2> QED BY <1>1, <2>1, <2>3 DEF Spawn, PinnedSoFar
<1>2. CASE Pin
  <2>1. worker[main.i].at \notin {"absent", "born"} /\ main.at = "pin"
    BY <1>0, <1>2 DEF Pin, SetUp
  <2>2. kind = "affinity" => pinned' = pinned \cup {main.i}
    BY <1>2, <2>1 DEF Pin
  <2>3. \/ main.i = NumThreads /\ main'.at = "open"
        \/ main'.at = "spawn" /\ main'.i = main.i + 1
    BY <1>0, <1>2 DEF Pin
  <2>4. kind' = kind /\ worker' = worker
    BY <1>2 DEF Pin
  <2>5. SetUp'
    BY <2>1, <2>3, <2>4 DEF SetUp
  <2>6. PinnedSoFar'
    BY <1>0, <2>1, <2>2, <2>3, <2>4 DEF PinnedSoFar
  <2> QED BY <2>5, <2>6
<1>3. CASE Terminate \/ Join \/ Drop
  <2>1. /\ main.at \in {"drop", "join", "open"} /\ main'.at \in {"drop", "join", "closed"}
        /\ kind' = kind /\ pinned' = pinned
    BY <1>0, <1>3 DEF Terminate, Join, Drop
  <2>2. \A w \in Workers : worker'[w].at = "born" => worker[w].at = "born"
    BY <1>b, <1>3 DEF Terminate, Join, Drop
  <2>3. SetUp'
    BY <2>1, <2>2 DEF SetUp
  <2> QED BY <2>1, <2>3 DEF PinnedSoFar
<1>4. CASE Closed \/ UNCHANGED vars
  BY <1>4, SetUpKept DEF Closed, vars
<1>5. ASSUME NEW w \in Workers, WorkerStep(w) \/ SpuriousLook(w) PROVE SetUp' /\ PinnedSoFar'
  <2>1. CASE Start(w)
    <3> DEFINE ws == [worker EXCEPT ![w] = At("look", NoTask)]
    <3>1. worker[w].at = "born" /\ main.at = "barrier" /\ w = main.i
      BY <2>1 DEF Start, SetUp
    <3>2. main'.at = "pin" /\ main'.i = main.i
      BY <1>0, <2>1, <3>1 DEF Start, Roused
    <3>3. /\ ws \in [Workers -> WorkerStates] /\ ws[w].at = "look"
          /\ \A v \in Workers : v # w => ws[v] = worker[v]
      BY <1>0, AtType DEF Places, Holding
    <3>4. worker' = Broadcast(ws)
      BY <2>1 DEF Start
    <3> HIDE DEF ws
    <3>5. /\ worker'[w].at = "look"
          /\ \A v \in Workers : v # w => (worker'[v].at = "born" => worker[v].at = "born")
      BY <3>3, <3>4, BroadcastEffect
    <3>6. SetUp'
      BY <3>1, <3>2, <3>5 DEF SetUp
    <3> QED BY <2>1, <3>1, <3>2, <3>6 DEF Start, PinnedSoFar
  <2>2. CASE TryPop(w) \/ Pick(w)
    <3>1. \A v \in Workers : worker'[v].at \in {"absent", "born"} => worker'[v] = worker[v]
      BY <2>2, LookEffect, TakeEffect
    <3> QED BY <2>2, <3>1, LookEffect, SetUpKept
  <2>3. CASE Run(w) \/ Mark(w) \/ SpuriousLook(w)
    <3>1. \A v \in Workers : worker'[v].at \in {"absent", "born"} => worker'[v] = worker[v]
      BY <1>0, <2>3, AtType DEF Run, Mark, SpuriousLook
    <3> QED BY <2>3, <3>1, SetUpKept DEF Run, Mark, SpuriousLook
  <2> QED BY <1>5, <2>1, <2>2, <2>3 DEF WorkerStep
<1>6. ASSUME NEW c \in Clients,
             \/ ClientStep(c) \/ SpuriousReturn(c)
             \/ \E t \in Tasks : Enqueue(c, t) \/ Wait(c, t)
      PROVE  SetUp' /\ PinnedSoFar'
  <2>1. /\ worker' = worker \/ worker' = Broadcast(worker)
        /\ UNCHANGED <<kind, pinned, main>>
    BY <1>6 DEF ClientStep, Announce, WakeUp, SpuriousReturn, Enqueue, Wait
  <2> QED BY <1>b, <2>1, SetUpKept
<1> QED BY <1>1, <1>2, <1>3, <1>4, <1>5, <1>6 DEF Next, MainStep, SpuriousWakeup

(* Without spurious wake-ups of the constructor, every worker of the pool  *)
(* with affinity is bound to its processing unit when the pool is there.   *)
THEOREM PoolWorkersArePinned ==
  ASSUME "constructor" \notin Spurious
  PROVE  Spec => []WorkersArePinned
<1>1. Init => SetUp /\ PinnedSoFar
  <2> SUFFICES ASSUME Init PROVE SetUp /\ PinnedSoFar
    OBVIOUS
  <2>1. /\ main.at = "spawn" /\ main.i = 1 /\ \A w \in Workers : worker[w].at = "absent"
    BY AtType DEF Init
  <2> QED BY <2>1 DEF SetUp, PinnedSoFar, Workers
<1>2. TypeOK /\ PinnedSoFar => WorkersArePinned
  BY DEF TypeOK, PinnedSoFar, WorkersArePinned
<1> QED BY <1>1, <1>2, PoolTypeOK, SetUpNext, PTL DEF Spec

-----------------------------------------------------------------------------
(* Waiters are told.  mark() signals one waiter, which is enough as long   *)
(* as a ticket has no more: no two vectors hold the same ticket, and a     *)
(* client waits for the last ticket of its own vector.                     *)

Holds(c, t) == \E i \in 1..Len(outstanding[c]) : outstanding[c][i] = t

LastOf(c) == outstanding[c][Len(outstanding[c])]

OwnTickets ==
    /\ \A c, d \in Clients : \A t : Holds(c, t) /\ Holds(d, t) => c = d
    /\ \A c \in Clients : \A t : Holds(c, t) => t \in Tasks /\ ticket[t] # "none"
    /\ \A c \in Clients : client[c].at \in {"wait", "woken"} =>
                            outstanding[c] # <<>> /\ client[c].task = LastOf(c)

LEMMA LastIsHeld ==
  ASSUME TypeOK, NEW c \in Clients, outstanding[c] # <<>>
  PROVE  Holds(c, LastOf(c))
<1>1. Len(outstanding[c]) \in Nat /\ Len(outstanding[c]) # 0
  BY EmptySeq, LenProperties DEF TypeOK
<1> QED BY <1>1 DEF Holds, LastOf

LEMMA SameVectors ==
  ASSUME outstanding' = outstanding
  PROVE  \A c \in Clients : LastOf(c)' = LastOf(c) /\ \A t : Holds(c, t)' <=> Holds(c, t)
  BY DEF LastOf, Holds

LEMMA OwnKept ==
  ASSUME OwnTickets, WaitersAreTold, UNCHANGED <<client, ticket, outstanding>>
  PROVE  OwnTickets' /\ WaitersAreTold'
<1>1. OwnTickets'
  BY SameVectors DEF OwnTickets
<1> QED BY <1>1 DEF WaitersAreTold

LEMMA OwnWaitFor ==
  ASSUME TypeOK, OwnTickets, WaitersAreTold, NEW c \in Clients, NEW u, WaitFor(c, u),
         outstanding[c] # <<>>, u = LastOf(c), UNCHANGED ticket
  PROVE  OwnTickets' /\ WaitersAreTold'
<1>1. CASE ticket[u] = "done"
  <2>1. /\ client'[c].at = "idle"
        /\ \A d \in Clients : d # c => client'[d] = client[d]
        /\ outstanding'[c] = Front(outstanding[c])
        /\ \A d \in Clients : d # c => outstanding'[d] = outstanding[d]
    BY <1>1, AtType DEF WaitFor, TypeOK, LastOf
  <2>2. /\ Len(outstanding[c]) \in Nat
        /\ Len(Front(outstanding[c])) = Len(outstanding[c]) - 1
        /\ \A i \in 1..Len(outstanding[c]) - 1 : Front(outstanding[c])[i] = outstanding[c][i]
    BY FrontFacts, LenProperties DEF TypeOK
  <2>3. \A d \in Clients : \A t : Holds(d, t)' => Holds(d, t)
    BY <2>1, <2>2 DEF Holds
  <2>4. \A d \in Clients : client'[d].at \in {"wait", "woken"} =>
                              outstanding'[d] # <<>> /\ client'[d].task = LastOf(d)'
    BY <2>1 DEF OwnTickets, LastOf
  <2>5. WaitersAreTold'
    BY <2>1 DEF WaitersAreTold
  <2> QED BY <2>3, <2>4, <2>5 DEF OwnTickets
<1>2. CASE ticket[u] # "done"
  <2>1. /\ client'[c].at = "wait" /\ client'[c].task = u
        /\ \A d \in Clients : d # c => client'[d] = client[d]
        /\ outstanding' = outstanding
    BY <1>2, AtType DEF WaitFor, TypeOK
  <2>2. OwnTickets'
    BY <2>1, SameVectors DEF OwnTickets
  <2>3. WaitersAreTold'
    BY <1>2, <2>1 DEF WaitersAreTold
  <2> QED BY <2>2, <2>3
<1> QED BY <1>1, <1>2

LEMMA OwnEnqueue ==
  ASSUME TypeOK, OwnTickets, WaitersAreTold, NEW c \in Clients, NEW u \in Tasks, Enqueue(c, u)
  PROVE  OwnTickets' /\ WaitersAreTold'
<1> DEFINE s == outstanding[c]
<1>1. /\ s \in Seq(Tasks) /\ ticket[u] = "none" /\ client[c].at = "idle"
      /\ outstanding' = [outstanding EXCEPT ![c] = Append(s, u)]
  BY DEF Enqueue, TypeOK
<1>2. /\ Len(s) \in Nat /\ Len(Append(s, u)) = Len(s) + 1
      /\ Append(s, u)[Len(s) + 1] = u
      /\ \A i \in 1..Len(s) : Append(s, u)[i] = s[i]
  BY <1>1, AppendProperties, LenProperties
<1>3. /\ outstanding'[c] = Append(s, u)
      /\ \A d \in Clients : d # c => outstanding'[d] = outstanding[d]
  BY <1>1 DEF TypeOK
<1>4. \A t : Holds(c, t)' => Holds(c, t) \/ t = u
  BY <1>2, <1>3 DEF Holds
<1>5. \A d \in Clients : d # c => \A t : Holds(d, t)' <=> Holds(d, t)
  BY <1>3 DEF Holds
<1>6. \A t \in Tasks : ticket'[t] = IF t = u THEN "open" ELSE ticket[t]
  BY DEF Enqueue, TypeOK
<1>7. client'[c].at \in {"idle", "pushed"} /\ \A d \in Clients : d # c => client'[d] = client[d]
  BY <1>1, AtType DEF Enqueue, TypeOK
<1>8. \A d \in Clients : ~Holds(d, u)
  BY <1>1 DEF OwnTickets
<1>9. \A d \in Clients : client'[d].at \in {"wait", "woken"} =>
                            outstanding'[d] # <<>> /\ client'[d].task = LastOf(d)'
  BY <1>3, <1>7 DEF OwnTickets, LastOf
<1>10. \A d \in Clients : client[d].at = "wait" => client[d].task \in Tasks
  BY LastIsHeld DEF OwnTickets
<1>11. WaitersAreTold'
  BY <1>6, <1>7, <1>10 DEF WaitersAreTold
<1>12. \A d, e \in Clients : \A t : Holds(d, t)' /\ Holds(e, t)' => d = e
  BY <1>4, <1>5, <1>8 DEF OwnTickets
<1>13. \A d \in Clients : \A t : Holds(d, t)' => t \in Tasks /\ ticket'[t] # "none"
  BY <1>4, <1>5, <1>6 DEF OwnTickets
<1> QED BY <1>9, <1>11, <1>12, <1>13 DEF OwnTickets

LEMMA OwnMark ==
  ASSUME TypeOK, OwnTickets, WaitersAreTold, NEW w \in Workers, Mark(w)
  PROVE  OwnTickets' /\ WaitersAreTold'
<1>u. PICK u : u = worker[w].task
  OBVIOUS
<1>1. outstanding' = outstanding /\ ticket' = [ticket EXCEPT ![u] = "done"]
  BY <1>u DEF Mark
<1>2. \A t \in Tasks : ticket'[t] = IF t = u THEN "done" ELSE ticket[t]
  BY <1>1 DEF TypeOK
<1>3. \A d \in Clients : client[d].at = "wait" => Holds(d, client[d].task)
  BY LastIsHeld DEF OwnTickets
<1>4. CASE /\ \A d \in Clients : client[d] # At("wait", u)
           /\ client' = client
  <2>1. \A d \in Clients : client[d].at = "wait" => client[d].task # u
    BY <1>4 DEF TypeOK, At
  <2>2. WaitersAreTold'
    BY <1>2, <1>3, <1>4, <2>1 DEF WaitersAreTold, OwnTickets
  <2>3. OwnTickets'
    BY <1>1, <1>2, <1>4, SameVectors DEF OwnTickets
  <2> QED BY <2>2, <2>3
<1>5. ASSUME NEW c \in Clients, client[c] = At("wait", u),
             client' = [client EXCEPT ![c] = At("woken", u)]
      PROVE  OwnTickets' /\ WaitersAreTold'
  <2>1. /\ client[c].at = "wait" /\ client[c].task = u
        /\ client'[c].at = "woken" /\ client'[c].task = u
        /\ \A d \in Clients : d # c => client'[d] = client[d]
    BY <1>5, AtType DEF TypeOK
  <2>2. \A d \in Clients : d # c /\ client[d].at = "wait" => client[d].task # u
    BY <1>3, <2>1 DEF OwnTickets
  <2>3. WaitersAreTold'
    BY <1>2, <1>3, <2>1, <2>2 DEF WaitersAreTold, OwnTickets
  <2>4. OwnTickets'
    BY <1>1, <1>2, <2>1, SameVectors DEF OwnTickets
  <2> QED BY <2>3, <2>4
<1> QED BY <1>u, <1>4, <1>5, MarkEffect

LEMMA OwnNext ==
  ASSUME ~Shared
  PROVE  TypeOK /\ OwnTickets /\ WaitersAreTold /\ [Next]_vars => OwnTickets' /\ WaitersAreTold'
<1> SUFFICES ASSUME TypeOK, OwnTickets, WaitersAreTold, [Next]_vars
             PROVE  OwnTickets' /\ WaitersAreTold'
  OBVIOUS
<1>1. CASE MainStep \/ SpuriousWakeup \/ Drop \/ Closed \/ UNCHANGED vars
  BY <1>1, OwnKept DEF MainStep, Spawn, Pin, Terminate, Join, SpuriousWakeup, Drop, Closed, vars
<1>2. ASSUME NEW w \in Workers, WorkerStep(w) \/ SpuriousLook(w) PROVE OwnTickets' /\ WaitersAreTold'
  <2>1. CASE Start(w) \/ TryPop(w) \/ Pick(w) \/ Run(w) \/ SpuriousLook(w)
    BY <2>1, OwnKept DEF Start, TryPop, Pick, Run, SpuriousLook
  <2> QED BY <1>2, <2>1, OwnMark DEF WorkerStep
<1>3. ASSUME NEW c \in Clients,
             \/ ClientStep(c) \/ SpuriousReturn(c)
             \/ \E t \in Tasks : Enqueue(c, t) \/ Wait(c, t)
      PROVE  OwnTickets' /\ WaitersAreTold'
  <2>1. CASE Announce(c) \/ SpuriousReturn(c)
    <3>1. /\ client'[c].at # "wait"
          /\ client'[c].at = "woken" => client[c].at = "wait" /\ client'[c].task = client[c].task
          /\ \A d \in Clients : d # c => client'[d] = client[d]
          /\ UNCHANGED <<ticket, outstanding>>
      BY <2>1, AtType DEF Announce, SpuriousReturn, TypeOK
    <3>2. WaitersAreTold'
      BY <3>1 DEF WaitersAreTold
    <3>3. OwnTickets'
      BY <3>1, SameVectors DEF OwnTickets
    <3> QED BY <3>2, <3>3
  <2>2. CASE WakeUp(c)
    BY <2>2, OwnWaitFor DEF WakeUp, OwnTickets
  <2>3. CASE \E t \in Tasks : Wait(c, t)
    BY <2>3, OwnWaitFor DEF Wait, Awaitable, LastOf
  <2> QED BY <1>3, <2>1, <2>2, <2>3, OwnEnqueue DEF ClientStep
<1> QED BY <1>1, <1>2, <1>3 DEF Next

(* As long as every client waits for its own tickets only, as all backends *)
(* do, no client sleeps on a ticket that has been marked.                  *)
THEOREM PoolWaitersAreTold ==
  ASSUME ~Shared
  PROVE  Spec => []WaitersAreTold
<1>1. Init => OwnTickets /\ WaitersAreTold
  <2> SUFFICES ASSUME Init PROVE OwnTickets /\ WaitersAreTold
    OBVIOUS
  <2>1. \A c \in Clients : client[c].at = "idle" /\ Len(outstanding[c]) = 0
    BY AtType, EmptySeq DEF Init
  <2> QED BY <2>1 DEF OwnTickets, WaitersAreTold, Holds
<1> QED BY <1>1, PoolTypeOK, OwnNext, PTL DEF Spec
=============================================================================
