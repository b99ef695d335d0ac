------------------------- MODULE WorkStealingProofs -------------------------
(***************************************************************************)
(* Proofs about WorkStealing, for any numbers of workers, clients and      *)
(* tasks and both kinds of lists: tasks are in one place whoever steals    *)
(* them, nobody sleeps on tasks of its own, std::deque thieves use live    *)
(* threads only, and the pool implements Executor.                         *)
(***************************************************************************)
EXTENDS WorkStealing, SequenceTheorems, TLAPS

-----------------------------------------------------------------------------
(* Sequences, by their elements.                                           *)

LEMMA PrefixFacts ==
  ASSUME NEW S, NEW s \in Seq(S), NEW n \in Nat, n <= Len(s)
  PROVE  /\ SubSeq(s, 1, n) \in Seq(S)
         /\ Len(SubSeq(s, 1, n)) = n
         /\ \A i \in 1..n : SubSeq(s, 1, n)[i] = s[i]
<1>1. Len(s) \in Nat /\ \A i \in 1..n : s[i] \in S
  BY LenProperties, ElementOfSeq
<1> DEFINE u == SubSeq(s, 1, n)
<1>2. /\ u \in Seq(S)
      /\ Len(u) = IF 1 <= n THEN n - 1 + 1 ELSE 0
      /\ \A i \in 1..n - 1 + 1 : u[i] = s[1 + i - 1]
  BY <1>1, SubSeqProperties
<1> HIDE DEF u
<1>3. u \in Seq(S) /\ Len(u) = n /\ \A i \in 1..n : u[i] = s[i]
  BY <1>2
<1> QED BY <1>3 DEF u

LEMMA TailFacts ==
  ASSUME NEW S, NEW s \in Seq(S), s # <<>>
  PROVE  /\ Len(s) \in Nat /\ Len(s) >= 1 /\ Head(s) = s[1] /\ s[1] \in S
         /\ Tail(s) \in Seq(S)
         /\ Len(Tail(s)) = Len(s) - 1
         /\ \A i \in 1..Len(s) - 1 : Tail(s)[i] = s[i + 1]
<1>1. Len(s) \in Nat /\ Len(s) # 0
  BY EmptySeq, LenProperties
<1>2. s[1] \in S
  BY <1>1, ElementOfSeq
<1> QED BY <1>1, <1>2, HeadTailProperties

-----------------------------------------------------------------------------
(* Types. *)

Holding == Tasks \cup {NoTask}

WorkerStates == [at : Places, task : Holding]

LEMMA AtType ==
  ASSUME NEW p, NEW t
  PROVE  /\ At(p, t).at = p /\ At(p, t).task = t
         /\ p \in Places /\ t \in Holding => At(p, t) \in WorkerStates
  BY DEF At, WorkerStates

LEMMA BroadcastType ==
  ASSUME NEW ws \in [Workers -> WorkerStates]
  PROVE  Broadcast(ws) \in [Workers -> WorkerStates]
<1>1. At("look", NoTask) \in WorkerStates
  BY AtType DEF Places, Holding
<1> QED BY <1>1 DEF Broadcast

(* What the broadcast and Goes do to the workers. *)
LEMMA BroadcastEffect ==
  ASSUME NEW ws \in [Workers -> WorkerStates], NEW w \in Workers
  PROVE  /\ Broadcast(ws)[w].at = IF ws[w].at = "wait" THEN "look" ELSE ws[w].at
         /\ Broadcast(ws)[w].task = IF ws[w].at = "wait" THEN NoTask ELSE ws[w].task
         /\ ws[w].at # "wait" => Broadcast(ws)[w] = ws[w]
  BY AtType DEF Broadcast

LEMMA GoesEffect ==
  ASSUME TypeOK, NEW w \in Workers, NEW p, Goes(w, p)
  PROVE  /\ worker'[w].at = p /\ worker'[w].task = NoTask
         /\ \A v \in Workers : v # w => worker'[v] = worker[v]
         /\ p \in Places => worker' \in [Workers -> WorkerStates]
  BY AtType DEF Goes, TypeOK, WorkerStates, Holding

LEMMA PlaceType ==
  ASSUME TypeOK, NEW w \in Workers, NEW p \in Places
  PROVE  [worker EXCEPT ![w].at = p] \in [Workers -> WorkerStates]
<1>1. worker \in [Workers -> WorkerStates]
  BY DEF TypeOK, WorkerStates, Holding
<1> QED BY <1>1 DEF WorkerStates

LEMMA TakeOwnEffect ==
  ASSUME TypeOK, NEW w \in Workers, NEW ls \in [Workers -> Seq(Tasks)], ls[w] # <<>>,
         TakeOwn(w, ls)
  PROVE  /\ worker' \in [Workers -> WorkerStates] /\ lists' \in [Workers -> Seq(Tasks)]
         /\ ls[w][1] \in Tasks /\ Len(ls[w]) \in Nat /\ Len(ls[w]) >= 1
         /\ worker'[w] = At("run", ls[w][1])
         /\ \A v \in Workers : v # w => worker'[v] = worker[v] /\ lists'[v] = ls[v]
         /\ Len(lists'[w]) = Len(ls[w]) - 1
         /\ \A i \in 1..Len(ls[w]) - 1 : lists'[w][i] = ls[w][i + 1]
<1> DEFINE s == ls[w]
<1>1. /\ Len(s) \in Nat /\ Len(s) >= 1 /\ Head(s) = s[1] /\ s[1] \in Tasks
      /\ Tail(s) \in Seq(Tasks) /\ Len(Tail(s)) = Len(s) - 1
      /\ \A i \in 1..Len(s) - 1 : Tail(s)[i] = s[i + 1]
  BY TailFacts
<1>2. At("run", s[1]) \in WorkerStates
  BY <1>1, AtType DEF Places, Holding
<1>3. /\ worker' = [worker EXCEPT ![w] = At("run", s[1])]
      /\ lists' = [ls EXCEPT ![w] = Tail(s)]
  BY <1>1 DEF TakeOwn
<1> QED BY <1>1, <1>2, <1>3 DEF TypeOK, WorkerStates, Holding

LEMMA StolenEffect ==
  ASSUME TypeOK, NEW v \in Workers, NEW w \in Workers, lists[w] = <<>>, lists[v] # <<>>
  PROVE  \E n \in Nat, k \in Nat :
           /\ v # w /\ n = Len(lists[v]) /\ 1 <= k /\ k <= n
           /\ Stolen(v, w) \in [Workers -> Seq(Tasks)]
           /\ \A u \in Workers : u # v /\ u # w => Stolen(v, w)[u] = lists[u]
           /\ Len(Stolen(v, w)[v]) = n - k /\ \A i \in 1..n - k : Stolen(v, w)[v][i] = lists[v][i]
           /\ Len(Stolen(v, w)[w]) = k /\ \A i \in 1..k : Stolen(v, w)[w][i] = lists[v][n + 1 - i]
           /\ Stolen(v, w)[w] # <<>>
<1> DEFINE s == lists[v]
           n == Len(s)
           k == Loot(s)
           front == SubSeq(s, 1, n - k)
           back == [i \in 1..k |-> s[n + 1 - i]]
<1>1. s \in Seq(Tasks) /\ n \in Nat /\ n # 0 /\ v # w /\ \A i \in 1..n : s[i] \in Tasks
  BY EmptySeq, LenProperties, ElementOfSeq DEF TypeOK
<1>2. k \in Nat /\ 1 <= k /\ k <= n
  <2>1. n \in Nat /\ n # 0 /\ k = IF n = 1 THEN 1 ELSE n \div 2
    BY <1>1 DEF Loot
  <2> HIDE DEF n, k
  <2> QED BY <2>1
<1>3. Stolen(v, w) = [lists EXCEPT ![v] = front, ![w] = back]
  BY DEF Stolen
<1> HIDE DEF k
<1>4. front \in Seq(Tasks) /\ Len(front) = n - k /\ \A i \in 1..n - k : front[i] = s[i]
  <2>1. n - k \in Nat /\ n - k <= Len(s)
    BY <1>1, <1>2
  <2> QED BY <1>1, <2>1, PrefixFacts
<1>5. back \in Seq(Tasks) /\ Len(back) = k /\ \A i \in 1..k : back[i] = s[n + 1 - i]
  <2>1. \A i \in 1..k : n + 1 - i \in 1..n
    BY <1>1, <1>2
  <2>2. back \in [1..k -> Tasks]
    BY <1>1, <2>1
  <2>3. back \in Seq(Tasks)
    BY <1>2, <2>2, IsASeq
  <2>4. DOMAIN back = 1..Len(back) /\ Len(back) \in Nat
    BY <2>3, LenProperties
  <2>5. 1..Len(back) = 1..k
    BY <2>4
  <2>6. Len(back) = k
    BY <1>2, <2>4, <2>5
  <2> QED BY <2>3, <2>6
<1>6. back # <<>>
  BY <1>2, <1>5, EmptySeq
<1> HIDE DEF front, back, n, s
<1>7. /\ Stolen(v, w) \in [Workers -> Seq(Tasks)]
      /\ Stolen(v, w)[v] = front /\ Stolen(v, w)[w] = back
      /\ \A u \in Workers : u # v /\ u # w => Stolen(v, w)[u] = lists[u]
  <2>1. lists \in [Workers -> Seq(Tasks)]
    BY DEF TypeOK
  <2>2. v # w /\ front \in Seq(Tasks) /\ back \in Seq(Tasks)
    BY <1>1, <1>4, <1>5
  <2> QED BY <1>3, <2>1, <2>2
<1>8. n = Len(lists[v]) /\ s = lists[v]
  BY DEF n, s
<1>9. /\ v # w /\ n = Len(lists[v]) /\ 1 <= k /\ k <= n
      /\ Stolen(v, w) \in [Workers -> Seq(Tasks)]
      /\ \A u \in Workers : u # v /\ u # w => Stolen(v, w)[u] = lists[u]
      /\ Stolen(v, w)[w] # <<>>
  BY <1>1, <1>2, <1>6, <1>7, <1>8
<1>10. Len(Stolen(v, w)[v]) = n - k /\ \A i \in 1..n - k : Stolen(v, w)[v][i] = lists[v][i]
  BY <1>4, <1>7, <1>8
<1>11. Len(Stolen(v, w)[w]) = k /\ \A i \in 1..k : Stolen(v, w)[w][i] = lists[v][n + 1 - i]
  BY <1>5, <1>7, <1>8
<1> QED BY <1>1, <1>2, <1>9, <1>10, <1>11

LEMMA TypeInit == Init => TypeOK
<1>1. 1 \in Workers
  BY NumThreadsAssumption DEF Workers
<1>2. At("absent", NoTask) \in WorkerStates
  BY AtType DEF Places, Holding
<1>3. <<>> \in Seq(Tasks)
  BY EmptySeq
<1> SUFFICES ASSUME Init PROVE TypeOK
  OBVIOUS
<1>4. worker \in [Workers -> WorkerStates] /\ lists \in [Workers -> Seq(Tasks)]
  BY <1>2, <1>3 DEF Init
<1>5. kind \in Kinds /\ main \in [at : MainPlaces, i : Workers]
  BY <1>1 DEF Init, MainPlaces
<1>6. /\ ticket \in [Tasks -> {"none", "open", "done"}]
      /\ client \in [Clients -> {"idle", "pushed"}]
  BY DEF Init
<1>7. /\ terminate \in [Workers -> BOOLEAN] /\ globalTerminate \in BOOLEAN
      /\ threads \subseteq Workers /\ trashed \in BOOLEAN
  BY DEF Init
<1> QED BY <1>4, <1>5, <1>6, <1>7 DEF TypeOK, WorkerStates, Holding

(* A worker has a task from the moment it is taken out of a list until the *)
(* ticket is marked or the task is in another list.                        *)
Busy == {"carry", "run", "mark"}

HandsFull == \A w \in Workers : worker[w].task # NoTask <=> worker[w].at \in Busy

LEMMA TypeNext == TypeOK /\ HandsFull /\ [Next]_vars => TypeOK'
<1> SUFFICES ASSUME TypeOK, HandsFull, [Next]_vars PROVE TypeOK'
  OBVIOUS
<1> USE DEF TypeOK
<1>0. /\ worker \in [Workers -> WorkerStates]
      /\ main.i \in Workers /\ main.at \in MainPlaces
      /\ \A p \in Places : At(p, NoTask) \in WorkerStates
  BY AtType DEF WorkerStates, Holding
<1>n. 1 \in Workers /\ (main.i # NumThreads => main.i + 1 \in Workers)
  BY <1>0, NumThreadsAssumption DEF Workers
<1>1. CASE Spawn
  BY <1>0, <1>1 DEF Spawn, Goes, MainPlaces, Places, WorkerStates, Holding
<1>2. CASE PushThread
  BY <1>0, <1>n, <1>2 DEF PushThread, MainPlaces
<1>3. CASE DeleteThread
  BY <1>0, <1>n, <1>3 DEF DeleteThread, MainPlaces
<1>4. CASE Terminate
  BY <1>0, <1>4, BroadcastType DEF Terminate, MainPlaces, WorkerStates, Holding
<1>5. CASE Join
  BY <1>0, <1>n, <1>5 DEF Join, MainPlaces
<1>6. CASE GlobalTerminate
  BY <1>n, <1>6 DEF GlobalTerminate, MainPlaces
<1>7. CASE UNCHANGED vars
  BY <1>7 DEF vars
<1>8. ASSUME NEW w \in Workers, WorkerStep(w) PROVE TypeOK'
  <2>0. ASSUME NEW p \in Places, Goes(w, p) PROVE worker' \in [Workers -> WorkerStates]
    BY <2>0, GoesEffect
  <2>1. CASE Start(w)
    <3>1. [worker EXCEPT ![w] = At("gate", NoTask)] \in [Workers -> WorkerStates]
      BY <1>0 DEF Places
    <3> QED BY <1>0, <2>1, <3>1, BroadcastType DEF Start, MainPlaces, WorkerStates, Holding
  <2>2. CASE Pass(w)
    BY <2>0, <2>2 DEF Pass, Places, WorkerStates, Holding
  <2>3. CASE Look(w)
    <3>1. CASE lists[w] # <<>>
      BY <2>3, <3>1, TakeOwnEffect DEF Look, WorkerStates, Holding
    <3>2. CASE lists[w] = <<>>
      <4>1. (IF kind = "deque" THEN "hungry" ELSE "check") \in Places
        BY DEF Places
      <4> QED BY <2>0, <2>3, <3>2, <4>1 DEF Look, WorkerStates, Holding
    <3> QED BY <3>1, <3>2
  <2>4. CASE Hunt(w)
    <3>1. CASE lists[w] # <<>>
      BY <2>4, <3>1, TakeOwnEffect DEF Hunt, WorkerStates, Holding
    <3>2. CASE lists[w] = <<>> /\ ~globalTerminate
      <4>1. PICK v \in Workers :
              /\ trashed' = (trashed \/ v \notin threads)
              /\ IF lists[v] # <<>> THEN TakeOwn(w, Stolen(v, w))
                 ELSE Goes(w, IF terminate[w] THEN "gone" ELSE "sleepy") /\ UNCHANGED lists
        BY <2>4, <3>2 DEF Hunt
      <4>2. CASE lists[v] # <<>>
        <5>1. Stolen(v, w) \in [Workers -> Seq(Tasks)] /\ Stolen(v, w)[w] # <<>>
          BY <3>2, <4>2, StolenEffect
        <5> QED BY <2>4, <4>1, <4>2, <5>1, TakeOwnEffect DEF Hunt, WorkerStates, Holding
      <4>3. CASE lists[v] = <<>>
        <5>1. (IF terminate[w] THEN "gone" ELSE "sleepy") \in Places
          BY DEF Places
        <5> QED BY <2>0, <2>4, <4>1, <4>3, <5>1 DEF Hunt, WorkerStates, Holding
      <4> QED BY <4>2, <4>3
    <3>3. CASE lists[w] = <<>> /\ globalTerminate
      <4>1. (IF terminate[w] THEN "gone" ELSE "look") \in Places
        BY DEF Places
      <4> QED BY <2>0, <2>4, <3>3, <4>1 DEF Hunt, WorkerStates, Holding
    <3> QED BY <3>1, <3>2, <3>3
  <2>5. CASE FallAsleep(w)
    BY <2>0, <2>5 DEF FallAsleep, Places, WorkerStates, Holding
  <2>6. CASE Check(w)
    <3>1. CASE globalTerminate /\ lists[w] # <<>>
      BY <2>6, <3>1, TakeOwnEffect DEF Check, WorkerStates, Holding
    <3>2. CASE ~(globalTerminate /\ lists[w] # <<>>)
      <4>1. UNCHANGED lists /\ \E p \in {"steal", "gone", "look"} : Goes(w, p)
        BY <2>6, <3>2 DEF Check
      <4> QED BY <2>0, <2>6, <4>1 DEF Check, Places, WorkerStates, Holding
    <3> QED BY <3>1, <3>2
  <2>7. ASSUME NEW v \in Workers, Steal(w, v) PROVE TypeOK'
    <3>1. CASE lists[v] # <<>>
      <4> DEFINE s == lists[v]
      <4>1. Len(s) \in Nat /\ Len(s) # 0 /\ s \in Seq(Tasks) /\ s[Len(s)] \in Tasks
        BY <3>1, EmptySeq, LenProperties, ElementOfSeq
      <4>2. SubSeq(s, 1, Len(s) - 1) \in Seq(Tasks)
        BY <4>1, PrefixFacts
      <4>3. At("carry", s[Len(s)]) \in WorkerStates
        BY <4>1, AtType DEF Places, Holding
      <4>4. /\ worker' = [worker EXCEPT ![w] = At("carry", s[Len(s)])]
            /\ lists' = [lists EXCEPT ![v] = SubSeq(s, 1, Len(s) - 1)]
        BY <2>7, <3>1 DEF Steal
      <4> HIDE DEF s
      <4> QED BY <1>0, <2>7, <4>2, <4>3, <4>4 DEF Steal, WorkerStates, Holding
    <3>2. CASE lists[v] = <<>>
      BY <2>0, <2>7, <3>2 DEF Steal, Places, WorkerStates, Holding
    <3> QED BY <3>1, <3>2
  <2>8. CASE Carry(w)
    <3>1. worker[w].task \in Tasks
      BY <2>8 DEF Carry, HandsFull, Busy
    <3>2. Append(lists[w], worker[w].task) \in Seq(Tasks)
      BY <3>1, AppendProperties
    <3> QED BY <2>0, <2>8, <3>2 DEF Carry, Places, WorkerStates, Holding
  <2>9. CASE SlowLook(w)
    <3>1. CASE lists[w] # <<>>
      BY <2>9, <3>1, TakeOwnEffect DEF SlowLook, WorkerStates, Holding
    <3>2. CASE lists[w] = <<>>
      <4>1. (IF globalTerminate THEN "look" ELSE "wait") \in Places
        BY DEF Places
      <4> QED BY <2>0, <2>9, <3>2, <4>1 DEF SlowLook, WorkerStates, Holding
    <3> QED BY <3>1, <3>2
  <2>10. CASE Run(w)
    <3>1. worker' \in [Workers -> WorkerStates]
      BY <2>10, PlaceType DEF Run, Places
    <3> QED BY <2>10, <3>1 DEF Run, WorkerStates, Holding
  <2>11. CASE Mark(w)
    BY <2>0, <2>11 DEF Mark, Places, WorkerStates, Holding
  <2> QED BY <1>8, <2>1, <2>2, <2>3, <2>4, <2>5, <2>6, <2>7, <2>8, <2>9, <2>10, <2>11
             DEF WorkerStep
<1>9. ASSUME NEW c \in Clients, Announce(c) \/ \E t \in Tasks, w \in Workers : Enqueue(c, t, w)
      PROVE  TypeOK'
  <2>1. CASE Announce(c)
    BY <1>0, <2>1, BroadcastType DEF Announce, WorkerStates, Holding
  <2>2. ASSUME NEW t \in Tasks, NEW w \in Workers, Enqueue(c, t, w) PROVE TypeOK'
    <3>1. Append(lists[w], t) \in Seq(Tasks)
      BY AppendProperties
    <3> QED BY <2>2, <3>1 DEF Enqueue
  <2> QED BY <1>9, <2>1, <2>2
<1> QED BY <1>1, <1>2, <1>3, <1>4, <1>5, <1>6, <1>7, <1>8, <1>9 DEF Next, MainStep

LEMMA HandsNext == TypeOK /\ HandsFull /\ [Next]_vars => HandsFull'
<1> SUFFICES ASSUME TypeOK, HandsFull, [Next]_vars PROVE HandsFull'
  OBVIOUS
<1>0. worker \in [Workers -> WorkerStates] /\ main.i \in Workers
  BY DEF TypeOK, WorkerStates, Holding
<1>k. ASSUME \A w \in Workers : worker'[w].task # NoTask <=> worker'[w].at \in Busy
      PROVE  HandsFull'
  BY <1>k DEF HandsFull
<1>g. ASSUME NEW w \in Workers, NEW p, p \notin Busy, Goes(w, p) PROVE HandsFull'
  BY <1>g, GoesEffect DEF HandsFull
<1>b. ASSUME NEW ws \in [Workers -> WorkerStates], worker' = Broadcast(ws),
             \A w \in Workers : ws[w].task # NoTask <=> ws[w].at \in Busy
      PROVE  HandsFull'
  BY <1>b, <1>k, BroadcastEffect DEF Busy
<1>t. ASSUME NEW w \in Workers, NEW ls \in [Workers -> Seq(Tasks)], ls[w] # <<>>, TakeOwn(w, ls)
      PROVE  HandsFull'
  <2>1. /\ worker'[w].at = "run" /\ worker'[w].task \in Tasks
        /\ \A v \in Workers : v # w => worker'[v] = worker[v]
    BY <1>t, TakeOwnEffect, AtType
  <2> QED BY <2>1, TasksAssumption DEF HandsFull, Busy
<1>1. CASE Spawn
  BY <1>0, <1>1, <1>g DEF Spawn, Busy
<1>2. CASE Terminate \/ \E c \in Clients : Announce(c)
  BY <1>0, <1>2, <1>b DEF Terminate, Announce, HandsFull
<1>3. CASE PushThread \/ DeleteThread \/ Join \/ GlobalTerminate \/ UNCHANGED vars
  BY <1>3 DEF PushThread, DeleteThread, Join, GlobalTerminate, vars, HandsFull
<1>4. ASSUME NEW c \in Clients, NEW t \in Tasks, NEW w \in Workers, Enqueue(c, t, w)
      PROVE  HandsFull'
  BY <1>4 DEF Enqueue, HandsFull
<1>5. ASSUME NEW w \in Workers, WorkerStep(w) PROVE HandsFull'
  <2>1. CASE Start(w)
    <3> DEFINE ws == [worker EXCEPT ![w] = At("gate", NoTask)]
    <3>1. /\ ws \in [Workers -> WorkerStates]
          /\ \A v \in Workers : ws[v] = IF v = w THEN At("gate", NoTask) ELSE worker[v]
      BY <1>0, AtType DEF Places, Holding
    <3>2. \A v \in Workers : ws[v].task # NoTask <=> ws[v].at \in Busy
      BY <3>1, AtType DEF HandsFull, Busy
    <3>3. worker' = Broadcast(ws)
      BY <2>1 DEF Start
    <3> HIDE DEF ws
    <3> QED BY <1>b, <3>1, <3>2, <3>3
  <2>2. CASE Pass(w) \/ FallAsleep(w) \/ Carry(w) \/ Mark(w)
    <3>1. \E p \in {"look", "wait", "slow"} : Goes(w, p)
      BY <2>2 DEF Pass, FallAsleep, Carry, Mark
    <3> QED BY <1>g, <3>1 DEF Busy
  <2>3. CASE Look(w) \/ Check(w) \/ SlowLook(w) \/ Hunt(w)
    <3>1. \/ lists[w] # <<>> /\ TakeOwn(w, lists)
          \/ \E v \in Workers : lists[w] = <<>> /\ lists[v] # <<>> /\ TakeOwn(w, Stolen(v, w))
          \/ \E p \in {"hungry", "check", "gone", "sleepy", "look", "steal", "wait"} : Goes(w, p)
      BY <2>3 DEF Look, Check, SlowLook, Hunt
    <3>2. lists \in [Workers -> Seq(Tasks)]
      BY DEF TypeOK
    <3>3. ASSUME NEW v \in Workers, lists[w] = <<>>, lists[v] # <<>>, TakeOwn(w, Stolen(v, w))
          PROVE  HandsFull'
      <4>1. Stolen(v, w) \in [Workers -> Seq(Tasks)] /\ Stolen(v, w)[w] # <<>>
        BY <3>3, StolenEffect
      <4> QED BY <1>t, <3>3, <4>1
    <3> QED BY <1>g, <1>t, <3>1, <3>2, <3>3 DEF Busy
  <2>4. ASSUME NEW v \in Workers, Steal(w, v) PROVE HandsFull'
    <3>1. CASE lists[v] # <<>>
      <4>1. Len(lists[v]) \in Nat /\ Len(lists[v]) # 0
        BY <3>1, EmptySeq, LenProperties DEF TypeOK
      <4>2. lists[v][Len(lists[v])] \in Tasks
        BY <4>1, ElementOfSeq DEF TypeOK
      <4>3. /\ worker'[w].at = "carry" /\ worker'[w].task \in Tasks
            /\ \A u \in Workers : u # w => worker'[u] = worker[u]
        BY <1>0, <2>4, <3>1, <4>2, AtType DEF Steal
      <4> QED BY <4>3, TasksAssumption DEF HandsFull, Busy
    <3>2. CASE lists[v] = <<>>
      BY <1>g, <2>4, <3>2 DEF Steal, Busy
    <3> QED BY <3>1, <3>2
  <2>5. CASE Run(w)
    <3>1. /\ worker'[w].at = "mark" /\ worker'[w].task = worker[w].task
          /\ \A v \in Workers : v # w => worker'[v] = worker[v]
      BY <1>0, <2>5 DEF Run, WorkerStates
    <3> QED BY <2>5, <3>1 DEF HandsFull, Busy, Run
  <2> QED BY <1>5, <2>1, <2>2, <2>3, <2>4, <2>5 DEF WorkerStep
<1> QED BY <1>1, <1>2, <1>3, <1>4, <1>5 DEF Next, MainStep

LEMMA HandsAlways == Spec => [](TypeOK /\ HandsFull)
<1>1. Init => HandsFull
  BY AtType DEF Init, HandsFull, Busy
<1> QED BY <1>1, TypeInit, TypeNext, HandsNext, PTL DEF Spec

(* Every variable keeps its type, the places of threads included. *)
THEOREM StealTypeOK == Spec => []TypeOK
  BY HandsAlways, PTL

-----------------------------------------------------------------------------
(* The lists as a whole: what is in some list, and that it is there once.  *)

Once(ls) ==
    \A v, w \in Workers : \A i \in 1..Len(ls[v]), j \in 1..Len(ls[w]) :
        ls[v][i] = ls[w][j] => v = w /\ i = j

Within(ls, t) == \E w \in Workers : \E i \in 1..Len(ls[w]) : ls[w][i] = t

LEMMA QueuedWithin == \A t : Queued(t) <=> Within(lists, t)
  BY DEF Queued, Within

(* Stealing half of a list moves tasks, and neither loses nor copies any.  *)
LEMMA StolenKeeps ==
  ASSUME TypeOK, NEW v \in Workers, NEW w \in Workers, lists[w] = <<>>, lists[v] # <<>>,
         Once(lists)
  PROVE  Once(Stolen(v, w)) /\ \A t : Within(Stolen(v, w), t) <=> Within(lists, t)
<1> DEFINE ls == Stolen(v, w)
<1>1. PICK n \in Nat, k \in Nat :
           /\ v # w /\ n = Len(lists[v]) /\ 1 <= k /\ k <= n
           /\ \A u \in Workers : u # v /\ u # w => ls[u] = lists[u]
           /\ Len(ls[v]) = n - k /\ \A i \in 1..n - k : ls[v][i] = lists[v][i]
           /\ Len(ls[w]) = k /\ \A i \in 1..k : ls[w][i] = lists[v][n + 1 - i]
  BY StolenEffect
<1>2. Len(lists[w]) = 0
  BY EmptySeq
<1> HIDE DEF ls
<1>3. \A u \in Workers : u # w => \A i \in 1..Len(ls[u]) :
         i \in 1..Len(lists[u]) /\ ls[u][i] = lists[u][i] /\ (u = v => i <= n - k)
  BY <1>1
<1>4. \A i \in 1..Len(ls[w]) : n + 1 - i \in 1..Len(lists[v]) /\ n + 1 - i > n - k
  BY <1>1
<1>5. ASSUME NEW x \in Workers, NEW y \in Workers, NEW i \in 1..Len(ls[x]), NEW j \in 1..Len(ls[y]),
             ls[x][i] = ls[y][j]
      PROVE  x = y /\ i = j
  <2>1. CASE x # w /\ y # w
    BY <1>3, <1>5, <2>1 DEF Once
  <2>2. CASE x = w /\ y = w
    <3>1. PICK a \in 1..Len(lists[v]), b \in 1..Len(lists[v]) :
            /\ a = n + 1 - i /\ b = n + 1 - j
            /\ lists[v][a] = ls[w][i] /\ lists[v][b] = ls[w][j]
      BY <1>1, <1>4, <2>2
    <3>2. a = b
      BY <1>5, <2>2, <3>1 DEF Once
    <3>3. i \in 1..k /\ j \in 1..k
      BY <1>1, <2>2
    <3>4. i = j
      BY <3>1, <3>2, <3>3
    <3> QED BY <2>2, <3>4
  <2>3. CASE x = w /\ y # w
    <3>1. PICK a \in 1..Len(lists[v]) : a = n + 1 - i /\ a > n - k /\ lists[v][a] = ls[w][i]
      BY <1>1, <1>4, <2>3
    <3>2. v = y /\ a = j
      BY <1>3, <1>5, <2>3, <3>1 DEF Once
    <3> QED BY <1>1, <1>3, <2>3, <3>1, <3>2
  <2>4. CASE x # w /\ y = w
    <3>1. PICK b \in 1..Len(lists[v]) : b = n + 1 - j /\ b > n - k /\ lists[v][b] = ls[w][j]
      BY <1>1, <1>4, <2>4
    <3>2. x = v /\ i = b
      BY <1>3, <1>5, <2>4, <3>1 DEF Once
    <3> QED BY <1>1, <1>3, <2>4, <3>1, <3>2
  <2> QED BY <2>1, <2>2, <2>3, <2>4
<1>6. ASSUME NEW t, Within(ls, t) PROVE Within(lists, t)
  <2>0. PICK x \in Workers : \E i \in 1..Len(ls[x]) : ls[x][i] = t
    BY <1>6 DEF Within
  <2>1. PICK i \in 1..Len(ls[x]) : ls[x][i] = t
    BY <2>0
  <2>2. CASE x = w
    BY <1>1, <1>4, <2>1, <2>2 DEF Within
  <2>3. CASE x # w
    BY <1>3, <2>1, <2>3 DEF Within
  <2> QED BY <2>2, <2>3
<1>7. ASSUME NEW t, Within(lists, t) PROVE Within(ls, t)
  <2>0. PICK x \in Workers : \E i \in 1..Len(lists[x]) : lists[x][i] = t
    BY <1>7 DEF Within
  <2>1. PICK i \in 1..Len(lists[x]) : lists[x][i] = t
    BY <2>0
  <2>2. CASE x # v
    <3>1. ls[x] = lists[x]
      BY <1>1, <1>2, <2>1, <2>2
    <3> QED BY <2>1, <3>1 DEF Within
  <2>3. CASE x = v /\ i <= n - k
    <3>1. i \in 1..n - k /\ lists[v][i] = t
      BY <1>1, <2>1, <2>3
    <3>2. Len(ls[v]) = n - k /\ \A j \in 1..n - k : ls[v][j] = lists[v][j]
      BY <1>1
    <3>3. i \in 1..Len(ls[v]) /\ ls[v][i] = t
      BY <3>1, <3>2
    <3> QED BY <3>3 DEF Within
  <2>4. CASE x = v /\ i > n - k
    <3>1. n + 1 - i \in 1..k /\ n + 1 - (n + 1 - i) = i
      BY <1>1, <2>1, <2>4
    <3>2. PICK j \in 1..k : j = n + 1 - i /\ n + 1 - j = i
      BY <3>1
    <3>3. ls[w][j] = t /\ j \in 1..Len(ls[w])
      BY <1>1, <2>1, <2>4, <3>2
    <3> QED BY <3>3 DEF Within
  <2> QED BY <1>1, <2>1, <2>2, <2>3, <2>4
<1> QED BY <1>5, <1>6, <1>7 DEF Once, ls

(* Taking a worker's first task. *)
LEMMA HeadTaken ==
  ASSUME TypeOK, NEW w \in Workers, NEW ls \in [Workers -> Seq(Tasks)], ls[w] # <<>>,
         TakeOwn(w, ls), Once(ls)
  PROVE  /\ Within(ls, ls[w][1])
         /\ Once(lists')
         /\ \A t : Within(lists', t) <=> Within(ls, t) /\ t # ls[w][1]
<1>1. /\ Len(ls[w]) \in Nat /\ Len(ls[w]) >= 1
      /\ \A v \in Workers : Len(ls[v]) \in Nat /\ (v # w => lists'[v] = ls[v])
      /\ Len(lists'[w]) = Len(ls[w]) - 1
      /\ \A i \in 1..Len(ls[w]) - 1 : lists'[w][i] = ls[w][i + 1]
  BY TakeOwnEffect, LenProperties
<1>2. 1 \in 1..Len(ls[w])
  BY <1>1
<1>3. \A x \in Workers : \A i \in 1..Len(lists'[x]) : \E a \in 1..Len(ls[x]) :
         /\ a = (IF x = w THEN i + 1 ELSE i)
         /\ lists'[x][i] = ls[x][a]
         /\ x = w => a # 1
  BY <1>1
<1>4. \A x \in Workers : \A a \in 1..Len(ls[x]) : x # w \/ a # 1 =>
         \E i \in 1..Len(lists'[x]) : lists'[x][i] = ls[x][a]
  <2> SUFFICES ASSUME NEW x \in Workers, NEW a \in 1..Len(ls[x]), x # w \/ a # 1
               PROVE  \E i \in 1..Len(lists'[x]) : lists'[x][i] = ls[x][a]
    OBVIOUS
  <2>1. CASE x # w
    BY <1>1, <2>1
  <2>2. CASE x = w
    <3>1. a - 1 \in 1..Len(lists'[w]) /\ a - 1 + 1 = a
      BY <1>1, <2>2
    <3> QED BY <1>1, <2>2, <3>1
  <2> QED BY <2>1, <2>2
<1>5. Once(lists')
  <2> SUFFICES ASSUME NEW x \in Workers, NEW y \in Workers,
                      NEW i \in 1..Len(lists'[x]), NEW j \in 1..Len(lists'[y]),
                      lists'[x][i] = lists'[y][j]
               PROVE  x = y /\ i = j
    BY DEF Once
  <2>1. PICK a \in 1..Len(ls[x]) : a = (IF x = w THEN i + 1 ELSE i) /\ lists'[x][i] = ls[x][a]
    BY <1>3
  <2>2. PICK b \in 1..Len(ls[y]) : b = (IF y = w THEN j + 1 ELSE j) /\ lists'[y][j] = ls[y][b]
    BY <1>3
  <2>3. ls[x][a] = ls[y][b]
    BY <2>1, <2>2
  <2>4. x = y /\ a = b
    BY <2>3 DEF Once
  <2> QED BY <2>1, <2>2, <2>4
<1>6. \A x \in Workers : \A i \in 1..Len(lists'[x]) : lists'[x][i] # ls[w][1]
  BY <1>2, <1>3 DEF Once
<1>7. \A t : Within(lists', t) => Within(ls, t) /\ t # ls[w][1]
  BY <1>3, <1>6 DEF Within
<1>8. \A t : Within(ls, t) /\ t # ls[w][1] => Within(lists', t)
  BY <1>4 DEF Within
<1>9. Within(ls, ls[w][1])
  BY <1>2 DEF Within
<1> QED BY <1>5, <1>7, <1>8, <1>9

(* A thief's pop_back, and push_back by a thief or a client. *)
LEMMA LastTaken ==
  ASSUME TypeOK, NEW v \in Workers, lists[v] # <<>>, Once(lists),
         lists' = [lists EXCEPT ![v] = SubSeq(@, 1, Len(@) - 1)]
  PROVE  LET u == lists[v][Len(lists[v])]
         IN  /\ u \in Tasks /\ Within(lists, u)
             /\ Once(lists')
             /\ \A t : Within(lists', t) <=> Within(lists, t) /\ t # u
<1> DEFINE n == Len(lists[v])
           u == lists[v][n]
<1>1. n \in Nat /\ n \in 1..n /\ u \in Tasks /\ lists[v] \in Seq(Tasks)
  BY EmptySeq, LenProperties, ElementOfSeq DEF TypeOK
<1>2. /\ Len(SubSeq(lists[v], 1, n - 1)) = n - 1
      /\ \A i \in 1..n - 1 : SubSeq(lists[v], 1, n - 1)[i] = lists[v][i]
  <2>1. n - 1 \in Nat /\ n - 1 <= n
    BY <1>1
  <2> QED BY <1>1, <2>1, PrefixFacts
<1>3. /\ \A x \in Workers : x # v => lists'[x] = lists[x]
      /\ lists'[v] = SubSeq(lists[v], 1, n - 1)
  BY DEF TypeOK
<1> HIDE DEF n
<1>4. \A x \in Workers : \A i \in 1..Len(lists'[x]) :
         i \in 1..Len(lists[x]) /\ lists'[x][i] = lists[x][i] /\ (x = v => i # n)
  BY <1>1, <1>2, <1>3 DEF n
<1>5. \A x \in Workers : \A i \in 1..Len(lists[x]) : x # v \/ i # n =>
         i \in 1..Len(lists'[x]) /\ lists'[x][i] = lists[x][i]
  BY <1>1, <1>2, <1>3 DEF n
<1>6. Once(lists')
  BY <1>4 DEF Once
<1>7. \A x \in Workers : \A i \in 1..Len(lists'[x]) : lists'[x][i] # u
  BY <1>1, <1>4 DEF Once, n
<1>8. \A t : Within(lists', t) <=> Within(lists, t) /\ t # u
  BY <1>4, <1>5, <1>7 DEF Within
<1> QED BY <1>1, <1>6, <1>8 DEF Within, n

LEMMA Appended ==
  ASSUME TypeOK, NEW w \in Workers, NEW u \in Tasks, ~Within(lists, u), Once(lists),
         lists' = [lists EXCEPT ![w] = Append(@, u)]
  PROVE  Once(lists') /\ \A t : Within(lists', t) <=> Within(lists, t) \/ t = u
<1> DEFINE n == Len(lists[w])
<1>1. /\ n \in Nat /\ Len(Append(lists[w], u)) = n + 1
      /\ Append(lists[w], u)[n + 1] = u
      /\ \A i \in 1..n : Append(lists[w], u)[i] = lists[w][i]
  BY AppendProperties, LenProperties DEF TypeOK
<1>2. /\ \A x \in Workers : x # w => lists'[x] = lists[x]
      /\ lists'[w] = Append(lists[w], u)
  BY DEF TypeOK
<1> HIDE DEF n
<1>3. \A x \in Workers : \A i \in 1..Len(lists'[x]) :
         \/ x = w /\ i = n + 1 /\ lists'[x][i] = u
         \/ i \in 1..Len(lists[x]) /\ lists'[x][i] = lists[x][i]
  BY <1>1, <1>2 DEF n
<1>4. \A x \in Workers : \A i \in 1..Len(lists[x]) :
         i \in 1..Len(lists'[x]) /\ lists'[x][i] = lists[x][i] /\ lists[x][i] # u
  BY <1>1, <1>2 DEF n, Within
<1>5. n + 1 \in 1..Len(lists'[w]) /\ lists'[w][n + 1] = u
  BY <1>1, <1>2
<1>6. Once(lists')
  BY <1>3, <1>4 DEF Once
<1>7. \A t : Within(lists', t) => Within(lists, t) \/ t = u
  BY <1>3 DEF Within
<1>8. \A t : Within(lists, t) \/ t = u => Within(lists', t)
  BY <1>4, <1>5 DEF Within
<1> QED BY <1>6, <1>7, <1>8

-----------------------------------------------------------------------------
(* A task is in one place.  The constructor starts each thread once: a     *)
(* worker whose turn has not come is still absent, so starting it cannot   *)
(* make a worker forget its task.                                          *)

Fresh == \A w \in Workers :
            \/ main.at = "spawn" /\ w >= main.i
            \/ main.at \in {"barrier", "push"} /\ w > main.i
            => worker[w].at = "absent"

(* What a step of a worker that is started does to it, to the others and   *)
(* to the lists.                                                           *)
LEMMA WorkerEffect ==
  ASSUME TypeOK, NEW w \in Workers, WorkerStep(w)
  PROVE  \/ Start(w) \/ Carry(w) \/ Run(w) \/ Mark(w)
         \/ /\ worker[w].at \in {"look", "check", "slow", "hungry"}
            /\ UNCHANGED <<kind, main, ticket, client, terminate, globalTerminate, threads>>
            /\ \/ lists[w] # <<>> /\ TakeOwn(w, lists)
               \/ \E v \in Workers : lists[w] = <<>> /\ lists[v] # <<>> /\ TakeOwn(w, Stolen(v, w))
         \/ /\ worker[w].at = "steal"
            /\ UNCHANGED <<kind, main, ticket, client, terminate, globalTerminate, threads>>
            /\ \E v \in Workers :
                 /\ lists[v] # <<>>
                 /\ worker' = [worker EXCEPT ![w] = At("carry", lists[v][Len(lists[v])])]
                 /\ lists' = [lists EXCEPT ![v] = SubSeq(@, 1, Len(@) - 1)]
         \/ /\ worker[w].at \in {"gate", "look", "check", "steal", "slow", "hungry", "sleepy"}
            /\ UNCHANGED <<kind, main, lists, ticket, client, terminate, globalTerminate, threads>>
            /\ \E p \in {"look", "check", "steal", "slow", "hungry", "sleepy", "wait", "gone"} :
                 /\ Goes(w, p)
                 /\ p = "sleepy" => worker[w].at = "hungry" /\ lists[w] = <<>>
                 /\ p = "wait" => \/ worker[w].at = "sleepy"
                                  \/ worker[w].at = "slow" /\ lists[w] = <<>>
<1>1. CASE Start(w) \/ Carry(w) \/ Run(w) \/ Mark(w)
  BY <1>1
<1>2. CASE Pass(w) \/ FallAsleep(w)
  BY <1>2 DEF Pass, FallAsleep
<1>3. CASE Look(w)
  BY <1>3 DEF Look
<1>4. CASE Hunt(w)
  BY <1>4 DEF Hunt
<1>5. CASE Check(w)
  BY <1>5 DEF Check
<1>6. CASE SlowLook(w)
  BY <1>6 DEF SlowLook
<1>7. CASE \E v \in Workers : Steal(w, v)
  BY <1>7 DEF Steal
<1> QED BY <1>1, <1>2, <1>3, <1>4, <1>5, <1>6, <1>7 DEF WorkerStep

LEMMA FreshKept ==
  ASSUME Fresh, TypeOK,
         main' = main \/ (main.at = "barrier" /\ main' = [main EXCEPT !.at = "push"]),
         \A w \in Workers : worker[w].at = "absent" => worker'[w].at = "absent"
  PROVE  Fresh'
<1>1. CASE main' = main
  BY <1>1 DEF Fresh
<1>2. CASE main.at = "barrier" /\ main' = [main EXCEPT !.at = "push"]
  <2>1. main'.at = "push" /\ main'.i = main.i
    BY <1>2 DEF TypeOK
  <2> QED BY <1>2, <2>1 DEF Fresh
<1> QED BY <1>1, <1>2

(* The thread that is started next, and its construction. *)
Born == \A w \in Workers : worker[w].at = "born" => main.at = "barrier" /\ w = main.i

LEMMA FreshNext == TypeOK /\ Fresh /\ Born /\ [Next]_vars => Fresh' /\ Born'
<1> SUFFICES ASSUME TypeOK, Fresh, Born, [Next]_vars PROVE Fresh' /\ Born'
  OBVIOUS
<1>0. /\ worker \in [Workers -> WorkerStates]
      /\ main \in [at : MainPlaces, i : Workers] /\ main.i \in Workers
      /\ NumThreads \in Nat /\ Workers = 1..NumThreads
  BY NumThreadsAssumption DEF TypeOK, WorkerStates, Holding, Workers
<1>k. ASSUME main' = main,
             \A w \in Workers : \/ worker'[w] = worker[w]
                                \/ worker[w].at # "absent" /\ worker'[w].at # "born"
      PROVE  Fresh' /\ Born'
  <2>1. \A w \in Workers : /\ worker[w].at = "absent" => worker'[w].at = "absent"
                           /\ worker'[w].at = "born" => worker[w].at = "born"
    BY <1>k
  <2> QED BY <1>k, <2>1, FreshKept DEF Born
<1>b. \A w \in Workers : \/ Broadcast(worker)[w] = worker[w]
                         \/ worker[w].at # "absent" /\ Broadcast(worker)[w].at # "born"
  <2> SUFFICES ASSUME NEW w \in Workers, worker[w].at = "wait"
               PROVE  Broadcast(worker)[w].at # "born"
    BY <1>0, BroadcastEffect
  <2> QED BY <1>0, BroadcastEffect
<1>1. CASE Spawn
  <2>1. main'.at = "barrier" /\ main'.i = main.i
    BY <1>0, <1>1 DEF Spawn
  <2>2. \A w \in Workers : w # main.i => worker'[w] = worker[w]
    BY <1>0, <1>1 DEF Spawn, Goes
  <2>3. \A w \in Workers : worker[w].at # "born"
    BY <1>1 DEF Spawn, Born
  <2>4. Born'
    BY <2>1, <2>2, <2>3 DEF Born
  <2>5. Fresh'
    BY <1>0, <1>1, <2>1, <2>2 DEF Spawn, Fresh
  <2> QED BY <2>4, <2>5
<1>2. CASE PushThread
  <2>1. \/ main'.at = "open"
        \/ main'.at = "spawn" /\ main'.i = main.i + 1
    BY <1>0, <1>2 DEF PushThread
  <2>2. \A w \in Workers : w >= main.i + 1 => worker[w].at = "absent"
    BY <1>0, <1>2 DEF PushThread, Fresh
  <2>3. worker' = worker /\ \A w \in Workers : worker[w].at # "born"
    BY <1>2 DEF PushThread, Born
  <2> QED BY <2>1, <2>2, <2>3 DEF Fresh, Born
<1>3. CASE DeleteThread \/ Join \/ GlobalTerminate \/ Terminate
  <2>1. main'.at \in {"delete", "drop", "join", "closed"} /\ main.at # "barrier"
    BY <1>0, <1>3 DEF Terminate, Join, DeleteThread, GlobalTerminate
  <2>2. \A w \in Workers : worker'[w].at # "born"
    <3>1. worker' = worker \/ worker' = Broadcast(worker)
      BY <1>3 DEF Terminate, Join, DeleteThread, GlobalTerminate
    <3>2. \A w \in Workers : worker[w].at # "born"
      BY <2>1 DEF Born
    <3> QED BY <1>b, <3>1, <3>2
  <2> QED BY <2>1, <2>2 DEF Fresh, Born
<1>4. CASE UNCHANGED vars
  BY <1>4, <1>k DEF vars
<1>5. ASSUME NEW w \in Workers, WorkerStep(w) PROVE Fresh' /\ Born'
  <2>1. CASE Start(w)
    <3> DEFINE ws == [worker EXCEPT ![w] = At("gate", NoTask)]
    <3>1. worker[w].at = "born" /\ main.at = "barrier" /\ w = main.i
      BY <2>1 DEF Start, Born
    <3>2. /\ ws \in [Workers -> WorkerStates] /\ ws[w].at = "gate"
          /\ \A v \in Workers : v # w => ws[v] = worker[v]
      BY <1>0, AtType DEF Places, Holding
    <3>3. worker' = Broadcast(ws)
      BY <2>1 DEF Start
    <3> HIDE DEF ws
    <3>4. \A v \in Workers : worker[v].at = "absent" => worker'[v].at = "absent"
      BY <3>1, <3>2, <3>3, BroadcastEffect
    <3>5. \A v \in Workers : worker'[v].at # "born"
      BY <3>1, <3>2, <3>3, BroadcastEffect DEF Born
    <3>6. Fresh'
      BY <2>1, <3>1, <3>4, FreshKept DEF Start
    <3> QED BY <3>5, <3>6 DEF Born
  <2>2. CASE ~Start(w)
    <3>1. worker[w].at # "absent" /\ main' = main
      BY <1>5, <2>2, WorkerEffect DEF Carry, Run, Mark
    <3>2. /\ worker'[w].at # "born"
          /\ \A v \in Workers : v # w => worker'[v] = worker[v]
      <4>1. CASE Carry(w) \/ Mark(w)
        BY <4>1, GoesEffect DEF Carry, Mark
      <4>2. CASE Run(w)
        BY <1>0, <4>2 DEF Run, WorkerStates
      <4>3. CASE lists[w] # <<>> /\ TakeOwn(w, lists)
        BY <4>3, TakeOwnEffect, AtType DEF TypeOK
      <4>4. ASSUME NEW v \in Workers, lists[w] = <<>>, lists[v] # <<>>, TakeOwn(w, Stolen(v, w))
            PROVE  /\ worker'[w].at # "born"
                   /\ \A u \in Workers : u # w => worker'[u] = worker[u]
        <5>1. Stolen(v, w) \in [Workers -> Seq(Tasks)] /\ Stolen(v, w)[w] # <<>>
          BY <4>4, StolenEffect
        <5> QED BY <4>4, <5>1, TakeOwnEffect, AtType
      <4>5. CASE \E x : worker' = [worker EXCEPT ![w] = At("carry", x)]
        BY <1>0, <4>5, AtType
      <4>6. CASE \E p \in Places \ {"born"} : Goes(w, p)
        BY <4>6, GoesEffect
      <4>7. {"look", "check", "steal", "slow", "hungry", "sleepy", "wait", "gone"} \subseteq Places \ {"born"}
        BY DEF Places
      <4> QED BY <1>5, <2>2, <4>1, <4>2, <4>3, <4>4, <4>5, <4>6, <4>7, WorkerEffect
    <3> QED BY <1>k, <3>1, <3>2
  <2> QED BY <2>1, <2>2
<1>6. ASSUME NEW c \in Clients, Announce(c) \/ \E t \in Tasks, w \in Workers : Enqueue(c, t, w)
      PROVE  Fresh' /\ Born'
  <2>1. (worker' = worker \/ worker' = Broadcast(worker)) /\ main' = main
    BY <1>6 DEF Announce, Enqueue
  <2> QED BY <1>b, <1>k, <2>1
<1> QED BY <1>1, <1>2, <1>3, <1>4, <1>5, <1>6 DEF Next, MainStep

(* TaskInOnePlace, with the lists as a whole. *)
OneHome(ls, ws, tk) ==
    \A t \in Tasks :
        /\ \A v, w \in Workers : ws[v].task = t /\ ws[w].task = t => v = w
        /\ Within(ls, t) => \A w \in Workers : ws[w].task # t
        /\ tk[t] = "open" <=> Within(ls, t) \/ \E w \in Workers : ws[w].task = t

LEMMA InOnePlace == TaskInOnePlace <=> HandsFull /\ Once(lists) /\ OneHome(lists, worker, ticket)
  BY DEF TaskInOnePlace, HandsFull, Once, OneHome, Within, Queued, HeldBy, Busy

LEMMA InOnePlaceNext ==
  TaskInOnePlace' <=> HandsFull' /\ Once(lists') /\ OneHome(lists', worker', ticket')
  BY DEF TaskInOnePlace, HandsFull, Once, OneHome, Within, Queued, HeldBy, Busy

LEMMA CalmKeeps ==
  ASSUME TaskInOnePlace, HandsFull', UNCHANGED <<lists, ticket>>,
         \A w \in Workers : worker'[w].task = worker[w].task
  PROVE  TaskInOnePlace'
<1>1. OneHome(lists', worker', ticket')
  BY InOnePlace DEF OneHome
<1> QED BY <1>1, InOnePlace, InOnePlaceNext

(* A task goes from its list into the hands of a worker. *)
LEMMA TakenKeeps ==
  ASSUME TaskInOnePlace, HandsFull', NEW w \in Workers, NEW u \in Tasks,
         worker[w].task = NoTask, worker'[w].task = u,
         \A v \in Workers : v # w => worker'[v] = worker[v],
         Within(lists, u), Once(lists'), \A t : Within(lists', t) <=> Within(lists, t) /\ t # u,
         UNCHANGED ticket
  PROVE  TaskInOnePlace'
<1>1. OneHome(lists, worker, ticket)
  BY InOnePlace
<1>2. \A v \in Workers, t \in Tasks : worker'[v].task = t <=> worker[v].task = t \/ (v = w /\ t = u)
  BY TasksAssumption
<1>3. \A t \in Tasks :
         /\ \A v, x \in Workers : worker'[v].task = t /\ worker'[x].task = t => v = x
         /\ Within(lists', t) => \A v \in Workers : worker'[v].task # t
         /\ ticket'[t] = "open" <=> Within(lists', t) \/ \E v \in Workers : worker'[v].task = t
  <2> SUFFICES ASSUME NEW t \in Tasks
               PROVE  /\ \A v, x \in Workers : worker'[v].task = t /\ worker'[x].task = t => v = x
                      /\ Within(lists', t) => \A v \in Workers : worker'[v].task # t
                      /\ ticket'[t] = "open" <=> Within(lists', t) \/ \E v \in Workers : worker'[v].task = t
    OBVIOUS
  <2>1. CASE t = u
    <3>1. \A v \in Workers : worker'[v].task = u <=> v = w
      BY <1>1, <1>2 DEF OneHome
    <3>2. ~Within(lists', u) /\ ticket'[u] = "open"
      BY <1>1 DEF OneHome
    <3> QED BY <2>1, <3>1, <3>2
  <2>2. CASE t # u
    <3>1. /\ Within(lists', t) <=> Within(lists, t)
          /\ \A v \in Workers : worker'[v].task = t <=> worker[v].task = t
      BY <1>2, <2>2
    <3> QED BY <1>1, <3>1 DEF OneHome
  <2> QED BY <2>1, <2>2
<1>4. OneHome(lists', worker', ticket')
  BY <1>3 DEF OneHome
<1> QED BY <1>4, InOnePlaceNext

(* And back, when a thief appends it to its own list. *)
LEMMA GivenKeeps ==
  ASSUME TaskInOnePlace, HandsFull', NEW w \in Workers, NEW u \in Tasks,
         worker[w].task = u, worker'[w].task = NoTask,
         \A v \in Workers : v # w => worker'[v] = worker[v],
         Once(lists'), \A t : Within(lists', t) <=> Within(lists, t) \/ t = u,
         UNCHANGED ticket
  PROVE  TaskInOnePlace'
<1>1. OneHome(lists, worker, ticket)
  BY InOnePlace
<1>2. \A v \in Workers, t \in Tasks : worker'[v].task = t <=> worker[v].task = t /\ v # w
  BY TasksAssumption
<1>3. ASSUME NEW t \in Tasks
      PROVE  /\ \A v, x \in Workers : worker'[v].task = t /\ worker'[x].task = t => v = x
             /\ Within(lists', t) => \A v \in Workers : worker'[v].task # t
             /\ ticket'[t] = "open" <=> Within(lists', t) \/ \E v \in Workers : worker'[v].task = t
  <2>1. CASE t = u
    <3>1. \A v \in Workers : worker'[v].task # u
      BY <1>1, <1>2 DEF OneHome
    <3>2. Within(lists', u) /\ ticket'[u] = "open"
      BY <1>1 DEF OneHome
    <3> QED BY <2>1, <3>1, <3>2
  <2>2. CASE t # u
    <3>1. /\ Within(lists', t) <=> Within(lists, t)
          /\ \A v \in Workers : worker'[v].task = t <=> worker[v].task = t
      BY <1>2, <2>2
    <3> QED BY <1>1, <3>1 DEF OneHome
  <2> QED BY <2>1, <2>2
<1>4. OneHome(lists', worker', ticket')
  BY <1>3 DEF OneHome
<1> QED BY <1>4, InOnePlaceNext

LEMMA MarkKeeps ==
  ASSUME TypeOK, HandsFull', TaskInOnePlace, NEW w \in Workers, Mark(w)
  PROVE  TaskInOnePlace'
<1> DEFINE u == worker[w].task
<1>1. /\ worker'[w].task = NoTask /\ lists' = lists
      /\ \A v \in Workers : v # w => worker'[v] = worker[v]
  BY GoesEffect DEF Mark
<1>2. u \in Tasks
  BY InOnePlace DEF Mark, TypeOK, HandsFull, Busy
<1>3. \A t \in Tasks : ticket'[t] = IF t = u THEN "done" ELSE ticket[t]
  BY DEF Mark, TypeOK
<1>4. OneHome(lists, worker, ticket) /\ Once(lists')
  BY <1>1, InOnePlace
<1> HIDE DEF u
<1>5. \A v \in Workers, t \in Tasks : worker'[v].task = t <=> worker[v].task = t /\ t # u
  BY <1>1, <1>2, <1>4, TasksAssumption DEF OneHome, u
<1>6. ~Within(lists, u)
  BY <1>2, <1>4 DEF OneHome, u
<1>7. OneHome(lists', worker', ticket')
  BY <1>1, <1>3, <1>4, <1>5, <1>6 DEF OneHome
<1> QED BY <1>4, <1>7, InOnePlaceNext

LEMMA EnqueueKeeps ==
  ASSUME TypeOK, HandsFull', TaskInOnePlace, NEW c \in Clients, NEW u \in Tasks, NEW w \in Workers,
         Enqueue(c, u, w)
  PROVE  TaskInOnePlace'
<1>1. OneHome(lists, worker, ticket) /\ Once(lists) /\ worker' = worker /\ ticket[u] = "none"
  BY InOnePlace DEF Enqueue
<1>2. ~Within(lists, u) /\ \A v \in Workers : worker[v].task # u
  BY <1>1 DEF OneHome
<1>3. Once(lists') /\ \A t : Within(lists', t) <=> Within(lists, t) \/ t = u
  BY <1>1, <1>2, Appended DEF Enqueue
<1>4. \A t \in Tasks : ticket'[t] = IF t = u THEN "open" ELSE ticket[t]
  BY DEF Enqueue, TypeOK
<1>5. OneHome(lists', worker', ticket')
  BY <1>1, <1>2, <1>3, <1>4 DEF OneHome
<1> QED BY <1>3, <1>5, InOnePlaceNext

(* The two ways of taking a task from a list. *)
LEMMA TakesKeep ==
  ASSUME TypeOK, HandsFull', TaskInOnePlace, NEW w \in Workers, worker[w].task = NoTask,
         UNCHANGED ticket,
         \/ lists[w] # <<>> /\ TakeOwn(w, lists)
         \/ \E v \in Workers : lists[w] = <<>> /\ lists[v] # <<>> /\ TakeOwn(w, Stolen(v, w))
  PROVE  /\ TaskInOnePlace'
         /\ \E u \in Tasks :
              /\ worker'[w] = At("run", u) /\ Within(lists, u)
              /\ \A v \in Workers : v # w => worker'[v] = worker[v]
              /\ \A t : Within(lists', t) <=> Within(lists, t) /\ t # u
<1>1. lists \in [Workers -> Seq(Tasks)] /\ Once(lists)
  BY InOnePlace DEF TypeOK
<1>2. ASSUME NEW ls \in [Workers -> Seq(Tasks)], ls[w] # <<>>, TakeOwn(w, ls), Once(ls),
             \A t : Within(ls, t) <=> Within(lists, t)
      PROVE  /\ TaskInOnePlace'
             /\ \E u \in Tasks :
                  /\ worker'[w] = At("run", u) /\ Within(lists, u)
                  /\ \A v \in Workers : v # w => worker'[v] = worker[v]
                  /\ \A t : Within(lists', t) <=> Within(lists, t) /\ t # u
  <2>1. PICK u \in Tasks : u = ls[w][1] /\ worker'[w] = At("run", u)
    BY <1>2, TakeOwnEffect
  <2>2. \A v \in Workers : v # w => worker'[v] = worker[v]
    BY <1>2, TakeOwnEffect
  <2>3. /\ Once(lists') /\ Within(lists, u)
        /\ \A t : Within(lists', t) <=> Within(lists, t) /\ t # u
    BY <1>2, <2>1, HeadTaken
  <2>4. worker'[w].task = u
    BY <2>1, AtType
  <2>5. TaskInOnePlace'
    BY <2>2, <2>3, <2>4, TakenKeeps
  <2> QED BY <2>1, <2>2, <2>3, <2>5
<1>3. ASSUME NEW v \in Workers, lists[w] = <<>>, lists[v] # <<>>, TakeOwn(w, Stolen(v, w))
      PROVE  /\ TaskInOnePlace'
             /\ \E u \in Tasks :
                  /\ worker'[w] = At("run", u) /\ Within(lists, u)
                  /\ \A x \in Workers : x # w => worker'[x] = worker[x]
                  /\ \A t : Within(lists', t) <=> Within(lists, t) /\ t # u
  <2>1. Stolen(v, w) \in [Workers -> Seq(Tasks)] /\ Stolen(v, w)[w] # <<>>
    BY <1>3, StolenEffect
  <2>2. Once(Stolen(v, w)) /\ \A t : Within(Stolen(v, w), t) <=> Within(lists, t)
    BY <1>1, <1>3, StolenKeeps
  <2> QED BY <1>2, <1>3, <2>1, <2>2
<1> QED BY <1>1, <1>2, <1>3

LEMMA TasksNext == TypeOK /\ Fresh /\ Born /\ TaskInOnePlace /\ [Next]_vars => TaskInOnePlace'
<1> SUFFICES ASSUME TypeOK, Fresh, Born, TaskInOnePlace, [Next]_vars PROVE TaskInOnePlace'
  OBVIOUS
<1>0. /\ worker \in [Workers -> WorkerStates] /\ main.i \in Workers
      /\ HandsFull /\ HandsFull'
      /\ \A w \in Workers : worker[w].task # NoTask <=> worker[w].at \in Busy
  BY InOnePlace, HandsNext DEF TypeOK, WorkerStates, Holding, HandsFull
<1>g. ASSUME NEW w \in Workers, NEW p, Goes(w, p), worker[w].at \notin Busy, UNCHANGED <<lists, ticket>>
      PROVE  TaskInOnePlace'
  BY <1>0, <1>g, GoesEffect, CalmKeeps
<1>b. ASSUME NEW ws \in [Workers -> WorkerStates], worker' = Broadcast(ws), UNCHANGED <<lists, ticket>>,
             \A w \in Workers : /\ ws[w].task = worker[w].task
                                /\ ws[w].at = "wait" => ws[w].task = NoTask
      PROVE  TaskInOnePlace'
  <2>1. \A w \in Workers : worker'[w].task = worker[w].task
    BY <1>b, BroadcastEffect
  <2> QED BY <1>0, <1>b, <2>1, CalmKeeps
<1>1. CASE Spawn
  <2>1. worker[main.i].at = "absent"
    BY <1>0, <1>1, NumThreadsAssumption DEF Spawn, Fresh, Workers
  <2> QED BY <1>0, <1>1, <1>g, <2>1 DEF Spawn, Busy
<1>2. CASE Terminate \/ \E c \in Clients : Announce(c)
  BY <1>0, <1>2, <1>b DEF Terminate, Announce, Busy
<1>3. CASE PushThread \/ DeleteThread \/ Join \/ GlobalTerminate \/ UNCHANGED vars
  BY <1>0, <1>3, CalmKeeps DEF PushThread, DeleteThread, Join, GlobalTerminate, vars
<1>4. ASSUME NEW w \in Workers, WorkerStep(w) PROVE TaskInOnePlace'
  <2>1. CASE Start(w)
    <3> DEFINE ws == [worker EXCEPT ![w] = At("gate", NoTask)]
    <3>1. /\ ws \in [Workers -> WorkerStates]
          /\ \A v \in Workers : ws[v] = IF v = w THEN At("gate", NoTask) ELSE worker[v]
      BY <1>0, AtType DEF Places, Holding
    <3>2. \A v \in Workers : /\ ws[v].task = worker[v].task
                             /\ ws[v].at = "wait" => ws[v].task = NoTask
      BY <1>0, <2>1, <3>1, AtType DEF Start, Busy
    <3>3. worker' = Broadcast(ws) /\ UNCHANGED <<lists, ticket>>
      BY <2>1 DEF Start
    <3> HIDE DEF ws
    <3> QED BY <1>b, <3>1, <3>2, <3>3
  <2>2. CASE Mark(w)
    BY <1>0, <2>2, MarkKeeps
  <2>3. CASE Run(w)
    <3>1. \A v \in Workers : worker'[v].task = worker[v].task
      BY <1>0, <2>3 DEF Run, WorkerStates
    <3> QED BY <1>0, <2>3, <3>1, CalmKeeps DEF Run
  <2>4. CASE Carry(w)
    <3>1. PICK u \in Tasks : u = worker[w].task
      BY <1>0, <2>4 DEF Carry, TypeOK, Busy
    <3>2. ~Within(lists, u) /\ Once(lists)
      BY <3>1, InOnePlace DEF OneHome
    <3>3. Once(lists') /\ \A t : Within(lists', t) <=> Within(lists, t) \/ t = u
      BY <2>4, <3>1, <3>2, Appended DEF Carry
    <3>4. /\ worker'[w].task = NoTask /\ ticket' = ticket
          /\ \A v \in Workers : v # w => worker'[v] = worker[v]
      BY <2>4, GoesEffect DEF Carry
    <3> QED BY <1>0, <3>1, <3>3, <3>4, GivenKeeps
  <2>5. CASE /\ worker[w].at \in {"look", "check", "slow", "hungry"} /\ UNCHANGED ticket
             /\ \/ lists[w] # <<>> /\ TakeOwn(w, lists)
                \/ \E v \in Workers : lists[w] = <<>> /\ lists[v] # <<>> /\ TakeOwn(w, Stolen(v, w))
    <3>1. worker[w].task = NoTask
      BY <1>0, <2>5 DEF Busy
    <3> QED BY <1>0, <2>5, <3>1, TakesKeep
  <2>6. ASSUME NEW v \in Workers, worker[w].at = "steal", UNCHANGED ticket, lists[v] # <<>>,
               worker' = [worker EXCEPT ![w] = At("carry", lists[v][Len(lists[v])])],
               lists' = [lists EXCEPT ![v] = SubSeq(@, 1, Len(@) - 1)]
        PROVE  TaskInOnePlace'
    <3>1. PICK u : u = lists[v][Len(lists[v])]
      OBVIOUS
    <3>2. /\ u \in Tasks /\ Within(lists, u) /\ Once(lists')
          /\ \A t : Within(lists', t) <=> Within(lists, t) /\ t # u
      BY <2>6, <3>1, InOnePlace, LastTaken
    <3>3. /\ worker[w].task = NoTask /\ worker'[w].task = u
          /\ \A x \in Workers : x # w => worker'[x] = worker[x]
      BY <1>0, <2>6, <3>1, AtType DEF Busy
    <3> QED BY <1>0, <2>6, <3>2, <3>3, TakenKeeps
  <2>7. CASE /\ worker[w].at \in {"gate", "look", "check", "steal", "slow", "hungry", "sleepy"}
             /\ UNCHANGED <<lists, ticket>> /\ \E p : Goes(w, p)
    BY <1>g, <2>7 DEF Busy
  <2> QED BY <1>4, <2>1, <2>2, <2>3, <2>4, <2>5, <2>6, <2>7, WorkerEffect
<1>5. ASSUME NEW c \in Clients, NEW t \in Tasks, NEW w \in Workers, Enqueue(c, t, w)
      PROVE  TaskInOnePlace'
  BY <1>0, <1>5, EnqueueKeeps
<1> QED BY <1>1, <1>2, <1>3, <1>4, <1>5 DEF Next, MainStep

LEMMA InitPlaces == Init => Fresh /\ Born /\ TaskInOnePlace
<1> SUFFICES ASSUME Init PROVE Fresh /\ Born /\ TaskInOnePlace
  OBVIOUS
<1>1. \A w \in Workers : worker[w].at = "absent" /\ worker[w].task = NoTask /\ Len(lists[w]) = 0
  BY AtType, EmptySeq DEF Init
<1>2. \A t \in Tasks : ticket[t] = "none"
  BY DEF Init
<1> QED BY <1>1, <1>2, TasksAssumption DEF Fresh, Born, TaskInOnePlace, Queued, HeldBy

LEMMA PlacesAlways == Spec => [](TypeOK /\ Fresh /\ Born /\ TaskInOnePlace)
  BY InitPlaces, StealTypeOK, FreshNext, TasksNext, PTL DEF Spec

(* Whoever steals it, a task is in one place from enqueue() to mark(): in  *)
(* one list, once, or with one worker; thieves, which move half a list or  *)
(* carry a task from list to list, neither lose nor multiply tasks.        *)
THEOREM StealTaskInOnePlace == Spec => []TaskInOnePlace
  BY PlacesAlways, PTL

-----------------------------------------------------------------------------
(* No wake-up is lost.  A worker that is about to wait for the pool's      *)
(* mutex holds its local_mutex, so nobody can push to its list until it    *)
(* waits; and thieves only make other lists shorter.                       *)

SleepyEmpty == \A w \in Workers : worker[w].at = "sleepy" => lists[w] = <<>>

LEMMA SleepKept ==
  ASSUME NoLostWakeup, SleepyEmpty, UNCHANGED client,
         \A x \in Workers :
            \/ worker'[x].at \notin {"wait", "sleepy"}
            \/ lists'[x] = <<>>
            \/ worker'[x].at = worker[x].at /\ lists'[x] = lists[x]
  PROVE  NoLostWakeup' /\ SleepyEmpty'
  BY DEF NoLostWakeup, SleepyEmpty

(* A worker's step, seen from the lists of the others.                     *)
LEMMA StepKeepsSleep ==
  ASSUME TypeOK, NoLostWakeup, SleepyEmpty, NEW w \in Workers, WorkerStep(w)
  PROVE  NoLostWakeup' /\ SleepyEmpty'
<1>0. worker \in [Workers -> WorkerStates] /\ lists \in [Workers -> Seq(Tasks)]
  BY DEF TypeOK, WorkerStates, Holding
<1>1. CASE Start(w)
  <2> DEFINE ws == [worker EXCEPT ![w] = At("gate", NoTask)]
  <2>1. /\ ws \in [Workers -> WorkerStates]
        /\ \A v \in Workers : ws[v] = IF v = w THEN At("gate", NoTask) ELSE worker[v]
    BY <1>0, AtType DEF Places, Holding
  <2>2. worker' = Broadcast(ws) /\ UNCHANGED <<lists, client>>
    BY <1>1 DEF Start
  <2> HIDE DEF ws
  <2>3. \A v \in Workers : /\ worker'[v].at # "wait"
                           /\ worker'[v].at = "sleepy" => worker[v].at = "sleepy"
    BY <2>1, <2>2, AtType, BroadcastEffect
  <2> QED BY <2>2, <2>3, SleepKept
<1>2. CASE Carry(w) \/ Mark(w)
  <2>1. /\ worker'[w].at \notin {"wait", "sleepy"} /\ client' = client
        /\ \A x \in Workers : x # w => worker'[x] = worker[x] /\ lists'[x] = lists[x]
    BY <1>0, <1>2, GoesEffect DEF Carry, Mark
  <2> QED BY <2>1, SleepKept
<1>3. CASE Run(w)
  <2>1. /\ worker'[w].at = "mark" /\ client' = client /\ lists' = lists
        /\ \A x \in Workers : x # w => worker'[x] = worker[x]
    BY <1>0, <1>3 DEF Run, WorkerStates
  <2> QED BY <2>1, SleepKept
<1>t. ASSUME NEW ls \in [Workers -> Seq(Tasks)], ls[w] # <<>>, TakeOwn(w, ls), UNCHANGED client,
             \A x \in Workers : x # w => ls[x] = lists[x] \/ lists[x] # <<>>
      PROVE  NoLostWakeup' /\ SleepyEmpty'
  <2>1. /\ worker'[w].at = "run"
        /\ \A x \in Workers : x # w => worker'[x] = worker[x] /\ lists'[x] = ls[x]
    BY <1>t, TakeOwnEffect, AtType
  <2> QED BY <1>t, <2>1 DEF NoLostWakeup, SleepyEmpty
<1>4. CASE UNCHANGED client /\ lists[w] # <<>> /\ TakeOwn(w, lists)
  BY <1>0, <1>4, <1>t
<1>5. ASSUME NEW v \in Workers, UNCHANGED client, lists[w] = <<>>, lists[v] # <<>>,
             TakeOwn(w, Stolen(v, w))
      PROVE  NoLostWakeup' /\ SleepyEmpty'
  <2>1. /\ Stolen(v, w) \in [Workers -> Seq(Tasks)] /\ Stolen(v, w)[w] # <<>>
        /\ \A u \in Workers : u # v /\ u # w => Stolen(v, w)[u] = lists[u]
    BY <1>5, StolenEffect
  <2> QED BY <1>5, <1>t, <2>1
<1>6. ASSUME NEW v \in Workers, UNCHANGED client, lists[v] # <<>>,
             worker' = [worker EXCEPT ![w] = At("carry", lists[v][Len(lists[v])])],
             lists' = [lists EXCEPT ![v] = SubSeq(@, 1, Len(@) - 1)]
      PROVE  NoLostWakeup' /\ SleepyEmpty'
  <2>1. /\ worker'[w].at = "carry"
        /\ \A x \in Workers : x # w => worker'[x] = worker[x]
        /\ \A x \in Workers : x # v => lists'[x] = lists[x]
    BY <1>0, <1>6, AtType
  <2> QED BY <1>6, <2>1 DEF NoLostWakeup, SleepyEmpty
<1>7. ASSUME NEW p, Goes(w, p), UNCHANGED <<lists, client>>,
             p = "sleepy" => lists[w] = <<>>,
             p = "wait" => \/ worker[w].at = "sleepy"
                           \/ worker[w].at = "slow" /\ lists[w] = <<>>
      PROVE  NoLostWakeup' /\ SleepyEmpty'
  <2>1. worker'[w].at = p /\ \A x \in Workers : x # w => worker'[x] = worker[x]
    BY <1>7, GoesEffect
  <2>2. p \in {"sleepy", "wait"} => lists'[w] = <<>>
    BY <1>7 DEF SleepyEmpty
  <2> QED BY <1>7, <2>1, <2>2, SleepKept
<1> QED BY <1>1, <1>2, <1>3, <1>4, <1>5, <1>6, <1>7, WorkerEffect

LEMMA SleepNext ==
  TypeOK /\ NoLostWakeup /\ SleepyEmpty /\ [Next]_vars => NoLostWakeup' /\ SleepyEmpty'
<1> SUFFICES ASSUME TypeOK, NoLostWakeup, SleepyEmpty, [Next]_vars
             PROVE  NoLostWakeup' /\ SleepyEmpty'
  OBVIOUS
<1>0. worker \in [Workers -> WorkerStates] /\ main.i \in Workers
  BY DEF TypeOK, WorkerStates, Holding
<1>1. CASE Spawn
  <2>1. /\ worker'[main.i].at = "born" /\ UNCHANGED <<lists, client>>
        /\ \A x \in Workers : x # main.i => worker'[x] = worker[x]
    BY <1>0, <1>1, GoesEffect DEF Spawn
  <2> QED BY <2>1, SleepKept
<1>2. CASE Terminate \/ \E c \in Clients : Announce(c)
  <2>1. worker' = Broadcast(worker) /\ lists' = lists
    BY <1>2 DEF Terminate, Announce
  <2>2. \A x \in Workers : /\ worker'[x].at # "wait"
                           /\ worker'[x].at = "sleepy" => worker[x].at = "sleepy"
    BY <1>0, <2>1, BroadcastEffect
  <2> QED BY <2>1, <2>2 DEF NoLostWakeup, SleepyEmpty
<1>3. CASE PushThread \/ DeleteThread \/ Join \/ GlobalTerminate \/ UNCHANGED vars
  BY <1>3, SleepKept DEF PushThread, DeleteThread, Join, GlobalTerminate, vars
<1>4. ASSUME NEW c \in Clients, NEW t \in Tasks, NEW w \in Workers, Enqueue(c, t, w)
      PROVE  NoLostWakeup' /\ SleepyEmpty'
  <2>1. /\ client'[c] = "pushed" /\ worker' = worker /\ worker[w].at # "sleepy"
        /\ \A x \in Workers : x # w => lists'[x] = lists[x]
    BY <1>4 DEF Enqueue, LocalFree, TypeOK
  <2> QED BY <2>1 DEF NoLostWakeup, SleepyEmpty
<1> QED BY <1>1, <1>2, <1>3, <1>4, StepKeepsSleep DEF Next, MainStep

(* No worker sleeps on tasks in its own list, unless the client that put   *)
(* them there has its broadcast still to make: with both kinds of lists,   *)
(* a task is not forgotten even if nobody steals it.                       *)
THEOREM StealNoLostWakeup == Spec => []NoLostWakeup
<1>1. Init => NoLostWakeup /\ SleepyEmpty
  BY AtType DEF Init, NoLostWakeup, SleepyEmpty
<1> QED BY <1>1, StealTypeOK, SleepNext, PTL DEF Spec

-----------------------------------------------------------------------------
(* Thieves and the thread objects.  Nobody passes the gate before all of   *)
(* them are there, and the first one is deleted after global_terminate.    *)

Ending == {"delete", "drop", "join", "closed"}

Unlocked == {"check", "steal", "carry", "slow"}  \* places for concurrent lists

Gated == Constructing => \A w \in Workers : worker[w].at \in {"absent", "born", "gate"}

Listed == /\ Constructing => \A v \in Workers : v < main.i => v \in threads
          /\ main.at = "open" => \A v \in Workers : v \in threads
          /\ main.at \in Ending => globalTerminate

Guarded == kind = "deque" => ~trashed /\ \A w \in Workers : worker[w].at \notin Unlocked

LEMMA BroadcastPlaces ==
  ASSUME NEW ws \in [Workers -> WorkerStates], NEW w \in Workers
  PROVE  /\ Broadcast(ws)[w].at \in {"absent", "born", "gate"} <=> ws[w].at \in {"absent", "born", "gate"}
         /\ Broadcast(ws)[w].at \in Unlocked => ws[w].at \in Unlocked
  BY BroadcastEffect DEF Unlocked

LEMMA ListedNext == TypeOK /\ Born /\ Listed /\ [Next]_vars => Listed'
<1> SUFFICES ASSUME TypeOK, Born, Listed, [Next]_vars PROVE Listed'
  OBVIOUS
<1>0. /\ main \in [at : MainPlaces, i : Workers] /\ main.i \in Workers
      /\ NumThreads \in Nat /\ Workers = 1..NumThreads
  BY NumThreadsAssumption DEF TypeOK, Workers
<1>1. CASE Spawn
  <2>1. main.at = "spawn" /\ main'.at = "barrier" /\ main'.i = main.i /\ threads' = threads
    BY <1>0, <1>1 DEF Spawn
  <2> QED BY <2>1 DEF Listed, Constructing, Ending
<1>2. CASE PushThread
  <2>1. /\ main.at = "push" /\ threads' = threads \cup {main.i}
        /\ \/ main.i = NumThreads /\ main'.at = "open"
           \/ main'.at = "spawn" /\ main'.i = main.i + 1
    BY <1>0, <1>2 DEF PushThread
  <2>2. \A v \in Workers : v < main.i + 1 => v \in threads'
    BY <1>0, <2>1 DEF Listed, Constructing
  <2> QED BY <1>0, <2>1, <2>2 DEF Listed, Constructing, Ending
<1>3. CASE DeleteThread \/ Terminate \/ Join
  <2>1. main'.at \in Ending /\ main.at \in Ending /\ globalTerminate' = globalTerminate
    BY <1>0, <1>3 DEF DeleteThread, Terminate, Join, Ending
  <2> QED BY <2>1 DEF Listed, Constructing, Ending
<1>4. CASE GlobalTerminate
  <2>1. main'.at = "delete" /\ globalTerminate'
    BY <1>4 DEF GlobalTerminate
  <2> QED BY <2>1 DEF Listed, Constructing
<1>5. ASSUME UNCHANGED <<main, threads, globalTerminate>> PROVE Listed'
  BY <1>5 DEF Listed, Constructing
<1>6. ASSUME NEW w \in Workers, WorkerStep(w) PROVE Listed'
  <2>1. CASE Start(w)
    <3>1. /\ UNCHANGED <<threads, globalTerminate>> /\ main.at = "barrier"
          /\ main'.at = "push" /\ main'.i = main.i
      BY <1>0, <2>1 DEF Start, Born
    <3> QED BY <3>1 DEF Listed, Constructing, Ending
  <2>2. CASE ~Start(w)
    <3>1. UNCHANGED <<main, threads, globalTerminate>>
      BY <1>6, <2>2, WorkerEffect DEF Carry, Run, Mark
    <3> QED BY <1>5, <3>1
  <2> QED BY <2>1, <2>2
<1>7. CASE \/ UNCHANGED vars
           \/ \E c \in Clients : Announce(c) \/ \E t \in Tasks, w \in Workers : Enqueue(c, t, w)
  BY <1>5, <1>7 DEF vars, Announce, Enqueue
<1> QED BY <1>1, <1>2, <1>3, <1>4, <1>6, <1>7 DEF Next, MainStep

LEMMA GatedNext == TypeOK /\ Born /\ Gated /\ [Next]_vars => Gated'
<1> SUFFICES ASSUME TypeOK, Born, Gated, [Next]_vars PROVE Gated'
  OBVIOUS
<1> DEFINE Before == {"absent", "born", "gate"}
<1>0. /\ main \in [at : MainPlaces, i : Workers] /\ main.i \in Workers
      /\ worker \in [Workers -> WorkerStates]
  BY DEF TypeOK, WorkerStates, Holding
<1>1. CASE Spawn
  <2>1. /\ worker'[main.i].at = "born" /\ Constructing
        /\ \A x \in Workers : x # main.i => worker'[x] = worker[x]
    BY <1>0, <1>1, GoesEffect DEF Spawn, Constructing
  <2> QED BY <2>1 DEF Gated
<1>2. CASE PushThread
  BY <1>2 DEF PushThread, Gated, Constructing
<1>3. CASE DeleteThread \/ Terminate \/ Join \/ GlobalTerminate
  BY <1>0, <1>3 DEF DeleteThread, Terminate, Join, GlobalTerminate, Gated, Constructing
<1>4. CASE \/ UNCHANGED vars
           \/ \E c \in Clients : \E t \in Tasks, w \in Workers : Enqueue(c, t, w)
  BY <1>4 DEF vars, Enqueue, Gated, Constructing
<1>5. ASSUME NEW c \in Clients, Announce(c) PROVE Gated'
  BY <1>0, <1>5, BroadcastPlaces DEF Announce, Gated, Constructing
<1>6. ASSUME NEW w \in Workers, WorkerStep(w) PROVE Gated'
  <2>1. CASE Start(w)
    <3> DEFINE ws == [worker EXCEPT ![w] = At("gate", NoTask)]
    <3>1. /\ ws \in [Workers -> WorkerStates]
          /\ \A v \in Workers : ws[v] = IF v = w THEN At("gate", NoTask) ELSE worker[v]
      BY <1>0, AtType DEF Places, Holding
    <3>2. worker' = Broadcast(ws) /\ Constructing
      BY <2>1 DEF Start, Born, Constructing
    <3> HIDE DEF ws
    <3>3. \A v \in Workers : ws[v].at \in Before
      BY <3>1, <3>2, AtType DEF Gated
    <3> QED BY <3>1, <3>2, <3>3, BroadcastPlaces DEF Gated
  <2>2. CASE ~Start(w)
    <3>1. main' = main /\ (worker[w].at \notin Before \/ Pass(w))
      BY <1>6, <2>2, WorkerEffect
         DEF Carry, Run, Mark, WorkerStep, Look, Hunt, FallAsleep, Check, SlowLook, Steal
    <3>2. ~Constructing
      BY <3>1 DEF Gated, Pass
    <3> QED BY <3>1, <3>2 DEF Gated, Constructing
  <2> QED BY <2>1, <2>2
<1> QED BY <1>1, <1>2, <1>3, <1>4, <1>5, <1>6 DEF Next, MainStep

LEMMA GuardedNext == TypeOK /\ Gated /\ Listed /\ Guarded /\ [Next]_vars => Guarded'
<1> SUFFICES ASSUME TypeOK, Gated, Listed, Guarded, [Next]_vars, kind = "deque"
             PROVE  ~trashed' /\ \A w \in Workers : worker'[w].at \notin Unlocked
  <2>1. ASSUME TypeOK, [Next]_vars PROVE kind' = kind
    BY <2>1 DEF Next, MainStep, WorkerStep, vars, Spawn, PushThread, DeleteThread, Terminate, Join,
         GlobalTerminate, Announce, Enqueue, Start, Pass, Look, Run, Mark, Hunt, FallAsleep,
         Check, Carry, SlowLook, Steal
  <2> QED BY <2>1 DEF Guarded
<1>0. /\ main.i \in Workers /\ main.at \in MainPlaces
      /\ worker \in [Workers -> WorkerStates] /\ lists \in [Workers -> Seq(Tasks)]
      /\ ~trashed /\ \A w \in Workers : worker[w].at \notin Unlocked
  BY DEF TypeOK, WorkerStates, Holding, Guarded
<1>g. ASSUME NEW w \in Workers, NEW p, Goes(w, p), p \notin Unlocked
      PROVE  \A x \in Workers : worker'[x].at \notin Unlocked
  BY <1>0, <1>g, GoesEffect
<1>t. ASSUME NEW w \in Workers, NEW ls \in [Workers -> Seq(Tasks)], ls[w] # <<>>, TakeOwn(w, ls)
      PROVE  \A x \in Workers : worker'[x].at \notin Unlocked
  <2>1. worker'[w].at = "run" /\ \A x \in Workers : x # w => worker'[x] = worker[x]
    BY <1>t, TakeOwnEffect, AtType
  <2> QED BY <1>0, <2>1 DEF Unlocked
<1>b. ASSUME NEW ws \in [Workers -> WorkerStates], worker' = Broadcast(ws),
             \A w \in Workers : ws[w].at \notin Unlocked
      PROVE  \A x \in Workers : worker'[x].at \notin Unlocked
  BY <1>b, BroadcastPlaces
<1>1. CASE Spawn
  BY <1>0, <1>1, <1>g DEF Spawn, Unlocked
<1>2. CASE Terminate \/ \E c \in Clients : Announce(c)
  BY <1>0, <1>2, <1>b DEF Terminate, Announce
<1>3. CASE \/ PushThread \/ DeleteThread \/ Join \/ GlobalTerminate \/ UNCHANGED vars
           \/ \E c \in Clients : \E t \in Tasks, w \in Workers : Enqueue(c, t, w)
  BY <1>0, <1>3 DEF PushThread, DeleteThread, Join, GlobalTerminate, vars, Enqueue
<1>4. ASSUME NEW w \in Workers, WorkerStep(w)
      PROVE  ~trashed' /\ \A x \in Workers : worker'[x].at \notin Unlocked
  <2>1. CASE Start(w)
    <3> DEFINE ws == [worker EXCEPT ![w] = At("gate", NoTask)]
    <3>1. /\ ws \in [Workers -> WorkerStates]
          /\ \A v \in Workers : ws[v] = IF v = w THEN At("gate", NoTask) ELSE worker[v]
      BY <1>0, AtType DEF Places, Holding
    <3>2. worker' = Broadcast(ws) /\ trashed' = trashed
      BY <2>1 DEF Start
    <3> HIDE DEF ws
    <3>3. ws[w].at = "gate" /\ \A v \in Workers : v # w => ws[v] = worker[v]
      BY <3>1, AtType
    <3>4. \A v \in Workers : ws[v].at \notin Unlocked
      BY <1>0, <3>3 DEF Unlocked
    <3> QED BY <1>0, <1>b, <3>1, <3>2, <3>4
  <2>2. CASE Pass(w) \/ FallAsleep(w) \/ Mark(w)
    <3>1. trashed' = trashed /\ \E p \in {"look", "wait"} : Goes(w, p)
      BY <2>2 DEF Pass, FallAsleep, Mark
    <3> QED BY <1>0, <1>g, <3>1 DEF Unlocked
  <2>3. CASE Look(w)
    BY <1>0, <1>g, <1>t, <2>3 DEF Look, Unlocked
  <2>4. CASE Run(w)
    <3>1. /\ worker'[w].at = "mark" /\ trashed' = trashed
          /\ \A x \in Workers : x # w => worker'[x] = worker[x]
      BY <1>0, <2>4 DEF Run, WorkerStates
    <3> QED BY <1>0, <3>1 DEF Unlocked
  <2>5. CASE Hunt(w)
    <3>1. CASE lists[w] # <<>>
      BY <1>0, <1>t, <2>5, <3>1 DEF Hunt
    <3>2. CASE lists[w] = <<>> /\ globalTerminate
      <4>1. trashed' = trashed /\ \E p \in {"gone", "look"} : Goes(w, p)
        BY <2>5, <3>2 DEF Hunt
      <4> QED BY <1>0, <1>g, <4>1 DEF Unlocked
    <3>3. CASE lists[w] = <<>> /\ ~globalTerminate
      <4>1. PICK v \in Workers :
              /\ trashed' = (trashed \/ v \notin threads)
              /\ IF lists[v] # <<>> THEN TakeOwn(w, Stolen(v, w))
                 ELSE Goes(w, IF terminate[w] THEN "gone" ELSE "sleepy") /\ UNCHANGED lists
        BY <2>5, <3>3 DEF Hunt
      <4>2. main.at = "open"
        BY <1>0, <2>5, <3>3 DEF Hunt, Gated, Listed, Constructing, Ending, MainPlaces
      <4>3. ~trashed'
        BY <1>0, <4>1, <4>2 DEF Listed
      <4>4. CASE lists[v] # <<>>
        <5>1. Stolen(v, w) \in [Workers -> Seq(Tasks)] /\ Stolen(v, w)[w] # <<>>
          BY <3>3, <4>4, StolenEffect
        <5> QED BY <1>t, <4>1, <4>3, <4>4, <5>1
      <4>5. CASE lists[v] = <<>>
        BY <1>g, <4>1, <4>3, <4>5 DEF Unlocked
      <4> QED BY <4>4, <4>5
    <3> QED BY <3>1, <3>2, <3>3
  <2>6. ~(Check(w) \/ Carry(w) \/ SlowLook(w) \/ \E v \in Workers : Steal(w, v))
    BY <1>0 DEF Check, Carry, SlowLook, Steal, Unlocked
  <2> QED BY <1>4, <2>1, <2>2, <2>3, <2>4, <2>5, <2>6 DEF WorkerStep
<1> QED BY <1>1, <1>2, <1>3, <1>4 DEF Next, MainStep

(* With std::deque no thief uses an entry of _thread_fn that is not there  *)
(* yet or whose thread has been deleted: steal_mutex keeps thieves at the  *)
(* gate until all threads are there, and global_terminate, set under it    *)
(* before the first one is deleted, keeps them away afterwards.            *)
THEOREM StealNoTrashedSteal == Spec => []NoTrashedSteal
<1>1. Init => Gated /\ Listed /\ Guarded
  <2> SUFFICES ASSUME Init PROVE Gated /\ Listed /\ Guarded
    OBVIOUS
  <2>1. /\ main.at = "spawn" /\ main.i = 1 /\ ~trashed
        /\ \A w \in Workers : worker[w].at = "absent"
    BY AtType DEF Init
  <2>2. \A v \in Workers : ~(v < main.i)
    BY <2>1 DEF Workers
  <2> QED BY <2>1, <2>2 DEF Gated, Listed, Guarded, Unlocked, Ending
<1>2. Guarded => NoTrashedSteal
  BY DEF Guarded, NoTrashedSteal
<1> QED BY <1>1, <1>2, PlacesAlways, GatedNext, ListedNext, GuardedNext, PTL DEF Spec

-----------------------------------------------------------------------------
(* The pool implements Executor.  To its clients a task in a list and one  *)
(* that a thief carries are the same, so stealing is invisible.            *)

StatusMap == [t \in Tasks |-> Status(t)]

With(p, t) == \E w \in Workers : worker[w] = At(p, t)

StatusCases ==
    \A t \in Tasks :
      /\ ticket[t] = "none" => Status(t) = "new"
      /\ ticket[t] = "done" => Status(t) = "done"
      /\ With("run", t) => ticket[t] = "open" /\ Status(t) = "running"
      /\ With("mark", t) => ticket[t] = "open" /\ Status(t) = "executed"
      /\ ticket[t] = "open" /\ ~With("run", t) /\ ~With("mark", t) => Status(t) = "queued"

(* No two of the cases of Status meet. *)
LEMMA StatusValue == TypeOK /\ TaskInOnePlace => StatusCases
<1> SUFFICES ASSUME TypeOK, TaskInOnePlace, NEW t \in Tasks
             PROVE  /\ ticket[t] = "none" => Status(t) = "new"
                    /\ ticket[t] = "done" => Status(t) = "done"
                    /\ With("run", t) => ticket[t] = "open" /\ Status(t) = "running"
                    /\ With("mark", t) => ticket[t] = "open" /\ Status(t) = "executed"
                    /\ ticket[t] = "open" /\ ~With("run", t) /\ ~With("mark", t)
                         => Status(t) = "queued"
  BY DEF StatusCases
<1>1. ticket[t] \in {"none", "open", "done"}
  BY DEF TypeOK
<1>2. \A w \in Workers : worker[w] = At("run", t) \/ worker[w] = At("mark", t) => HeldBy(w, t)
  BY AtType DEF HeldBy
<1>3. \A v, w \in Workers : worker[v] = At("run", t) /\ worker[w] = At("mark", t) => v # w
  BY AtType
<1>4. /\ With("run", t) \/ With("mark", t) => ticket[t] = "open"
      /\ ~(With("run", t) /\ With("mark", t))
  BY <1>2, <1>3 DEF TaskInOnePlace, With
<1>5. Status(t) = CASE ticket[t] = "none" -> "new"
                    [] ticket[t] = "done" -> "done"
                    [] ticket[t] = "open" /\ With("run", t) -> "running"
                    [] ticket[t] = "open" /\ With("mark", t) -> "executed"
                    [] OTHER -> "queued"
  BY DEF Status, With
<1> QED BY <1>1, <1>4, <1>5

LEMMA StatusValueNext == TypeOK' /\ TaskInOnePlace' => StatusCases'
  BY StatusValue, PTL

(* A step that leaves a task where it is leaves its status. *)
LEMMA StatusKept ==
  ASSUME NEW t \in Tasks, ticket'[t] = ticket[t],
         \A w \in Workers : \/ worker'[w] = worker[w]
                            \/ /\ worker[w].at \in {"run", "mark"} => worker[w].task # t
                               /\ worker'[w].at \in {"run", "mark"} => worker'[w].task # t
  PROVE  Status(t)' = Status(t)
<1>1. With("run", t)' <=> With("run", t)
  BY AtType DEF With
<1>2. With("mark", t)' <=> With("mark", t)
  BY AtType DEF With
<1> QED BY <1>1, <1>2 DEF Status, With

Simulated == \/ \E t \in Tasks : \/ Exec!Enqueue(t) \/ Exec!Take(t) \/ Exec!Finish(t)
                                  \/ Exec!Throw(t)   \/ Exec!Mark(t) \/ Exec!Return(t)
             \/ StatusMap' = StatusMap

LEMMA Moves ==
  ASSUME NEW u \in Tasks, NEW from, NEW to, Status(u) = from, Status(u)' = to,
         \A t \in Tasks : t # u => Status(t)' = Status(t)
  PROVE  Exec!Move(u, from, to)
<1>1. StatusMap[u] = from /\ StatusMap' = [StatusMap EXCEPT ![u] = to]
  BY DEF StatusMap
<1> QED BY <1>1 DEF Exec!Move, StatusMap

(* Steps that start, end or mark no task. *)
LEMMA PlainStep ==
  ASSUME UNCHANGED ticket,
         \A w \in Workers : \/ worker'[w] = worker[w]
                            \/ worker[w].at \notin {"run", "mark"} /\ worker'[w].at \notin {"run", "mark"}
  PROVE  Simulated
<1>1. \A t \in Tasks : Status(t)' = Status(t)
  BY StatusKept
<1> QED BY <1>1 DEF Simulated, StatusMap

LEMMA SimulateEnqueue ==
  ASSUME TypeOK, TaskInOnePlace, StatusCases, StatusCases',
         NEW c \in Clients, NEW u \in Tasks, NEW w \in Workers, Enqueue(c, u, w)
  PROVE  Simulated
<1>1. ticket[u] = "none" /\ worker' = worker
  BY DEF Enqueue
<1>2. \A t \in Tasks : ticket'[t] = IF t = u THEN "open" ELSE ticket[t]
  BY DEF Enqueue, TypeOK
<1>3. \A t \in Tasks : t # u => Status(t)' = Status(t)
  BY <1>1, <1>2, StatusKept
<1>4. Status(u) = "new" /\ ~With("run", u) /\ ~With("mark", u)
  BY <1>1 DEF StatusCases
<1>5. Status(u)' = "queued"
  BY <1>1, <1>2, <1>4 DEF StatusCases, With
<1>6. Exec!Move(u, "new", "queued")
  BY <1>3, <1>4, <1>5, Moves
<1> QED BY <1>6 DEF Exec!Enqueue, Simulated

LEMMA SimulateTake ==
  ASSUME TypeOK, TaskInOnePlace, StatusCases, StatusCases', NEW w \in Workers, NEW u \in Tasks,
         worker[w].at \notin {"run", "mark"}, UNCHANGED ticket,
         worker'[w] = At("run", u), Within(lists, u),
         \A v \in Workers : v # w => worker'[v] = worker[v]
  PROVE  Simulated
<1>1. \A v \in Workers : worker[v].task # u
  BY QueuedWithin DEF TaskInOnePlace, HeldBy
<1>2. ticket[u] = "open" /\ ~With("run", u) /\ ~With("mark", u)
  BY <1>1, QueuedWithin, AtType DEF TaskInOnePlace, With
<1>3. \A t \in Tasks : t # u => Status(t)' = Status(t)
  BY StatusKept, AtType
<1>4. Status(u) = "queued" /\ Status(u)' = "running"
  BY <1>2 DEF StatusCases, With
<1>5. Exec!Move(u, "queued", "running")
  BY <1>3, <1>4, Moves
<1> QED BY <1>5 DEF Exec!Take, Simulated

(* The end of a functor, and mark(): the worker's own task moves on. *)
LEMMA SimulateOwn ==
  ASSUME TypeOK, TaskInOnePlace, StatusCases, StatusCases', NEW w \in Workers, Run(w) \/ Mark(w)
  PROVE  Simulated
<1>0. worker \in [Workers -> WorkerStates]
  BY DEF TypeOK, WorkerStates, Holding
<1>u. PICK u \in Tasks : u = worker[w].task
  BY <1>0 DEF Run, Mark, TaskInOnePlace, WorkerStates, Holding
<1>1. CASE Run(w)
  <2>1. /\ worker[w] = At("run", u) /\ worker'[w] = At("mark", u) /\ ticket' = ticket
        /\ \A v \in Workers : v # w => worker'[v] = worker[v]
    BY <1>0, <1>1, <1>u DEF Run, WorkerStates, At
  <2>2. Status(u) = "running" /\ Status(u)' = "executed"
    BY <2>1 DEF StatusCases, With
  <2>3. \A t \in Tasks : t # u => Status(t)' = Status(t)
    BY <2>1, StatusKept, AtType
  <2>4. Exec!Move(u, "running", "executed")
    BY <2>2, <2>3, Moves
  <2> QED BY <2>4 DEF Exec!Finish, Simulated
<1>2. CASE Mark(w)
  <2>1. /\ worker[w] = At("mark", u) /\ worker'[w] = At("look", NoTask)
        /\ \A v \in Workers : v # w => worker'[v] = worker[v]
        /\ \A t \in Tasks : ticket'[t] = IF t = u THEN "done" ELSE ticket[t]
    BY <1>0, <1>2, <1>u DEF Mark, Goes, WorkerStates, At, TypeOK
  <2>2. Status(u) = "executed" /\ Status(u)' = "done"
    BY <2>1 DEF StatusCases, With
  <2>3. \A t \in Tasks : t # u => Status(t)' = Status(t)
    BY <2>1, StatusKept, AtType
  <2>4. Exec!Move(u, "executed", "done")
    BY <2>2, <2>3, Moves
  <2> QED BY <2>4 DEF Exec!Mark, Simulated
<1> QED BY <1>1, <1>2

LEMMA Simulation ==
  /\ TypeOK /\ TypeOK' /\ TaskInOnePlace /\ TaskInOnePlace' /\ Fresh /\ [Next]_vars
  => [Exec!Next]_Exec!vars
<1> SUFFICES ASSUME TypeOK, TypeOK', TaskInOnePlace, TaskInOnePlace', Fresh, [Next]_vars
             PROVE  Simulated
  BY DEF Simulated, Exec!Next, Exec!vars, StatusMap
<1>0. /\ worker \in [Workers -> WorkerStates] /\ main.i \in Workers
      /\ StatusCases /\ StatusCases'
      /\ HandsFull' /\ \A w \in Workers : worker[w].task # NoTask <=> worker[w].at \in Busy
  BY StatusValue, StatusValueNext, InOnePlace, InOnePlaceNext
     DEF TypeOK, WorkerStates, Holding, HandsFull
<1>g. ASSUME NEW w \in Workers, NEW p, Goes(w, p), p \notin {"run", "mark"},
             worker[w].at \notin {"run", "mark"}, UNCHANGED ticket
      PROVE  Simulated
  BY <1>g, GoesEffect, PlainStep
<1>b. ASSUME NEW ws \in [Workers -> WorkerStates], worker' = Broadcast(ws), UNCHANGED ticket,
             \A w \in Workers : \/ ws[w] = worker[w]
                                \/ /\ ws[w].at \notin {"run", "mark"}
                                   /\ worker[w].at \notin {"run", "mark"}
      PROVE  Simulated
  <2>1. \A w \in Workers : \/ worker'[w] = worker[w]
                           \/ /\ worker[w].at \notin {"run", "mark"}
                              /\ worker'[w].at \notin {"run", "mark"}
    <3> SUFFICES ASSUME NEW w \in Workers, worker'[w] # worker[w]
                 PROVE  /\ worker[w].at \notin {"run", "mark"}
                        /\ worker'[w].at \notin {"run", "mark"}
      OBVIOUS
    <3> QED BY <1>b, BroadcastEffect
  <2> QED BY <1>b, <2>1, PlainStep
<1>1. CASE Spawn
  <2>1. worker[main.i].at = "absent"
    BY <1>0, <1>1, NumThreadsAssumption DEF Spawn, Fresh, Workers
  <2> QED BY <1>0, <1>1, <1>g, <2>1 DEF Spawn
<1>2. CASE Terminate \/ \E c \in Clients : Announce(c)
  BY <1>0, <1>2, <1>b DEF Terminate, Announce
<1>3. CASE PushThread \/ DeleteThread \/ Join \/ GlobalTerminate \/ UNCHANGED vars
  BY <1>3, PlainStep DEF PushThread, DeleteThread, Join, GlobalTerminate, vars
<1>4. ASSUME NEW w \in Workers, WorkerStep(w) PROVE Simulated
  <2>1. CASE Start(w)
    <3> DEFINE ws == [worker EXCEPT ![w] = At("gate", NoTask)]
    <3>1. /\ ws \in [Workers -> WorkerStates] /\ ws[w].at = "gate" /\ worker[w].at = "born"
          /\ \A v \in Workers : v # w => ws[v] = worker[v]
      BY <1>0, <2>1, AtType DEF Start, Places, Holding
    <3>2. worker' = Broadcast(ws) /\ ticket' = ticket
      BY <2>1 DEF Start
    <3> HIDE DEF ws
    <3> QED BY <1>b, <3>1, <3>2
  <2>2. CASE Carry(w)
    BY <1>g, <2>2 DEF Carry
  <2>3. CASE /\ worker[w].at \in {"look", "check", "slow", "hungry"} /\ UNCHANGED ticket
             /\ \/ lists[w] # <<>> /\ TakeOwn(w, lists)
                \/ \E v \in Workers : lists[w] = <<>> /\ lists[v] # <<>> /\ TakeOwn(w, Stolen(v, w))
    <3>1. worker[w].task = NoTask
      BY <1>0, <2>3 DEF Busy
    <3>2. PICK u \in Tasks :
            /\ worker'[w] = At("run", u) /\ Within(lists, u)
            /\ \A v \in Workers : v # w => worker'[v] = worker[v]
      BY <1>0, <2>3, <3>1, TakesKeep
    <3> QED BY <1>0, <2>3, <3>2, SimulateTake
  <2>4. ASSUME NEW x, worker' = [worker EXCEPT ![w] = At("carry", x)], UNCHANGED ticket,
               worker[w].at = "steal"
        PROVE  Simulated
    <3>1. worker'[w].at = "carry" /\ \A v \in Workers : v # w => worker'[v] = worker[v]
      BY <1>0, <2>4, AtType
    <3> QED BY <2>4, <3>1, PlainStep
  <2>5. CASE /\ worker[w].at \in {"gate", "look", "check", "steal", "slow", "hungry", "sleepy"}
             /\ UNCHANGED ticket
             /\ \E p \in {"look", "check", "steal", "slow", "hungry", "sleepy", "wait", "gone"} : Goes(w, p)
    BY <1>g, <2>5
  <2> QED BY <1>0, <1>4, <2>1, <2>2, <2>3, <2>4, <2>5, WorkerEffect, SimulateOwn
<1>5. ASSUME NEW c \in Clients, NEW t \in Tasks, NEW w \in Workers, Enqueue(c, t, w)
      PROVE  Simulated
  BY <1>0, <1>5, SimulateEnqueue
<1> QED BY <1>1, <1>2, <1>3, <1>4, <1>5 DEF Next, MainStep

(* Clients may rely on the pool as on Executor, however many workers steal *)
(* and whatever they steal from: every task is taken once, its functor     *)
(* ends once, and only then is its ticket marked.                          *)
THEOREM StealImplementsExecutor == Spec => ImplementsExecutor
<1>1. Init => Exec!Init
  <2> SUFFICES ASSUME Init PROVE Exec!Init
    OBVIOUS
  <2>1. \A t \in Tasks : ticket[t] = "none"
    BY DEF Init
  <2>2. \A t \in Tasks : Status(t) = "new"
    BY <2>1 DEF Status
  <2> QED BY <2>2 DEF Exec!Init
<1> QED BY <1>1, PlacesAlways, Simulation, PTL DEF Spec, ImplementsExecutor, Exec!Spec
=============================================================================
