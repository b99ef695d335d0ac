--------------------------- MODULE TaskListsProofs --------------------------
(***************************************************************************)
(* Proofs about TaskLists: a ConcurrentDeque, with any number of threads,  *)
(* elements and calls in any use, is well linked when nobody has an end,   *)
(* each element has one owner, and the list is linearizable: it implements *)
(* Deque.                                                                  *)
(***************************************************************************)
EXTENDS TaskLists, FiniteSetTheorems, SequenceTheorems, WellFoundedInduction, TLAPS

(* All lists are lists with mutexes.                                       *)
Mutexes == \A u \in Uses : u.list = "mutex"

-----------------------------------------------------------------------------
(* The inductive invariant.  Its first three parts say where a thread is   *)
(* in its call, which mutexes it has there, and that one thread at a time  *)
(* looks at the elements or changes them: who has given back one mutex     *)
(* still keeps the others from coming past the second.                     *)

Works(p) == thread[p].at \in {"look", "write", "write2", "write3"}

PlacesOf(o) == {"called", "back", "look", "write", "unlock", "done"}
             \cup (IF o = "pop_front" THEN {} ELSE {"write2"})
             \cup (IF o = "push_back" THEN {"write3"} ELSE {})

ThreadsInPlace ==
    \A p \in Threads :
      /\ thread[p].case = "none"
      /\ thread[p].op = "none" => thread[p] = Idle
      /\ thread[p].op # "none" => thread[p].at \in PlacesOf(thread[p].op)

LocksInPlace ==
    \A p \in Threads :
      LET at == thread[p].at
          front == thread[p].op = "pop_front"
      IN  /\ at \in {"back", "look"} \/ (at = "write" /\ front) => lock["head"] = p
          /\ at = "look" \/ (at \in {"write", "write2", "write3"} /\ ~front) => lock["tail"] = p
          /\ at = "unlock" => lock["head"] = p \/ lock["tail"] = p

OneWorks == \A p, q \in Threads : Works(p) /\ Works(q) => p = q

Control == TypeOK /\ use.list = "mutex" /\ ThreadsInPlace /\ LocksInPlace /\ OneWorks

(* The others are about the sequence s of the elements in the list.  It is *)
(* linked both ways.                                                       *)
Linked(s) ==
    /\ s \in Seq(Nodes)
    /\ \A i, j \in 1..Len(s) : s[i] = s[j] => i = j
    /\ head.elem = IF Len(s) = 0 THEN Null ELSE s[1]
    /\ tail.elem = IF Len(s) = 0 THEN Null ELSE s[Len(s)]
    /\ \A i \in 1..(Len(s) - 1) : node[s[i]].next = s[i + 1] /\ node[s[i + 1]].prev = s[i]

(* Only the thread that is about to add an element behind the last, or has *)
(* just taken one from there, leaves a successor there.                    *)
LeavesEnd(p) == \/ thread[p].op = "push_back" /\ thread[p].at = "write3"
                \/ thread[p].op = "pop_back" /\ thread[p].at = "write2"

EndIsLast(s) == Len(s) > 0 /\ (\A p \in Threads : ~LeavesEnd(p)) => node[s[Len(s)]].next = Null

(* Who has given back one mutex has found enough elements.                 *)
LongEnough(s) ==
    \A p \in Threads :
      /\ thread[p].at = "write" => Len(s) >= 2
      /\ thread[p].at \in {"write2", "write3"} => Len(s) >= 1

Brings(p) == IF thread[p].op = "push_back" /\ Done(p) THEN {} ELSE {thread[p].node} \ {Null}

(* Each allocated element is in the list or with one thread.               *)
Owned(s) ==
    /\ \A i \in 1..Len(s) : s[i] \in heap
    /\ \A x \in heap : (\E i \in 1..Len(s) : x = s[i]) \/ \E p \in Threads : x \in Brings(p)
    /\ \A p \in Threads : /\ Brings(p) \subseteq heap
                          /\ \A i \in 1..Len(s) : s[i] \notin Brings(p)
    /\ \A p, q \in Threads : p # q => Brings(p) \cap Brings(q) = {}

(* The element that a push brings.                                         *)
NewElements ==
    \A p \in Threads :
      LET e == thread[p].node
      IN  thread[p].op = "push_back" /\ ~Done(p) =>
            /\ e \in Nodes /\ node[e].next = Null
            /\ node[e].data = thread[p].task /\ thread[p].task \in Tasks
            /\ thread[p].at \in {"write2", "write3"} => node[e].prev = tail.elem
            /\ thread[p].at = "write3" => node[tail.elem].next = e

(* A pop has nothing until it takes an element.                            *)
EmptyHands ==
    \A p \in Threads : thread[p].op # "push_back" /\ ~Done(p) =>
                         thread[p].node = Null /\ thread[p].task = NoTask

ListInv(s) == /\ Linked(s) /\ EndIsLast(s) /\ LongEnough(s) /\ Owned(s)
              /\ NewElements /\ EmptyHands

IInv == Control /\ ListInv(Chain)

-----------------------------------------------------------------------------
(* Numbers, and the lowest of a set of them. *)

(* A set of numbers has a smallest one: n is below m when 0..n is a proper *)
(* subset of 0..m, a well-founded order.                                   *)
LEMMA Smallest ==
  ASSUME NEW T \in SUBSET Nat, T # {}
  PROVE  \E m \in T : \A n \in T : m <= n
<1> DEFINE U == {0..n : n \in T}
           R == StrictSubsetOrdering(Nat)
<1>1. U \subseteq FiniteSubsetsOf(Nat) /\ U # {}
  <2>1. \A n \in T : 0..n \in SUBSET Nat /\ IsFiniteSet(0..n)
    BY FS_Interval
  <2> QED BY <2>1 DEF FiniteSubsetsOf
<1>2. IsWellFoundedOn(R, FiniteSubsetsOf(Nat))
  BY FS_StrictSubsetOrderingWellFounded
<1>3. \E x \in U : \A y \in U : ~(<<y, x>> \in R)
  <2> HIDE DEF U, R
  <2> QED BY <1>1, <1>2, WFMin
<1>4. PICK m \in T : \A n \in T : <<0..n, 0..m>> \notin R
  BY <1>3
<1>5. ASSUME NEW n \in T, n < m PROVE FALSE
  <2>1. 0..n \in SUBSET Nat /\ 0..m \in SUBSET Nat /\ 0..n \subseteq 0..m /\ m \in 0..m /\ m \notin 0..n
    BY <1>5
  <2>2. <<0..n, 0..m>> \in R
    BY <2>1 DEF StrictSubsetOrdering
  <2> QED BY <1>4, <2>2
<1> QED BY <1>5

LEMMA LowestFacts ==
  ASSUME NEW S \in SUBSET Nat, S # {}
  PROVE  Lowest(S) \in S
  BY Smallest DEF Lowest

LEMMA Naturals == Nodes \subseteq Nat \ {0} /\ Tasks \subseteq Nat \ {0} /\ Null = 0 /\ NoTask = 0
  BY DEF Nodes, Tasks, Null, NoTask

-----------------------------------------------------------------------------
(* Threads: what a step does to the record of the thread that takes it.    *)

ThreadStates == [op : Operations \cup {"none"}, at : Places, case : Cases \cup {"none"},
                 task : Tasks \cup {NoTask}, node : Pointer, reg : Pointer]

Cells == [prev : Pointer, next : Pointer, data : Tasks \cup {NoTask}]

LEMMA StateSets ==
  TypeOK => /\ thread \in [Threads -> ThreadStates]
            /\ node \in [Nodes -> Cells]
            /\ lock \in [{"head", "tail"} -> Threads \cup {Nobody}]
            /\ heap \subseteq Nodes
            /\ head \in [elem : Pointer, next : Pointer]
            /\ tail \in [elem : Pointer, prev : Pointer]
            /\ use \in Uses /\ calls \in 0..MaxCalls
  BY DEF TypeOK, ThreadStates, Cells

LEMMA IdleType == Idle \in ThreadStates
<1>1. Null \in Pointer /\ NoTask \in Tasks \cup {NoTask} /\ "none" \in Operations \cup {"none"}
  BY DEF Pointer
<1>2. "out" \in Places /\ "none" \in Cases \cup {"none"}
  BY DEF Places
<1> QED BY ONLY <1>1, <1>2 DEF Idle, ThreadStates

OthersStay(p) == \A q \in Threads : q # p => thread'[q] = thread[q]

(* p goes on to at, and perhaps takes an element.                          *)
Moves(p, at) ==
    /\ OthersStay(p)
    /\ thread'[p].op = thread[p].op /\ thread'[p].case = thread[p].case
    /\ thread'[p].at = at
    /\ thread' \in [Threads -> ThreadStates]

Keeps(p) == thread'[p].node = thread[p].node /\ thread'[p].task = thread[p].task

LEMMA GoesFacts ==
  ASSUME thread \in [Threads -> ThreadStates], NEW p \in Threads, NEW at \in Places,
         thread' = [thread EXCEPT ![p].at = at]
  PROVE  Moves(p, at) /\ Keeps(p)
<1>1. thread[p] \in ThreadStates /\ thread'[p] = [thread[p] EXCEPT !.at = at]
  OBVIOUS
<1>2. thread'[p] \in ThreadStates
  BY <1>1 DEF ThreadStates
<1> QED BY <1>1, <1>2 DEF Moves, Keeps, OthersStay, ThreadStates

TakesWith(p, at, x, d) == thread' = [thread EXCEPT ![p].at = at, ![p].node = x, ![p].task = d]

LEMMA TakingFacts ==
  ASSUME thread \in [Threads -> ThreadStates], NEW p \in Threads, NEW at \in Places,
         NEW x \in Nodes, NEW d \in Tasks \cup {NoTask},
         TakesWith(p, at, x, d)
  PROVE  Moves(p, at) /\ thread'[p].node = x /\ thread'[p].task = d
<1> USE DEF TakesWith
<1>1. thread[p] \in ThreadStates /\ thread'[p] = [thread[p] EXCEPT !.at = at, !.node = x, !.task = d]
  OBVIOUS
<1>2. thread'[p] \in ThreadStates
  BY <1>1 DEF ThreadStates, Pointer
<1> QED BY <1>1, <1>2 DEF Moves, OthersStay, ThreadStates

(* Control: what the moves of one thread may be.                           *)

LEMMA MoveControl ==
  ASSUME Control, NEW p \in Threads, NEW at, Moves(p, at),
         thread[p].op # "none",
         at \in PlacesOf(thread[p].op),
         UNCHANGED lock,
         at = thread[p].at \/ at \in {"unlock", "write2", "write3", "done", "called"},
         at \in {"write2", "write3"} => thread[p].at \in {"write", "write2", "write3"},
         at = "unlock" => Works(p)
  PROVE  (ThreadsInPlace /\ LocksInPlace /\ OneWorks)'
<1> USE DEF Control
<1>1. ThreadsInPlace'
  BY DEF ThreadsInPlace, Moves, OthersStay, Idle
<1>2. \A q \in Threads : Works(q)' => Works(q)
  BY DEF Works, Moves, OthersStay
<1>3. OneWorks'
  BY <1>2 DEF OneWorks
<1>4. LocksInPlace'
  <2> SUFFICES ASSUME NEW q \in Threads
               PROVE  /\ thread'[q].at \in {"back", "look"} \/ (thread'[q].at = "write" /\ thread'[q].op = "pop_front") => lock'["head"] = q
                      /\ thread'[q].at = "look" \/ (thread'[q].at \in {"write", "write2", "write3"} /\ thread'[q].op # "pop_front") => lock'["tail"] = q
                      /\ thread'[q].at = "unlock" => lock'["head"] = q \/ lock'["tail"] = q
    BY DEF LocksInPlace
  <2>1. CASE q # p
    BY <2>1 DEF LocksInPlace, Moves, OthersStay
  <2>2. CASE q = p
    BY <2>2 DEF LocksInPlace, ThreadsInPlace, Moves, Works, PlacesOf
  <2> QED BY <2>1, <2>2
<1> QED BY <1>1, <1>3, <1>4

-----------------------------------------------------------------------------
(* The elements that one meets from the head are the linked ones. *)

(* No more elements than there are addresses.                              *)
LEMMA LengthFacts ==
  ASSUME NEW s, Linked(s)
  PROVE  Len(s) \in 0..NumNodes /\ s \in [1..Len(s) -> Nodes]
<1>1. Len(s) \in Nat /\ s \in [1..Len(s) -> Nodes]
  BY LenProperties DEF Linked
<1>2. s \in Injection(1..Len(s), Nodes)
  <2>1. \A i, j \in 1..Len(s) : s[i] = s[j] => i = j
    BY DEF Linked
  <2> QED BY <1>1, <2>1 DEF Injection, IsInjective
<1>3. /\ IsFiniteSet(1..Len(s)) /\ Cardinality(1..Len(s)) = Len(s)
      /\ IsFiniteSet(Nodes) /\ Cardinality(Nodes) = NumNodes
  <2>1. /\ IsFiniteSet(1..Len(s)) /\ Cardinality(1..Len(s)) = IF 1 > Len(s) THEN 0 ELSE Len(s) - 1 + 1
        /\ IsFiniteSet(1..NumNodes) /\ Cardinality(1..NumNodes) = IF 1 > NumNodes THEN 0 ELSE NumNodes - 1 + 1
    BY <1>1, BoundsAssumption, FS_Interval
  <2> QED BY <1>1, <2>1, BoundsAssumption DEF Nodes
<1>4. Len(s) <= NumNodes
  BY <1>2, <1>3, FS_Injection
<1> QED BY <1>1, <1>4, BoundsAssumption

(* One step further along s, and from its end to nowhere.                  *)
HopsAlong(f) ==
    [k \in 0..NumNodes |->
       IF k = 0 THEN (IF tail.elem = Null THEN Null ELSE head.elem)
       ELSE IF f[k - 1] \in {Null, tail.elem} THEN Null ELSE node[f[k - 1]].next]

Along(s) == [k \in 0..NumNodes |-> IF k < Len(s) THEN s[k + 1] ELSE Null]

LEMMA AlongIsHops ==
  ASSUME NEW s, Linked(s)
  PROVE  Along(s) = HopsAlong(Along(s))
<1> PICK n \in 0..NumNodes : n = Len(s)
  BY LengthFacts
<1>1. s \in [1..n -> Nodes] /\ NumNodes \in Nat
  BY LengthFacts, BoundsAssumption
<1>2. \A i \in 1..n : s[i] # Null
  BY <1>1, Naturals
<1>3. SUFFICES ASSUME NEW k \in 0..NumNodes PROVE Along(s)[k] = HopsAlong(Along(s))[k]
  BY DEF Along, HopsAlong
<1>4. Along(s)[k] = IF k < n THEN s[k + 1] ELSE Null
  BY DEF Along
<1>5. CASE k = 0
  <2>1. HopsAlong(Along(s))[k] = IF tail.elem = Null THEN Null ELSE head.elem
    BY <1>5 DEF HopsAlong
  <2>2. CASE n = 0
    BY <1>4, <1>5, <2>1, <2>2 DEF Linked
  <2>3. CASE n > 0
    <3>1. tail.elem = s[n] /\ head.elem = s[1] /\ s[n] # Null
      BY <1>2, <2>3 DEF Linked
    <3> QED BY <1>4, <1>5, <2>1, <2>3, <3>1
  <2> QED BY <2>2, <2>3
<1>6. CASE k > 0
  <2> PICK x : x = Along(s)[k - 1]
    OBVIOUS
  <2>1. k - 1 \in 0..NumNodes /\ x = IF k - 1 < n THEN s[k] ELSE Null
    <3>1. k - 1 \in 0..NumNodes /\ (k - 1) + 1 = k
      BY <1>1, <1>6
    <3> QED BY <3>1 DEF Along
  <2>2. HopsAlong(Along(s))[k] = IF x \in {Null, tail.elem} THEN Null ELSE node[x].next
    BY <1>6 DEF HopsAlong
  <2>3. CASE k < n
    <3>1. k \in 1..n /\ n \in 1..n /\ k \in 1..(n - 1) /\ x = s[k]
      BY <1>6, <2>1, <2>3
    <3>2. tail.elem = s[n] /\ s[k] # s[n] /\ node[s[k]].next = s[k + 1]
      BY <2>3, <3>1 DEF Linked
    <3> QED BY <1>2, <1>4, <2>2, <2>3, <3>1, <3>2
  <2>4. CASE k = n
    <3>1. x = s[n] /\ tail.elem = s[n]
      BY <1>6, <2>1, <2>4 DEF Linked
    <3> QED BY <1>4, <2>2, <2>4, <3>1
  <2>5. CASE k > n
    BY <1>4, <2>1, <2>2, <2>5
  <2> QED BY <2>3, <2>4, <2>5
<1> QED BY <1>5, <1>6

LEMMA HopsAreUnique ==
  ASSUME NEW f, NEW g, f = HopsAlong(f), g = HopsAlong(g)
  PROVE  f = g
<1> DEFINE T == {k \in 0..NumNodes : f[k] # g[k]}
<1>1. T \subseteq Nat
  OBVIOUS
<1>2. ASSUME T # {} PROVE FALSE
  <2>1. PICK m \in T : \A k \in T : m <= k
    <3> HIDE DEF T
    <3> QED BY <1>1, <1>2, Smallest
  <2>2. m \in 0..NumNodes /\ f[m] # g[m]
    OBVIOUS
  <2>3. /\ f[m] = IF m = 0 THEN (IF tail.elem = Null THEN Null ELSE head.elem)
                  ELSE IF f[m - 1] \in {Null, tail.elem} THEN Null ELSE node[f[m - 1]].next
        /\ g[m] = IF m = 0 THEN (IF tail.elem = Null THEN Null ELSE head.elem)
                  ELSE IF g[m - 1] \in {Null, tail.elem} THEN Null ELSE node[g[m - 1]].next
    BY <2>2 DEF HopsAlong
  <2>4. m > 0 /\ m - 1 \in 0..NumNodes /\ m - 1 \notin T
    BY <2>1, <2>2, <2>3, BoundsAssumption
  <2>5. f[m - 1] = g[m - 1]
    BY <2>4
  <2> QED BY <2>2, <2>3, <2>5
<1>3. \A k \in 0..NumNodes : f[k] = g[k]
  BY <1>2
<1> QED BY <1>3 DEF HopsAlong

LEMMA ChainIsLinked ==
  ASSUME NEW s, Linked(s)
  PROVE  Chain = s
<1> PICK n \in 0..NumNodes : n = Len(s)
  BY LengthFacts
<1>1. s \in [1..n -> Nodes] /\ NumNodes \in Nat /\ \A i \in 1..n : s[i] # Null
  BY LengthFacts, BoundsAssumption, Naturals
<1>2. Hops = CHOOSE f : f = HopsAlong(f)
  BY DEF Hops, HopsAlong
<1>3. Hops = Along(s)
  <2>1. \E f : f = HopsAlong(f)
    BY AlongIsHops
  <2>2. Hops = HopsAlong(Hops)
    BY <1>2, <2>1
  <2> QED BY <2>2, AlongIsHops, HopsAreUnique
<1>4. \A k \in 0..NumNodes : Hops[k] = IF k < n THEN s[k + 1] ELSE Null
  BY <1>3 DEF Along
<1>5. {k \in 0..NumNodes : Hops[k] # Null} = 0..(n - 1)
  BY <1>1, <1>4
<1>6. Cardinality(0..(n - 1)) = n
  <2>1. 0 \in Int /\ n - 1 \in Int
    OBVIOUS
  <2>2. Cardinality(0..(n - 1)) = IF 0 > n - 1 THEN 0 ELSE (n - 1) - 0 + 1
    BY <2>1, FS_Interval
  <2> QED BY <2>2
<1>7. Chain = [i \in 1..n |-> Hops[i - 1]]
  BY <1>5, <1>6 DEF Chain
<1>8. \A i \in 1..n : Hops[i - 1] = s[i]
  BY <1>4, <1>1
<1> QED BY <1>1, <1>7, <1>8

(* As one formula, so that it can be used of the next state.               *)
LinkedIsChain == \A s : Linked(s) => Chain = s

LEMMA ChainLemma == LinkedIsChain
  BY ChainIsLinked DEF LinkedIsChain

LEMMA ChainLemmaNext == LinkedIsChain'
  BY ChainLemma, PTL

-----------------------------------------------------------------------------
(* What the steps have in common. *)

LEMMA IInvFromList ==
  ASSUME NEW s, Control', ListInv(s)'
  PROVE  IInv'
<1>1. Linked(s)'
  BY DEF ListInv
<1>2. Chain' = s
  BY <1>1, ChainLemmaNext DEF LinkedIsChain
<1>3. ListInv(Chain)'
  BY <1>2 DEF ListInv, Linked, EndIsLast, LongEnough, Owned
<1> QED BY <1>3 DEF IInv

(* Who works does so alone.                                                *)
LEMMA OthersRest ==
  ASSUME Control, NEW p \in Threads, Works(p), NEW q \in Threads, q # p
  PROVE  ~Works(q) /\ ~LeavesEnd(q)
  BY DEF Control, OneWorks, Works, LeavesEnd

(* The step of one thread changes nothing about the others.                *)
LEMMA OthersSame ==
  ASSUME NEW p, OthersStay(p), NEW q \in Threads, q # p
  PROVE  /\ thread'[q] = thread[q]
         /\ Works(q)' <=> Works(q)
         /\ LeavesEnd(q)' <=> LeavesEnd(q)
         /\ Done(q)' <=> Done(q)
         /\ Brings(q)' = Brings(q)
  BY DEF OthersStay, Works, LeavesEnd, Done, Brings

(* Where a call in a list with mutexes has taken effect.                   *)
LEMMA DoneFacts ==
  ASSUME ThreadsInPlace, NEW p \in Threads
  PROVE  Done(p) <=> \/ thread[p].at \in {"unlock", "done"}
                     \/ thread[p].op # "push_back" /\ thread[p].at \in {"write2", "write3"}
  BY DEF ThreadsInPlace, Done, PlacesOf, Idle

(* A step of p that leaves the elements alone, and no other's.             *)
LEMMA QuietMove ==
  ASSUME Control, NEW s, ListInv(s), NEW p \in Threads, NEW at, Moves(p, at), Keeps(p),
         UNCHANGED <<head, tail, node, heap>>,
         ThreadsInPlace',
         thread[p].op # "none",
         at \notin {"write2", "write3"}, ~LeavesEnd(p),
         at = "write" => Len(s) >= 2,
         Done(p) => Done(p)', thread[p].op = "push_back" => (Done(p)' <=> Done(p))
  PROVE  ListInv(s)'
<1>1. Linked(s)'
  BY DEF ListInv, Linked
<1>2. EndIsLast(s)'
  <2>1. \A q \in Threads : LeavesEnd(q)' <=> LeavesEnd(q)
    BY OthersSame DEF Moves, LeavesEnd
  <2> QED BY <2>1 DEF ListInv, EndIsLast
<1>3. LongEnough(s)'
  BY DEF ListInv, LongEnough, Moves, OthersStay
<1>4. \A q \in Threads : Brings(q)' = Brings(q)
  <2>1. Brings(p)' = Brings(p)
    BY DEF Moves, Keeps, Brings
  <2> QED BY <2>1, OthersSame DEF Moves
<1>5. Owned(s)'
  BY <1>4 DEF ListInv, Owned
<1>6. NewElements'
  BY OthersSame DEF ListInv, NewElements, Moves, Keeps
<1>7. EmptyHands'
  BY OthersSame DEF ListInv, EmptyHands, Moves, Keeps
<1> QED BY <1>1, <1>2, <1>3, <1>5, <1>6, <1>7 DEF ListInv

(* p adds its element at the end.                                          *)
LEMMA AppendStep ==
  ASSUME Control, NEW s, ListInv(s), NEW p \in Threads, Works(p), thread[p].op = "push_back",
         NEW e, e = thread[p].node, Moves(p, "unlock"), Keeps(p), UNCHANGED heap,
         ThreadsInPlace',
         tail'.elem = e,
         head'.elem = IF Len(s) = 0 THEN e ELSE head.elem,
         \A x \in Nodes : x # e /\ x # tail.elem => node'[x] = node[x],
         node'[e].next = Null,
         Len(s) > 0 => /\ node'[e].prev = s[Len(s)]
                       /\ node'[s[Len(s)]].next = e
                       /\ node'[s[Len(s)]].prev = node[s[Len(s)]].prev
  PROVE  ListInv(Append(s, e))'
<1> PICK n \in 0..NumNodes : n = Len(s)
  BY LengthFacts DEF ListInv
<1> PICK t : t = Append(s, e)
  OBVIOUS
<1>1. ~Done(p) /\ Done(p)' /\ Brings(p)' = {}
  <2>1. ~Done(p)
    BY DoneFacts DEF Control, Works
  <2>2. thread'[p].at = "unlock" /\ thread'[p].op = "push_back"
    BY DEF Moves
  <2> QED BY <2>1, <2>2 DEF Done, Brings
<1>2. e \in Nodes /\ e # Null /\ Brings(p) = {e} /\ e \in heap
  <2>1. e \in Nodes
    BY <1>1 DEF ListInv, NewElements
  <2>2. Brings(p) = {e}
    BY <1>1, <2>1, Naturals DEF Brings
  <2> QED BY <2>1, <2>2, Naturals DEF ListInv, Owned
<1>3. n \in Nat /\ s \in [1..n -> Nodes] /\ \A i \in 1..n : s[i] # e
  <2>1. \A i \in 1..n : s[i] # e
    BY <1>2 DEF ListInv, Owned
  <2> QED BY <2>1, LengthFacts DEF ListInv
<1>4. t \in Seq(Nodes) /\ Len(t) = n + 1 /\ t[n + 1] = e /\ \A i \in 1..n : t[i] = s[i]
  BY <1>2, AppendProperties DEF ListInv, Linked
<1>5. Linked(t)'
  <2>1. \A i, j \in 1..(n + 1) : t[i] = t[j] => i = j
    <3>1. \A i, j \in 1..n : s[i] = s[j] => i = j
      BY DEF ListInv, Linked
    <3>2. \A i \in 1..(n + 1) : i \in 1..n \/ i = n + 1
      BY <1>3
    <3> QED BY <1>3, <1>4, <3>1, <3>2
  <2>2. head'.elem = t[1] /\ tail'.elem = t[n + 1]
    BY <1>3, <1>4 DEF ListInv, Linked
  <2>3. ASSUME NEW i \in 1..n PROVE node'[t[i]].next = t[i + 1] /\ node'[t[i + 1]].prev = t[i]
    <3>1. CASE i = n
      <4>1. t[i] = s[n] /\ t[i + 1] = e /\ n > 0
        BY <1>3, <1>4, <3>1
      <4> QED BY <4>1
    <3>2. CASE i < n
      <4>1. i \in 1..(n - 1) /\ i + 1 \in 1..n /\ t[i] = s[i] /\ t[i + 1] = s[i + 1] /\ n \in 1..n
        BY <1>3, <1>4, <3>2
      <4>2. /\ node[s[i]].next = s[i + 1] /\ node[s[i + 1]].prev = s[i]
            /\ s[i] # s[n] /\ tail.elem = s[n]
        BY <3>2, <4>1 DEF ListInv, Linked
      <4>3. node'[s[i]] = node[s[i]]
        BY <1>3, <4>2
      <4>4. node'[s[i + 1]].prev = node[s[i + 1]].prev
        BY <1>3, <4>1, <4>2
      <4> QED BY <4>1, <4>2, <4>3, <4>4
    <3> QED BY <1>3, <3>1, <3>2
  <2> QED BY <1>3, <1>4, <2>1, <2>2, <2>3 DEF Linked
<1>6. EndIsLast(t)'
  BY <1>4 DEF EndIsLast
<1>7. LongEnough(t)'
  <2> SUFFICES ASSUME NEW q \in Threads, thread'[q].at \in {"write", "write2", "write3"} PROVE FALSE
    BY DEF LongEnough
  <2>1. q # p
    BY DEF Moves
  <2> QED BY <2>1, OthersSame, OthersRest DEF Moves, Works
<1>8. Owned(t)'
  <2>1. \A i \in 1..(n + 1) : t[i] \in heap
    <3>1. \A i \in 1..n : s[i] \in heap
      BY DEF ListInv, Owned
    <3>2. \A i \in 1..(n + 1) : i \in 1..n \/ i = n + 1
      BY <1>3
    <3> QED BY <1>2, <1>4, <3>1, <3>2
  <2>2. \A q \in Threads : q # p => Brings(q)' = Brings(q) /\ e \notin Brings(q)
    <3>1. \A q \in Threads : q # p => Brings(q)' = Brings(q)
      BY OthersSame DEF Moves
    <3> QED BY <3>1, <1>2 DEF ListInv, Owned
  <2>3. ASSUME NEW x \in heap
        PROVE  (\E i \in 1..(n + 1) : x = t[i]) \/ \E q \in Threads : x \in Brings(q)'
    <3>1. CASE x = e
      <4>1. n + 1 \in 1..(n + 1)
        BY <1>3
      <4> QED BY <1>4, <3>1, <4>1
    <3>2. CASE \E i \in 1..n : x = s[i]
      <4>1. \A i \in 1..n : i \in 1..(n + 1)
        BY <1>3
      <4> QED BY <1>4, <3>2, <4>1
    <3>3. CASE x # e /\ ~\E i \in 1..n : x = s[i]
      <4>1. PICK q \in Threads : x \in Brings(q)
        BY <3>3 DEF ListInv, Owned
      <4>2. q # p
        BY <1>2, <3>3, <4>1
      <4> QED BY <2>2, <4>1, <4>2
    <3> QED BY <3>1, <3>2, <3>3
  <2>4. ASSUME NEW q \in Threads
        PROVE  Brings(q)' \subseteq heap /\ \A i \in 1..(n + 1) : t[i] \notin Brings(q)'
    <3>1. CASE q = p
      BY <1>1, <3>1
    <3>2. CASE q # p
      <4>1. Brings(q) \subseteq heap /\ \A i \in 1..n : s[i] \notin Brings(q)
        BY DEF ListInv, Owned
      <4>2. \A i \in 1..(n + 1) : i \in 1..n \/ i = n + 1
        BY <1>3
      <4> QED BY <1>4, <2>2, <3>2, <4>1, <4>2
    <3> QED BY <3>1, <3>2
  <2>5. ASSUME NEW q \in Threads, NEW r \in Threads, q # r PROVE Brings(q)' \cap Brings(r)' = {}
    <3>1. CASE q = p \/ r = p
      BY <1>1, <3>1
    <3>2. CASE q # p /\ r # p
      BY <2>2, <2>5, <3>2 DEF ListInv, Owned
    <3> QED BY <3>1, <3>2
  <2> QED BY <1>4, <2>1, <2>3, <2>4, <2>5 DEF Owned
<1>9. NewElements'
  <2> SUFFICES ASSUME NEW q \in Threads, q # p, thread[q].op = "push_back", ~Done(q)
               PROVE  LET x == thread[q].node
                      IN  /\ x \in Nodes /\ node'[x].next = Null
                          /\ node'[x].data = thread[q].task /\ thread[q].task \in Tasks
                          /\ thread[q].at \notin {"write2", "write3"}
    BY <1>1, OthersSame DEF NewElements, Moves
  <2>1. thread[q].at \notin {"write2", "write3"}
    BY OthersRest DEF Works
  <2> PICK x : x = thread[q].node
    OBVIOUS
  <2>2. /\ x \in Nodes /\ node[x].next = Null
        /\ node[x].data = thread[q].task /\ thread[q].task \in Tasks
    BY DEF ListInv, NewElements
  <2>3. x \in Brings(q)
    BY <2>2, Naturals DEF Brings
  <2>4. x # e /\ \A i \in 1..n : x # s[i]
    BY <1>2, <2>3 DEF ListInv, Owned
  <2>5. x # tail.elem
    BY <1>3, <2>2, <2>4, Naturals DEF ListInv, Linked
  <2> QED BY <2>1, <2>2, <2>4, <2>5
<1>10. EmptyHands'
  BY OthersSame DEF ListInv, EmptyHands, Moves
<1> QED BY <1>5, <1>6, <1>7, <1>8, <1>9, <1>10 DEF ListInv

(* What is left when p takes the element x out of the list: t.             *)
Without(t, s, x) ==
    /\ \E j \in 1..Len(s) : x = s[j]
    /\ \A i \in 1..Len(t) : t[i] # x /\ \E j \in 1..Len(s) : t[i] = s[j]
    /\ \A i \in 1..Len(s) : s[i] = x \/ \E j \in 1..Len(t) : s[i] = t[j]

LEMMA TakenOwned ==
  ASSUME Control, NEW s, ListInv(s), NEW p \in Threads, Works(p), thread[p].op # "push_back", ~Done(p),
         NEW x \in Nodes, NEW at, Moves(p, at), thread'[p].node = x, UNCHANGED heap,
         NEW t, Without(t, s, x)
  PROVE  Owned(t)'
<1> USE DEF Without
<1>1. x \in heap /\ \A q \in Threads : x \notin Brings(q)
  BY DEF ListInv, Owned
<1>2. Brings(p) = {} /\ Brings(p)' = {x}
  <2>1. thread[p].node = Null
    BY DEF ListInv, EmptyHands
  <2>2. thread'[p].op # "push_back"
    BY DEF Moves
  <2> QED BY <2>1, <2>2, Naturals DEF Brings
<1>3. \A q \in Threads : q # p => Brings(q)' = Brings(q)
  BY OthersSame DEF Moves
<1>4. \A i \in 1..Len(t) : t[i] \in heap
  BY DEF ListInv, Owned
<1>5. ASSUME NEW y \in heap
      PROVE  (\E i \in 1..Len(t) : y = t[i]) \/ \E q \in Threads : y \in Brings(q)'
  <2>1. CASE y = x
    BY <1>2, <2>1
  <2>2. CASE \E i \in 1..Len(s) : y = s[i] /\ y # x
    BY <2>2
  <2>3. CASE \E q \in Threads : y \in Brings(q)
    <3>1. PICK q \in Threads : y \in Brings(q)
      BY <2>3
    <3>2. q # p
      BY <1>2, <3>1
    <3> QED BY <1>3, <3>1, <3>2
  <2>4. (\E i \in 1..Len(s) : y = s[i]) \/ \E q \in Threads : y \in Brings(q)
    BY DEF ListInv, Owned
  <2> QED BY <2>1, <2>2, <2>3, <2>4
<1>6. ASSUME NEW q \in Threads
      PROVE  Brings(q)' \subseteq heap /\ \A i \in 1..Len(t) : t[i] \notin Brings(q)'
  <2>1. CASE q = p
    BY <1>1, <1>2, <2>1
  <2>2. CASE q # p
    <3>1. Brings(q) \subseteq heap /\ \A i \in 1..Len(s) : s[i] \notin Brings(q)
      BY DEF ListInv, Owned
    <3>2. \A i \in 1..Len(t) : \E j \in 1..Len(s) : t[i] = s[j]
      OBVIOUS
    <3> QED BY <1>3, <2>2, <3>1, <3>2
  <2> QED BY <2>1, <2>2
<1>7. ASSUME NEW q \in Threads, NEW r \in Threads, q # r PROVE Brings(q)' \cap Brings(r)' = {}
  <2>1. CASE q = p
    BY <1>1, <1>2, <1>3, <1>7, <2>1
  <2>2. CASE r = p
    BY <1>1, <1>2, <1>3, <1>7, <2>2
  <2>3. CASE q # p /\ r # p
    BY <1>3, <1>7, <2>3 DEF ListInv, Owned
  <2> QED BY <2>1, <2>2, <2>3
<1> QED BY <1>4, <1>5, <1>6, <1>7 DEF Owned

(* The elements that others bring are not touched by what p does to one of *)
(* the list's or to its own.                                               *)
LEMMA OthersNew ==
  ASSUME Control, NEW s, ListInv(s), NEW p \in Threads, Works(p), OthersStay(p),
         NEW q \in Threads, q # p, thread[q].op = "push_back", ~Done(q),
         NEW y \in Nodes, y = thread[p].node \/ (\E i \in 1..Len(s) : y = s[i]),
         \A x \in Nodes : x # y => node'[x] = node[x],
         thread[p].op = "push_back" => ~Done(p)
  PROVE  /\ thread[q].node \in Nodes /\ node'[thread[q].node].next = Null
         /\ node'[thread[q].node].data = thread[q].task /\ thread[q].task \in Tasks
         /\ thread[q].at \notin {"write2", "write3"}
<1>1. thread[q].at \notin {"write2", "write3"}
  BY OthersRest DEF Works
<1> PICK x : x = thread[q].node
  OBVIOUS
<1>2. /\ x \in Nodes /\ node[x].next = Null
      /\ node[x].data = thread[q].task /\ thread[q].task \in Tasks
  BY DEF ListInv, NewElements
<1>3. x \in Brings(q)
  BY <1>2, Naturals DEF Brings
<1>4. x # y
  <2>1. CASE y = thread[p].node
    <3>1. y \in Brings(p)
      BY <2>1, Naturals DEF Brings
    <3> QED BY <1>3, <3>1 DEF ListInv, Owned
  <2>2. CASE \E i \in 1..Len(s) : y = s[i]
    <3>1. \A i \in 1..Len(s) : s[i] \notin Brings(q)
      BY DEF ListInv, Owned
    <3> QED BY <1>3, <2>2, <3>1
  <2> QED BY <2>1, <2>2
<1> QED BY <1>1, <1>2, <1>4

(* Nobody else is about to write.                                          *)
LEMMA OthersShort ==
  ASSUME Control, NEW p \in Threads, Works(p), NEW at, Moves(p, at), at \notin {"write", "write2", "write3"},
         NEW t
  PROVE  LongEnough(t)'
<1> SUFFICES ASSUME NEW q \in Threads, thread'[q].at \in {"write", "write2", "write3"} PROVE FALSE
  BY DEF LongEnough
<1>1. q # p
  BY DEF Moves
<1> QED BY <1>1, OthersSame, OthersRest DEF Moves, Works

LEMMA PopFrontStep ==
  ASSUME Control, NEW s, ListInv(s), NEW p \in Threads, Works(p), thread[p].op # "push_back", ~Done(p),
         Len(s) >= 1, Moves(p, "unlock"), thread'[p].node = s[1], UNCHANGED <<node, heap>>,
         head'.elem = IF Len(s) = 1 THEN Null ELSE s[2],
         tail'.elem = IF Len(s) = 1 THEN Null ELSE tail.elem
  PROVE  ListInv(Tail(s))'
<1> PICK n \in 0..NumNodes : n = Len(s)
  BY LengthFacts DEF ListInv
<1> PICK t : t = Tail(s)
  OBVIOUS
<1>1. n \in Nat /\ n >= 1 /\ s \in [1..n -> Nodes] /\ s # <<>> /\ s[1] \in Nodes
  <2>1. n \in Nat /\ n >= 1 /\ s \in [1..n -> Nodes]
    BY LengthFacts DEF ListInv
  <2>2. s # <<>>
    BY <2>1, EmptySeq
  <2> QED BY <2>1, <2>2
<1>2. t \in Seq(Nodes) /\ Len(t) = n - 1 /\ \A i \in 1..(n - 1) : t[i] = s[i + 1]
  BY <1>1, HeadTailProperties DEF ListInv, Linked
<1>3. \A i, j \in 1..n : s[i] = s[j] => i = j
  BY DEF ListInv, Linked
<1>4. Linked(t)'
  <2>1. \A i, j \in 1..(n - 1) : t[i] = t[j] => i = j
    <3>1. \A i \in 1..(n - 1) : i + 1 \in 1..n
      BY <1>1
    <3> QED BY <1>2, <1>3, <3>1
  <2>2. /\ head'.elem = IF n - 1 = 0 THEN Null ELSE t[1]
        /\ tail'.elem = IF n - 1 = 0 THEN Null ELSE t[n - 1]
    <3>1. CASE n = 1
      BY <3>1
    <3>2. CASE n > 1
      <4>1. 1 \in 1..(n - 1) /\ n - 1 \in 1..(n - 1) /\ (n - 1) + 1 = n /\ 1 + 1 = 2
        BY <1>1, <3>2
      <4>2. t[1] = s[2] /\ t[n - 1] = s[n]
        BY <1>2, <4>1
      <4> QED BY <1>1, <3>2, <4>2 DEF ListInv, Linked
    <3> QED BY <1>1, <3>1, <3>2
  <2>3. ASSUME NEW i \in 1..((n - 1) - 1) PROVE node'[t[i]].next = t[i + 1] /\ node'[t[i + 1]].prev = t[i]
    <3>1. i \in 1..(n - 1) /\ i + 1 \in 1..(n - 1)
      BY <1>1
    <3>2. t[i] = s[i + 1] /\ t[i + 1] = s[(i + 1) + 1]
      BY <1>2, <3>1
    <3>3. node[s[i + 1]].next = s[(i + 1) + 1] /\ node[s[(i + 1) + 1]].prev = s[i + 1]
      BY <3>1 DEF ListInv, Linked
    <3> QED BY <3>2, <3>3
  <2> PICK m : m = n - 1
    OBVIOUS
  <2>4. m = n - 1 /\ Len(t) = m /\ t \in Seq(Nodes)
    BY <1>2
  <2> QED BY ONLY <2>1, <2>2, <2>3, <2>4 DEF Linked
<1>5. EndIsLast(t)'
  <2> SUFFICES ASSUME n - 1 > 0 PROVE node[t[n - 1]].next = Null
    BY <1>2 DEF EndIsLast
  <2>1. n - 1 \in 1..(n - 1) /\ (n - 1) + 1 = n
    BY <1>1
  <2>2. t[n - 1] = s[n]
    BY <1>2, <2>1
  <2>3. \A q \in Threads : ~LeavesEnd(q)
    <3>1. ~LeavesEnd(p)
      BY DoneFacts DEF Control, LeavesEnd
    <3> QED BY <3>1, OthersRest
  <2> QED BY <1>1, <2>2, <2>3 DEF ListInv, EndIsLast
<1>6. LongEnough(t)'
  BY OthersShort
<1>7. Owned(t)'
  <2>1. 1 \in 1..n /\ s[1] = s[1]
    BY <1>1
  <2>2. \A i \in 1..(n - 1) : i + 1 \in 1..n /\ t[i] = s[i + 1] /\ s[i + 1] # s[1]
    <3>1. \A i \in 1..(n - 1) : i + 1 \in 1..n /\ i + 1 # 1
      BY <1>1
    <3> QED BY <1>2, <1>3, <2>1, <3>1
  <2>3. \A i \in 1..n : s[i] = s[1] \/ \E j \in 1..(n - 1) : s[i] = t[j]
    <3>1. \A i \in 1..n : i = 1 \/ (i - 1 \in 1..(n - 1) /\ (i - 1) + 1 = i)
      BY <1>1
    <3> QED BY <1>2, <3>1
  <2> PICK x \in Nodes : x = s[1]
    BY <1>1
  <2>4. Without(t, s, x)
    BY <1>2, <2>1, <2>2, <2>3 DEF Without
  <2>5. UNCHANGED heap
    OBVIOUS
  <2> QED BY <2>4, <2>5, TakenOwned
<1>8. NewElements'
  <2>1. thread'[p].op # "push_back"
    BY DEF Moves
  <2>2. ASSUME NEW q \in Threads, q # p, thread[q].op = "push_back", ~Done(q)
        PROVE  /\ thread[q].node \in Nodes /\ node'[thread[q].node].next = Null
               /\ node'[thread[q].node].data = thread[q].task /\ thread[q].task \in Tasks
               /\ thread[q].at \notin {"write2", "write3"}
    <3>1. thread[q].at \notin {"write2", "write3"}
      BY <2>2, OthersRest DEF Works
    <3> QED BY <2>2, <3>1 DEF ListInv, NewElements
  <2> QED BY <2>1, <2>2, OthersSame DEF NewElements, Moves
<1>9. EmptyHands'
  <2>1. Done(p)'
    BY DEF Moves, Done
  <2> QED BY <2>1, OthersSame DEF ListInv, EmptyHands, Moves
<1> QED BY <1>4, <1>5, <1>6, <1>7, <1>8, <1>9 DEF ListInv

(* The last of two or more is taken: the one before it is the last then,   *)
(* and has no successor, or p has yet to see to that.                      *)
LEMMA PopBackStep ==
  ASSUME Control, NEW s, ListInv(s), NEW p \in Threads, Works(p), thread[p].op = "pop_back", ~Done(p),
         Len(s) >= 2, NEW at, Moves(p, at), at \in {"unlock", "write2"}, thread'[p].node = s[Len(s)],
         UNCHANGED <<head, heap>>, tail'.elem = s[Len(s) - 1],
         \A x \in Nodes : x # s[Len(s) - 1] => node'[x] = node[x],
         node'[s[Len(s) - 1]].prev = node[s[Len(s) - 1]].prev,
         at = "unlock" => node'[s[Len(s) - 1]].next = Null,
         ThreadsInPlace'
  PROVE  ListInv(SubSeq(s, 1, Len(s) - 1))'
<1> PICK n \in 0..NumNodes : n = Len(s)
  BY LengthFacts DEF ListInv
<1> PICK m : m = n - 1
  OBVIOUS
<1> PICK t : t = SubSeq(s, 1, m)
  OBVIOUS
<1>1. n \in Nat /\ m \in Nat /\ m >= 1 /\ n = m + 1 /\ s \in [1..n -> Nodes]
  BY LengthFacts, BoundsAssumption DEF ListInv
<1>2. t \in Seq(Nodes) /\ Len(t) = m /\ \A i \in 1..m : t[i] = s[i]
  <2>1. \A i \in 1..m : s[i] \in Nodes
    BY <1>1
  <2>2. /\ t \in Seq(Nodes) /\ Len(t) = IF 1 <= m THEN m - 1 + 1 ELSE 0
        /\ \A i \in 1..(m - 1 + 1) : t[i] = s[1 + i - 1]
    BY <1>1, <2>1, SubSeqProperties
  <2>3. m - 1 + 1 = m /\ \A i \in 1..m : 1 + i - 1 = i
    BY <1>1
  <2> QED BY <1>1, <2>2, <2>3
<1>3. \A i, j \in 1..n : s[i] = s[j] => i = j
  BY DEF ListInv, Linked
<1>4. m \in 1..n /\ n \in 1..n /\ s[m] \in Nodes /\ s[n] \in Nodes /\ s[m] # s[n]
  BY <1>1, <1>3
<1>5. Linked(t)'
  <2>1. \A i, j \in 1..m : t[i] = t[j] => i = j
    BY <1>1, <1>2, <1>3
  <2>2. head'.elem = t[1] /\ tail'.elem = t[m]
    BY <1>1, <1>2 DEF ListInv, Linked
  <2>3. ASSUME NEW i \in 1..(m - 1) PROVE node'[t[i]].next = t[i + 1] /\ node'[t[i + 1]].prev = t[i]
    <3>1. i \in 1..m /\ i + 1 \in 1..m /\ i # m /\ i \in 1..(n - 1)
      BY <1>1
    <3>2. t[i] = s[i] /\ t[i + 1] = s[i + 1]
      BY <1>2, <3>1
    <3>3. node[s[i]].next = s[i + 1] /\ node[s[i + 1]].prev = s[i]
      BY <3>1 DEF ListInv, Linked
    <3>4. s[i] # s[m] /\ s[i] \in Nodes /\ s[i + 1] \in Nodes
      BY <1>1, <1>3, <3>1
    <3> QED BY <3>2, <3>3, <3>4
  <2>4. Len(t) = m /\ m # 0 /\ t \in Seq(Nodes)
    BY <1>1, <1>2
  <2> QED BY <2>1, <2>2, <2>3, <2>4 DEF Linked
<1>6. EndIsLast(t)'
  <2>1. CASE at = "unlock"
    <3>1. t[m] = s[m]
      BY <1>1, <1>2
    <3> QED BY <1>2, <2>1, <3>1 DEF EndIsLast
  <2>2. CASE at = "write2"
    <3>1. LeavesEnd(p)'
      BY <2>2 DEF LeavesEnd, Moves
    <3> QED BY <3>1 DEF EndIsLast
  <2> QED BY <2>1, <2>2
<1>7. LongEnough(t)'
  <2> SUFFICES ASSUME NEW q \in Threads
               PROVE  /\ thread'[q].at = "write" => m >= 2
                      /\ thread'[q].at \in {"write2", "write3"} => m >= 1
    BY <1>2 DEF LongEnough
  <2>1. CASE q = p
    BY <1>1, <2>1 DEF Moves
  <2>2. CASE q # p
    BY <2>2, OthersSame, OthersRest DEF Moves, Works
  <2> QED BY <2>1, <2>2
<1>8. Owned(t)'
  <2> PICK x \in Nodes : x = s[n]
    BY <1>4
  <2>1. \E j \in 1..n : x = s[j]
    BY <1>4
  <2>2. \A i \in 1..m : t[i] # x /\ \E j \in 1..n : t[i] = s[j]
    <3>1. \A i \in 1..m : i \in 1..n /\ i # n
      BY <1>1
    <3> QED BY <1>2, <1>3, <1>4, <3>1
  <2>3. \A i \in 1..n : s[i] = x \/ \E j \in 1..m : s[i] = t[j]
    <3>1. \A i \in 1..n : i = n \/ i \in 1..m
      BY <1>1
    <3> QED BY <1>2, <3>1
  <2>4. Without(t, s, x)
    BY <1>2, <2>1, <2>2, <2>3 DEF Without
  <2>5. UNCHANGED heap
    OBVIOUS
  <2> QED BY <2>4, <2>5, TakenOwned
<1>9. NewElements'
  <2>1. thread'[p].op # "push_back" /\ thread[p].op # "push_back"
    BY DEF Moves
  <2>2. ASSUME NEW q \in Threads, q # p, thread[q].op = "push_back", ~Done(q)
        PROVE  /\ thread[q].node \in Nodes /\ node'[thread[q].node].next = Null
               /\ node'[thread[q].node].data = thread[q].task /\ thread[q].task \in Tasks
               /\ thread[q].at \notin {"write2", "write3"}
    <3>1. \E i \in 1..Len(s) : s[m] = s[i]
      BY <1>4
    <3> QED BY <1>4, <2>1, <2>2, <3>1, OthersNew DEF Moves
  <2> QED BY <2>1, <2>2, OthersSame DEF NewElements, Moves
<1>10. EmptyHands'
  <2>1. Done(p)'
    BY DEF Moves, Done
  <2> QED BY <2>1, OthersSame DEF ListInv, EmptyHands, Moves
<1> QED BY <1>5, <1>6, <1>7, <1>8, <1>9, <1>10 DEF ListInv

(* p writes a member of an element: of the last, but not its way back, or  *)
(* of its own.                                                             *)
LEMMA WriteStep ==
  ASSUME Control, NEW s, ListInv(s), NEW p \in Threads, Works(p), thread[p].op # "none",
         NEW at, Moves(p, at), Keeps(p), at \in {"write2", "write3", "unlock"},
         Len(s) >= 1, UNCHANGED <<head, tail, heap>>,
         NEW y \in Nodes,
         \/ y = s[Len(s)] /\ node'[y].prev = node[y].prev
         \/ y = thread[p].node /\ thread[p].op = "push_back",
         \A x \in Nodes : x # y => node'[x] = node[x],
         thread[p].op = "push_back" => ~Done(p) /\ at # "unlock",
         thread[p].op # "push_back" => Done(p),
         (\A q \in Threads : ~LeavesEnd(q)') => node'[s[Len(s)]].next = Null,
         thread[p].op = "push_back" =>
            LET e == thread[p].node
            IN  /\ node'[e].next = Null /\ node'[e].data = node[e].data
                /\ node'[e].prev = tail.elem
                /\ at = "write3" => node'[tail.elem].next = e,
         ThreadsInPlace'
  PROVE  ListInv(s)'
<1> PICK n \in 0..NumNodes : n = Len(s)
  BY LengthFacts DEF ListInv
<1>1. n \in Nat /\ n >= 1 /\ n \in 1..n /\ s \in [1..n -> Nodes]
  BY LengthFacts, BoundsAssumption DEF ListInv
<1>2. thread[p].op = "push_back" => thread[p].node \in Nodes /\ \A i \in 1..n : s[i] # thread[p].node
  <2> SUFFICES ASSUME thread[p].op = "push_back"
               PROVE  thread[p].node \in Nodes /\ \A i \in 1..n : s[i] # thread[p].node
    OBVIOUS
  <2>1. thread[p].node \in Nodes
    BY DEF ListInv, NewElements
  <2>2. thread[p].node \in Brings(p)
    BY <2>1, Naturals DEF Brings
  <2> QED BY <2>1, <2>2 DEF ListInv, Owned
<1>3. \A i \in 1..(n - 1) : s[i] # y /\ node'[s[i + 1]].prev = node[s[i + 1]].prev
  <2> SUFFICES ASSUME NEW i \in 1..(n - 1) PROVE s[i] # y /\ node'[s[i + 1]].prev = node[s[i + 1]].prev
    OBVIOUS
  <2>1. i \in 1..n /\ i + 1 \in 1..n /\ i # n
    BY <1>1
  <2>2. \A j, k \in 1..n : s[j] = s[k] => j = k
    BY DEF ListInv, Linked
  <2> QED BY <1>1, <1>2, <2>1, <2>2
<1>4. Linked(s)'
  <2>1. ASSUME NEW i \in 1..(n - 1) PROVE node'[s[i]].next = s[i + 1] /\ node'[s[i + 1]].prev = s[i]
    <3>1. node[s[i]].next = s[i + 1] /\ node[s[i + 1]].prev = s[i] /\ s[i] \in Nodes
      BY <1>1 DEF ListInv, Linked
    <3> QED BY <1>3, <3>1
  <2> QED BY <2>1 DEF ListInv, Linked
<1>5. EndIsLast(s)'
  BY DEF EndIsLast
<1>6. LongEnough(s)'
  <2> SUFFICES ASSUME NEW q \in Threads
               PROVE  /\ thread'[q].at = "write" => n >= 2
                      /\ thread'[q].at \in {"write2", "write3"} => n >= 1
    BY DEF LongEnough
  <2>1. CASE q = p
    BY <1>1, <2>1 DEF Moves
  <2>2. CASE q # p
    BY <1>1, <2>2, OthersSame, OthersRest DEF Moves, Works
  <2> QED BY <2>1, <2>2
<1>7. thread[p].op = "push_back" => ~Done(p)'
  BY DEF Moves, Done, ThreadsInPlace
<1>8. Owned(s)'
  <2>1. Brings(p)' = Brings(p)
    BY <1>7 DEF Moves, Keeps, Brings
  <2>2. \A q \in Threads : Brings(q)' = Brings(q)
    BY <2>1, OthersSame DEF Moves
  <2> QED BY <2>2 DEF ListInv, Owned
<1>9. NewElements'
  <2>1. ASSUME thread[p].op = "push_back"
        PROVE  LET e == thread'[p].node
               IN  /\ e \in Nodes /\ node'[e].next = Null
                   /\ node'[e].data = thread'[p].task /\ thread'[p].task \in Tasks
                   /\ thread'[p].at \in {"write2", "write3"} => node'[e].prev = tail'.elem
                   /\ thread'[p].at = "write3" => node'[tail'.elem].next = e
    BY <2>1 DEF ListInv, NewElements, Moves, Keeps
  <2>2. ASSUME NEW q \in Threads, q # p, thread[q].op = "push_back", ~Done(q)
        PROVE  /\ thread[q].node \in Nodes /\ node'[thread[q].node].next = Null
               /\ node'[thread[q].node].data = thread[q].task /\ thread[q].task \in Tasks
               /\ thread[q].at \notin {"write2", "write3"}
    <3>1. y = thread[p].node \/ \E i \in 1..Len(s) : y = s[i]
      BY <1>1
    <3> QED BY <2>2, <3>1, OthersNew DEF Moves
  <2> QED BY <2>1, <2>2, OthersSame DEF NewElements, Moves
<1>10. EmptyHands'
  <2>1. thread[p].op # "push_back" => Done(p)'
    <3>1. thread[p].op = "pop_front" => at = "unlock"
      BY DEF ThreadsInPlace, Moves, PlacesOf
    <3> QED BY <3>1 DEF Moves, Done
  <2> QED BY <2>1, OthersSame DEF ListInv, EmptyHands, Moves
<1> QED BY <1>4, <1>5, <1>6, <1>8, <1>9, <1>10 DEF ListInv

-----------------------------------------------------------------------------
(* What a step of p comes to, seen from outside, when the list was s. *)

KeepsData == \A x \in heap : node'[x].data = node[x].data

(* Nothing.                                                                *)
Steady(s, p) == /\ ListInv(s)' /\ KeepsData /\ OthersStay(p)
                /\ thread'[p].op = thread[p].op /\ thread'[p].task = thread[p].task
                /\ Done(p)' <=> Done(p)

(* The effect of its call, with which it has d in hand.                    *)
TakesEffect(p, o, d) ==
    /\ KeepsData /\ OthersStay(p)
    /\ thread[p].op = o /\ thread'[p].op = o
    /\ ~Done(p) /\ Done(p)'
    /\ thread'[p].task = d

Pushes(s, p) == /\ TakesEffect(p, "push_back", thread[p].task)
                /\ \E e \in heap : /\ e = thread[p].node /\ node[e].data = thread[p].task
                                  /\ ListInv(Append(s, e))'

PopsFront(s, p) == /\ Len(s) > 0
                   /\ TakesEffect(p, "pop_front", node[s[1]].data)
                   /\ ListInv(Tail(s))'

PopsBack(s, p) == /\ Len(s) > 0
                  /\ TakesEffect(p, "pop_back", node[s[Len(s)]].data)
                  /\ ListInv(SubSeq(s, 1, Len(s) - 1))'

FindsNothing(s, p) == /\ Len(s) = 0
                      /\ thread[p].op # "push_back" /\ TakesEffect(p, thread[p].op, NoTask)
                      /\ ListInv(s)'

Calls(s, p) == /\ KeepsData /\ OthersStay(p)
               /\ thread[p] = Idle /\ thread'[p].op \in Operations /\ ~Done(p)'
               /\ thread'[p].task = NoTask <=> thread'[p].op # "push_back"
               /\ ListInv(s)'

Returns(s, p) == /\ KeepsData /\ OthersStay(p)
                 /\ Done(p) /\ thread'[p] = Idle
                 /\ ListInv(s)'

Outcome(s, p) == \/ Steady(s, p) \/ Pushes(s, p) \/ PopsFront(s, p) \/ PopsBack(s, p)
                 \/ FindsNothing(s, p) \/ Calls(s, p) \/ Returns(s, p)

-----------------------------------------------------------------------------
(* Taking and giving back the mutexes. *)

LEMMA TypesKept ==
  ASSUME TypeOK, UNCHANGED use,
         thread' \in [Threads -> ThreadStates], node' \in [Nodes -> Cells], heap' \subseteq Nodes,
         lock' \in [{"head", "tail"} -> Threads \cup {Nobody}],
         head' \in [elem : Pointer, next : Pointer], tail' \in [elem : Pointer, prev : Pointer],
         calls' \in 0..MaxCalls
  PROVE  TypeOK'
  BY DEF TypeOK, ThreadStates, Cells

(* A step that only changes a lock and moves p.                            *)
LEMMA LockTypes ==
  ASSUME Control, NEW p, NEW at, Moves(p, at), UNCHANGED <<use, head, tail, node, heap, calls>>,
         lock' \in [{"head", "tail"} -> Threads \cup {Nobody}]
  PROVE  TypeOK' /\ use'.list = "mutex" /\ KeepsData
<1>1. TypeOK
  BY DEF Control
<1>2. TypeOK'
  BY <1>1, StateSets, TypesKept DEF Moves
<1> QED BY <1>2 DEF Control, KeepsData

LEMMA InCall ==
  ASSUME Control, NEW p \in Threads, thread[p].at # "out"
  PROVE  thread[p].op # "none" /\ thread[p].op \in Operations /\ thread[p].at \in PlacesOf(thread[p].op)
<1>1. thread[p].op # "none"
  BY DEF Control, ThreadsInPlace, Idle
<1>2. thread[p] \in ThreadStates
  BY StateSets DEF Control
<1> QED BY <1>1, <1>2 DEF Control, ThreadsInPlace, ThreadStates

LEMMA LockFrontStep ==
  ASSUME Control, NEW s, ListInv(s), NEW p \in Threads, Locked!LockFront(p)
  PROVE  Control' /\ Outcome(s, p)
<1>1. /\ thread[p].at = "called" /\ lock["head"] = Nobody
      /\ lock' = [lock EXCEPT !["head"] = p]
      /\ thread' = [thread EXCEPT ![p].at = "back"]
      /\ UNCHANGED <<use, head, tail, node, heap, calls>>
  BY DEF Locked!LockFront, Locked!Lock, Locked!Goes
<1>2. thread \in [Threads -> ThreadStates] /\ lock \in [{"head", "tail"} -> Threads \cup {Nobody}]
  BY StateSets DEF Control
<1>3. Moves(p, "back") /\ Keeps(p)
  <2>1. "back" \in Places
    BY DEF Places
  <2> QED BY <1>1, <1>2, <2>1, GoesFacts
<1>4. lock' \in [{"head", "tail"} -> Threads \cup {Nobody}] /\ lock'["head"] = p /\ lock'["tail"] = lock["tail"]
  BY <1>1, <1>2
<1>5. TypeOK' /\ use'.list = "mutex" /\ KeepsData
  BY <1>1, <1>3, <1>4, LockTypes
<1>6. thread[p].op # "none"
  BY <1>1, InCall
<1>7. ThreadsInPlace'
  BY <1>3, <1>6 DEF Control, ThreadsInPlace, Moves, OthersStay, PlacesOf
<1>8. LocksInPlace'
  <2> SUFFICES ASSUME NEW q \in Threads, q # p
               PROVE  /\ thread[q].at \in {"back", "look"} \/ (thread[q].at = "write" /\ thread[q].op = "pop_front")
                           => FALSE
                      /\ thread[q].at = "look" \/ (thread[q].at \in {"write", "write2", "write3"}
                                                   /\ thread[q].op # "pop_front")
                           => lock["tail"] = q
                      /\ thread[q].at = "unlock" => lock["tail"] = q
    BY <1>3, <1>4 DEF LocksInPlace, Moves, OthersStay
  <2>1. lock["head"] # q
    BY <1>1, NobodyAssumption
  <2> QED BY <2>1 DEF Control, LocksInPlace
<1>9. OneWorks'
  BY <1>1, <1>3 DEF Control, OneWorks, Works, Moves, OthersStay
<1>10. Control'
  BY <1>5, <1>7, <1>8, <1>9 DEF Control
<1>11. ~Done(p) /\ ~Done(p)'
  BY <1>1, <1>3, <1>7, DoneFacts DEF Control, ThreadsInPlace, Moves, Done, OthersStay
<1>12. ListInv(s)'
  BY <1>1, <1>3, <1>6, <1>7, <1>11, QuietMove DEF LeavesEnd
<1>13. Steady(s, p)
  BY <1>3, <1>5, <1>11, <1>12 DEF Steady, Moves, Keeps
<1> QED BY <1>10, <1>13 DEF Outcome

LEMMA LockBackStep ==
  ASSUME Control, NEW s, ListInv(s), NEW p \in Threads, Locked!LockBack(p)
  PROVE  Control' /\ Outcome(s, p)
<1>1. /\ thread[p].at = "back" /\ lock["tail"] = Nobody
      /\ lock' = [lock EXCEPT !["tail"] = p]
      /\ thread' = [thread EXCEPT ![p].at = "look"]
      /\ UNCHANGED <<use, head, tail, node, heap, calls>>
  BY DEF Locked!LockBack, Locked!Lock, Locked!Goes
<1>2. thread \in [Threads -> ThreadStates] /\ lock \in [{"head", "tail"} -> Threads \cup {Nobody}]
  BY StateSets DEF Control
<1>3. Moves(p, "look") /\ Keeps(p)
  <2>1. "look" \in Places
    BY DEF Places
  <2> QED BY <1>1, <1>2, <2>1, GoesFacts
<1>4. lock' \in [{"head", "tail"} -> Threads \cup {Nobody}] /\ lock'["tail"] = p /\ lock'["head"] = lock["head"]
  BY <1>1, <1>2
<1>5. TypeOK' /\ use'.list = "mutex" /\ KeepsData
  BY <1>1, <1>3, <1>4, LockTypes
<1>6. thread[p].op # "none"
  BY <1>1, InCall
<1>7. ThreadsInPlace'
  BY <1>3, <1>6 DEF Control, ThreadsInPlace, Moves, OthersStay, PlacesOf
<1>8. lock["head"] = p
  BY <1>1 DEF Control, LocksInPlace
<1>9. \A q \in Threads : q # p => ~Works(q)
  <2> SUFFICES ASSUME NEW q \in Threads, q # p, Works(q) PROVE FALSE
    OBVIOUS
  <2>1. lock["head"] # q /\ lock["tail"] # q
    BY <1>1, <1>8, NobodyAssumption
  <2> QED BY <2>1 DEF Control, ThreadsInPlace, PlacesOf, LocksInPlace, Works
<1>10. LocksInPlace'
  <2> SUFFICES ASSUME NEW q \in Threads, q # p
               PROVE  /\ thread[q].at \in {"back", "look"} \/ (thread[q].at = "write" /\ thread[q].op = "pop_front")
                           => lock["head"] = q
                      /\ thread[q].at = "look" \/ (thread[q].at \in {"write", "write2", "write3"}
                                                   /\ thread[q].op # "pop_front")
                           => FALSE
                      /\ thread[q].at = "unlock" => lock["head"] = q
    BY <1>3, <1>4, <1>8 DEF LocksInPlace, Moves, OthersStay
  <2>1. lock["tail"] # q
    BY <1>1, NobodyAssumption
  <2> QED BY <2>1 DEF Control, LocksInPlace
<1>11. OneWorks'
  BY <1>9, <1>3 DEF OneWorks, Works, Moves, OthersStay
<1>12. Control'
  BY <1>5, <1>7, <1>10, <1>11 DEF Control
<1>13. ~Done(p) /\ ~Done(p)'
  BY <1>1, <1>3, <1>7, DoneFacts DEF Control, ThreadsInPlace, Moves, Done, OthersStay
<1>14. ListInv(s)'
  BY <1>1, <1>3, <1>6, <1>7, <1>13, QuietMove DEF LeavesEnd
<1>15. Steady(s, p)
  BY <1>3, <1>5, <1>13, <1>14 DEF Steady, Moves, Keeps
<1> QED BY <1>12, <1>15 DEF Outcome

(* What a call sees under both mutexes.                                    *)
LEMMA LookFacts ==
  ASSUME Control, NEW s, ListInv(s), NEW p \in Threads, thread[p].at = "look"
  PROVE  /\ Len(s) \in Nat /\ s \in [1..Len(s) -> Nodes]
         /\ Works(p) /\ ~LeavesEnd(p) /\ ~Done(p)
         /\ thread[p].op # "none" /\ thread[p].op \in Operations
         /\ Locked!None <=> Len(s) = 0
         /\ Locked!One <=> Len(s) = 1
         /\ Locked!Two <=> Len(s) = 2
<1> PICK n \in 0..NumNodes : n = Len(s)
  BY LengthFacts DEF ListInv
<1>1. n \in Nat /\ s \in [1..n -> Nodes] /\ \A i \in 1..n : s[i] # Null
  BY LengthFacts, BoundsAssumption, Naturals DEF ListInv
<1>2. Works(p) /\ ~LeavesEnd(p) /\ ~Done(p) /\ thread[p].op # "none" /\ thread[p].op \in Operations
  BY InCall, DoneFacts DEF Control, Works, LeavesEnd
<1>3. \A q \in Threads : ~LeavesEnd(q)
  BY <1>2, OthersRest
<1>4. CASE n = 0
  <2>1. head.elem = Null
    BY <1>4 DEF ListInv, Linked
  <2> QED BY <1>1, <1>2, <1>4, <2>1 DEF Locked!None, Locked!One, Locked!Two, Locked!Null, Null
<1>5. CASE n = 1
  <2>1. head.elem = s[1] /\ node[s[1]].next = Null /\ s[1] # Null
    BY <1>1, <1>3, <1>5 DEF ListInv, Linked, EndIsLast
  <2> QED BY <1>1, <1>2, <1>5, <2>1 DEF Locked!None, Locked!One, Locked!Two, Locked!Null, Null
<1>6. CASE n > 1
  <2>1. 1 \in 1..n /\ 2 \in 1..n /\ n \in 1..n /\ 1 \in 1..(n - 1) /\ 1 + 1 = 2
    BY <1>1, <1>6
  <2>2. head.elem = s[1] /\ node[s[1]].next = s[2] /\ tail.elem = s[n]
    BY <1>6, <2>1 DEF ListInv, Linked
  <2>3. s[1] # Null /\ s[2] # Null
    BY <1>1, <2>1
  <2>4. s[2] = s[n] <=> n = 2
    BY <2>1 DEF ListInv, Linked
  <2> QED BY <1>1, <1>2, <1>6, <2>2, <2>3, <2>4 DEF Locked!None, Locked!One, Locked!Two, Locked!Null, Null
<1> QED BY <1>1, <1>4, <1>5, <1>6

LEMMA FindNothingStep ==
  ASSUME Control, NEW s, ListInv(s), NEW p \in Threads, Locked!FindNothing(p)
  PROVE  Control' /\ Outcome(s, p)
<1>1. /\ thread[p].at = "look" /\ thread[p].op # "push_back" /\ Locked!None
      /\ thread' = [thread EXCEPT ![p].at = "unlock"]
      /\ UNCHANGED <<use, head, tail, node, heap, lock, calls>>
  BY DEF Locked!FindNothing, Locked!Goes, Locked!memory
<1>2. thread \in [Threads -> ThreadStates] /\ lock \in [{"head", "tail"} -> Threads \cup {Nobody}]
  BY StateSets DEF Control
<1>3. Moves(p, "unlock") /\ Keeps(p)
  <2>1. "unlock" \in Places
    BY DEF Places
  <2> QED BY <1>1, <1>2, <2>1, GoesFacts
<1>4. TypeOK' /\ use'.list = "mutex" /\ KeepsData
  BY <1>1, <1>2, <1>3, LockTypes
<1>5. Len(s) = 0 /\ Works(p) /\ ~LeavesEnd(p) /\ ~Done(p) /\ thread[p].op # "none"
  BY <1>1, LookFacts
<1>6. (ThreadsInPlace /\ LocksInPlace /\ OneWorks)'
  <2>1. "unlock" \in PlacesOf(thread[p].op)
    BY DEF PlacesOf
  <2> QED BY <1>1, <1>3, <1>5, <2>1, MoveControl
<1>7. Control'
  BY <1>4, <1>6 DEF Control
<1>8. Done(p)'
  BY <1>3 DEF Moves, Done
<1>9. ListInv(s)'
  BY <1>1, <1>3, <1>5, <1>6, <1>8, QuietMove
<1>10. thread'[p].task = NoTask
  BY <1>1, <1>3, <1>5 DEF ListInv, EmptyHands, Keeps
<1>11. FindsNothing(s, p)
  BY <1>1, <1>3, <1>4, <1>5, <1>8, <1>9, <1>10 DEF FindsNothing, TakesEffect, Moves
<1> QED BY <1>7, <1>11 DEF Outcome

LEMMA GiveBackStep ==
  ASSUME Control, NEW s, ListInv(s), NEW p \in Threads, Locked!GiveBack(p)
  PROVE  Control' /\ Outcome(s, p)
<1> PICK end \in {"head", "tail"} : end = IF thread[p].op = "pop_front" THEN "tail" ELSE "head"
  OBVIOUS
<1>1. /\ thread[p].at = "look" /\ ~Locked!None /\ ~Locked!One
      /\ lock' = [lock EXCEPT ![end] = Nobody]
      /\ thread' = [thread EXCEPT ![p].at = "write"]
      /\ UNCHANGED <<use, head, tail, node, heap, calls>>
  BY DEF Locked!GiveBack, Locked!Goes, Locked!Unlock
<1>2. thread \in [Threads -> ThreadStates] /\ lock \in [{"head", "tail"} -> Threads \cup {Nobody}]
  BY StateSets DEF Control
<1>3. Moves(p, "write") /\ Keeps(p)
  <2>1. "write" \in Places
    BY DEF Places
  <2> QED BY <1>1, <1>2, <2>1, GoesFacts
<1>4. lock' \in [{"head", "tail"} -> Threads \cup {Nobody}] /\ \A d \in {"head", "tail"} : d # end => lock'[d] = lock[d]
  BY <1>1, <1>2
<1>5. TypeOK' /\ use'.list = "mutex" /\ KeepsData
  BY <1>1, <1>3, <1>4, LockTypes
<1>6. Len(s) \in Nat /\ Len(s) >= 2 /\ Works(p) /\ ~LeavesEnd(p) /\ ~Done(p) /\ thread[p].op # "none"
  <2> PICK n : n = Len(s)
    OBVIOUS
  <2>1. n \in Nat /\ n # 0 /\ n # 1
    BY <1>1, LookFacts
  <2>2. Works(p) /\ ~LeavesEnd(p) /\ ~Done(p) /\ thread[p].op # "none"
    BY <1>1, LookFacts
  <2>3. n >= 2
    BY <2>1
  <2> QED BY <2>1, <2>2, <2>3
<1>7. ThreadsInPlace'
  BY <1>3, <1>6 DEF Control, ThreadsInPlace, Moves, OthersStay, PlacesOf
<1>8. lock["head"] = p /\ lock["tail"] = p
  BY <1>1 DEF Control, LocksInPlace
<1>9. LocksInPlace'
  <2> SUFFICES ASSUME NEW q \in Threads
               PROVE  /\ thread'[q].at \in {"back", "look"} \/ (thread'[q].at = "write" /\ thread'[q].op = "pop_front")
                           => lock'["head"] = q
                      /\ thread'[q].at = "look" \/ (thread'[q].at \in {"write", "write2", "write3"}
                                                    /\ thread'[q].op # "pop_front")
                           => lock'["tail"] = q
                      /\ thread'[q].at = "unlock" => lock'["head"] = q \/ lock'["tail"] = q
    BY DEF LocksInPlace
  <2>1. CASE q = p
    BY <1>3, <1>4, <1>8, <2>1 DEF Moves
  <2>2. CASE q # p
    <3>1. lock["head"] # q /\ lock["tail"] # q
      BY <1>8, <2>2
    <3> QED BY <1>3, <2>2, <3>1 DEF Control, LocksInPlace, Moves, OthersStay
  <2> QED BY <2>1, <2>2
<1>10. OneWorks'
  BY <1>3, <1>6 DEF Control, OneWorks, Works, Moves, OthersStay
<1>11. Control'
  BY <1>5, <1>7, <1>9, <1>10 DEF Control
<1>12. ~Done(p)'
  BY <1>3, <1>7, <1>6 DEF Moves, Done, ThreadsInPlace
<1>13. ListInv(s)'
  BY <1>1, <1>3, <1>6, <1>7, <1>12, QuietMove
<1>14. Steady(s, p)
  BY <1>3, <1>5, <1>6, <1>12, <1>13 DEF Steady, Moves, Keeps
<1> QED BY <1>11, <1>14 DEF Outcome

LEMMA ReleaseStep ==
  ASSUME Control, NEW s, ListInv(s), NEW p \in Threads, Locked!Release(p)
  PROVE  Control' /\ Outcome(s, p)
<1> PICK end \in {"head", "tail"} : end = IF lock["tail"] = p THEN "tail" ELSE "head"
  OBVIOUS
<1>1. /\ thread[p].at = "unlock"
      /\ lock' = [lock EXCEPT ![end] = Nobody]
      /\ UNCHANGED <<use, head, tail, node, heap, calls>>
  BY DEF Locked!Release, Locked!Unlock
<1>2. thread \in [Threads -> ThreadStates] /\ lock \in [{"head", "tail"} -> Threads \cup {Nobody}]
  BY StateSets DEF Control
<1>3. lock' \in [{"head", "tail"} -> Threads \cup {Nobody}] /\ \A d \in {"head", "tail"} : d # end => lock'[d] = lock[d]
  BY <1>1, <1>2
<1>4. lock["head"] = p \/ lock["tail"] = p
  BY <1>1 DEF Control, LocksInPlace
<1>5. PICK at \in {"unlock", "done"} :
          /\ thread' = [thread EXCEPT ![p].at = at]
          /\ at = "unlock" => lock["tail"] = p /\ lock["head"] = p
  <2>1. CASE lock["tail"] = p /\ lock["head"] = p
    <3>1. thread' = thread /\ thread = [thread EXCEPT ![p].at = "unlock"]
      BY <1>1, <1>2, <2>1 DEF Locked!Release, ThreadStates
    <3> QED BY <2>1, <3>1
  <2>2. CASE ~(lock["tail"] = p /\ lock["head"] = p)
    BY <2>2 DEF Locked!Release, Locked!Goes
  <2> QED BY <2>1, <2>2
<1>6. Moves(p, at) /\ Keeps(p)
  <2>1. at \in Places
    BY DEF Places
  <2> QED BY <1>2, <1>5, <2>1, GoesFacts
<1>7. TypeOK' /\ use'.list = "mutex" /\ KeepsData
  BY <1>1, <1>3, <1>6, LockTypes
<1>8. thread[p].op # "none"
  BY <1>1, InCall
<1>9. ThreadsInPlace'
  BY <1>6, <1>8 DEF Control, ThreadsInPlace, Moves, OthersStay, PlacesOf
<1>10. LocksInPlace'
  <2> SUFFICES ASSUME NEW q \in Threads
               PROVE  /\ thread'[q].at \in {"back", "look"} \/ (thread'[q].at = "write" /\ thread'[q].op = "pop_front")
                           => lock'["head"] = q
                      /\ thread'[q].at = "look" \/ (thread'[q].at \in {"write", "write2", "write3"}
                                                    /\ thread'[q].op # "pop_front")
                           => lock'["tail"] = q
                      /\ thread'[q].at = "unlock" => lock'["head"] = q \/ lock'["tail"] = q
    BY DEF LocksInPlace
  <2>1. CASE q = p
    BY <1>3, <1>5, <1>6, <2>1 DEF Moves
  <2>2. CASE q # p
    <3>1. \A d \in {"head", "tail"} : lock[d] = q => lock'[d] = q
      BY <1>3, <1>4, <2>2
    <3> QED BY <1>6, <2>2, <3>1 DEF Control, LocksInPlace, Moves, OthersStay
  <2> QED BY <2>1, <2>2
<1>11. OneWorks'
  BY <1>6 DEF Control, OneWorks, Works, Moves, OthersStay
<1>12. Control'
  BY <1>7, <1>9, <1>10, <1>11 DEF Control
<1>13. Done(p) /\ Done(p)' /\ ~LeavesEnd(p)
  BY <1>1, <1>6 DEF Moves, Done, LeavesEnd
<1>14. ListInv(s)'
  BY <1>1, <1>6, <1>8, <1>9, <1>13, QuietMove
<1>15. Steady(s, p)
  BY <1>6, <1>7, <1>13, <1>14 DEF Steady, Moves, Keeps
<1> QED BY <1>12, <1>15 DEF Outcome

-----------------------------------------------------------------------------
(* The steps of the one who works. *)

LEMMA WorkControl ==
  ASSUME Control, NEW p \in Threads, Works(p), NEW at, Moves(p, at), at \in PlacesOf(thread[p].op),
         at = "unlock" \/ (at \in {"write2", "write3"} /\ thread[p].at # "look"),
         UNCHANGED <<use, heap, lock, calls>>,
         node' \in [Nodes -> Cells],
         head' \in [elem : Pointer, next : Pointer], tail' \in [elem : Pointer, prev : Pointer]
  PROVE  Control'
<1>1. thread[p].op # "none"
  BY InCall DEF Works
<1>2. (ThreadsInPlace /\ LocksInPlace /\ OneWorks)'
  BY <1>1, MoveControl DEF Works
<1>3. TypeOK /\ use.list = "mutex"
  BY DEF Control
<1>4. TypeOK'
  BY <1>3, StateSets, TypesKept DEF Moves
<1> QED BY <1>2, <1>3, <1>4 DEF Control

LEMMA NotEmpty ==
  ASSUME NEW S, NEW s \in Seq(S), Len(s) # 0
  PROVE  s # <<>>
  BY EmptySeq

(* A member of an element is set.                                          *)
SetsNext(N, M, x, y) == M = [N EXCEPT ![x].next = y]
SetsPrev(N, M, x, y) == M = [N EXCEPT ![x].prev = y]

LEMMA SetNext ==
  ASSUME NEW N \in [Nodes -> Cells], NEW x \in Nodes, NEW y \in Pointer, NEW M,
         SetsNext(N, M, x, y)
  PROVE  /\ M \in [Nodes -> Cells]
         /\ M[x].prev = N[x].prev /\ M[x].next = y /\ M[x].data = N[x].data
         /\ \A z \in Nodes : z # x => M[z] = N[z]
<1>1. N[x] \in Cells /\ M[x] = [N[x] EXCEPT !.next = y] /\ M = [N EXCEPT ![x] = M[x]]
  BY DEF SetsNext
<1>2. M[x] = [prev |-> N[x].prev, next |-> y, data |-> N[x].data] /\ M[x] \in Cells
  BY <1>1 DEF Cells
<1> QED BY <1>1, <1>2

LEMMA SetPrev ==
  ASSUME NEW N \in [Nodes -> Cells], NEW x \in Nodes, NEW y \in Pointer, NEW M,
         SetsPrev(N, M, x, y)
  PROVE  /\ M \in [Nodes -> Cells]
         /\ M[x].prev = y /\ M[x].next = N[x].next /\ M[x].data = N[x].data
         /\ \A z \in Nodes : z # x => M[z] = N[z]
<1>1. N[x] \in Cells /\ M[x] = [N[x] EXCEPT !.prev = y] /\ M = [N EXCEPT ![x] = M[x]]
  BY DEF SetsPrev
<1>2. M[x] = [prev |-> y, next |-> N[x].next, data |-> N[x].data] /\ M[x] \in Cells
  BY <1>1 DEF Cells
<1> QED BY <1>1, <1>2

(* What p may read and write when the list is s.                           *)
LEMMA WorkFacts ==
  ASSUME Control, NEW s, ListInv(s), NEW p \in Threads
  PROVE  /\ node \in [Nodes -> Cells]
         /\ head \in [elem : Pointer, next : Pointer] /\ tail \in [elem : Pointer, prev : Pointer]
         /\ thread \in [Threads -> ThreadStates]
         /\ Len(s) \in Nat /\ s \in [1..Len(s) -> Nodes]
         /\ Len(s) > 0 => /\ head.elem = s[1] /\ tail.elem = s[Len(s)]
                          /\ s[1] \in Nodes /\ s[Len(s)] \in Nodes
         /\ Len(s) > 1 => /\ node[s[1]].next = s[2] /\ s[2] \in Nodes
                          /\ node[s[Len(s)]].prev = s[Len(s) - 1] /\ s[Len(s) - 1] \in Nodes
                          /\ s[Len(s) - 1] # s[Len(s)]
         /\ Nodes \subseteq Pointer /\ Null \in Pointer
         /\ thread[p].op = "push_back" /\ ~Done(p) =>
              /\ thread[p].node \in Nodes /\ thread[p].node \in heap
              /\ node[thread[p].node].next = Null /\ node[thread[p].node].data = thread[p].task
              /\ \A i \in 1..Len(s) : s[i] # thread[p].node
<1> PICK n \in 0..NumNodes : n = Len(s)
  BY LengthFacts DEF ListInv
<1>1. n \in Nat /\ s \in [1..n -> Nodes]
  BY LengthFacts, BoundsAssumption DEF ListInv
<1>2. /\ node \in [Nodes -> Cells] /\ thread \in [Threads -> ThreadStates]
      /\ head \in [elem : Pointer, next : Pointer] /\ tail \in [elem : Pointer, prev : Pointer]
  BY StateSets DEF Control
<1>3. n > 0 => /\ head.elem = s[1] /\ tail.elem = s[n]
               /\ s[1] \in Nodes /\ s[n] \in Nodes
  BY <1>1 DEF ListInv, Linked
<1>4. ASSUME n > 1
      PROVE  /\ node[s[1]].next = s[2] /\ s[2] \in Nodes
             /\ node[s[n]].prev = s[n - 1] /\ s[n - 1] \in Nodes /\ s[n - 1] # s[n]
  <2>1. /\ 1 \in 1..(n - 1) /\ 1 + 1 = 2 /\ 2 \in 1..n
        /\ n - 1 \in 1..(n - 1) /\ (n - 1) + 1 = n /\ n - 1 \in 1..n /\ n \in 1..n /\ n # n - 1
    BY <1>1, <1>4
  <2>2. \A i \in 1..(n - 1) : node[s[i]].next = s[i + 1] /\ node[s[i + 1]].prev = s[i]
    BY DEF ListInv, Linked
  <2>3. \A i, j \in 1..n : s[i] = s[j] => i = j
    BY DEF ListInv, Linked
  <2> QED BY <1>1, <2>1, <2>2, <2>3
<1>5. ASSUME thread[p].op = "push_back", ~Done(p)
      PROVE  /\ thread[p].node \in Nodes /\ thread[p].node \in heap
             /\ node[thread[p].node].next = Null /\ node[thread[p].node].data = thread[p].task
             /\ \A i \in 1..n : s[i] # thread[p].node
  <2>1. /\ thread[p].node \in Nodes /\ node[thread[p].node].next = Null
        /\ node[thread[p].node].data = thread[p].task
    BY <1>5 DEF ListInv, NewElements
  <2>2. thread[p].node \in Brings(p)
    BY <1>5, <2>1, Naturals DEF Brings
  <2> QED BY <2>1, <2>2 DEF ListInv, Owned
<1> QED BY <1>1, <1>2, <1>3, <1>4, <1>5 DEF Pointer

LEMMA PushToNoneStep ==
  ASSUME Control, NEW s, ListInv(s), NEW p \in Threads, Locked!PushToNone(p)
  PROVE  Control' /\ Outcome(s, p)
<1> PICK e : e = thread[p].node
  OBVIOUS
<1>1. /\ thread[p].at = "look" /\ thread[p].op = "push_back" /\ Locked!None
      /\ head' = [head EXCEPT !.elem = e] /\ tail' = [tail EXCEPT !.elem = e]
      /\ thread' = [thread EXCEPT ![p].at = "unlock"]
      /\ UNCHANGED <<use, node, heap, lock, calls>>
  BY DEF Locked!PushToNone, Locked!Put, Locked!Goes
<1>2. Len(s) = 0 /\ Works(p) /\ ~Done(p)
  BY <1>1, LookFacts
<1>3. /\ e \in Nodes /\ e \in heap /\ node[e].next = Null /\ node[e].data = thread[p].task /\ e \in Pointer
      /\ thread \in [Threads -> ThreadStates]
  BY <1>1, <1>2, WorkFacts
<1>4. Moves(p, "unlock") /\ Keeps(p)
  <2>1. "unlock" \in Places
    BY DEF Places
  <2> QED BY <1>1, <1>3, <2>1, GoesFacts
<1>5. /\ head' \in [elem : Pointer, next : Pointer] /\ tail' \in [elem : Pointer, prev : Pointer]
      /\ head'.elem = e /\ tail'.elem = e /\ node' \in [Nodes -> Cells]
  BY <1>1, <1>3, WorkFacts
<1>6. Control'
  <2>1. "unlock" \in PlacesOf(thread[p].op)
    BY DEF PlacesOf
  <2> QED BY <1>1, <1>2, <1>4, <1>5, <2>1, WorkControl
<1>7. ListInv(Append(s, e))'
  <2>1. ThreadsInPlace'
    BY <1>6 DEF Control
  <2>2. head'.elem = IF Len(s) = 0 THEN e ELSE head.elem
    BY <1>2, <1>5
  <2>3. /\ \A x \in Nodes : x # e /\ x # tail.elem => node'[x] = node[x]
        /\ node'[e].next = Null /\ ~(Len(s) > 0)
    BY <1>1, <1>2, <1>3
  <2>4. UNCHANGED heap /\ thread[p].op = "push_back"
    BY <1>1
  <2> QED BY <1>2, <1>4, <1>5, <2>1, <2>2, <2>3, <2>4, AppendStep
<1>8. Pushes(s, p)
  <2>1. Done(p)'
    BY <1>4 DEF Moves, Done
  <2> QED BY <1>1, <1>2, <1>3, <1>4, <1>7, <2>1 DEF Pushes, TakesEffect, KeepsData, Moves, Keeps
<1> QED BY <1>6, <1>8 DEF Outcome

LEMMA PushToOneStep ==
  ASSUME Control, NEW s, ListInv(s), NEW p \in Threads, Locked!PushToOne(p)
  PROVE  Control' /\ Outcome(s, p)
<1> PICK e : e = thread[p].node
  OBVIOUS
<1>1. /\ thread[p].at = "look" /\ thread[p].op = "push_back" /\ Locked!One
      /\ head' = head /\ tail' = [tail EXCEPT !.elem = e]
      /\ node' = [node EXCEPT ![e].prev = head.elem, ![head.elem].next = e]
      /\ thread' = [thread EXCEPT ![p].at = "unlock"]
      /\ UNCHANGED <<use, heap, lock, calls>>
  BY DEF Locked!PushToOne, Locked!Put, Locked!Goes
<1>2. Len(s) = 1 /\ Works(p) /\ ~Done(p)
  BY <1>1, LookFacts
<1>3. /\ e \in Nodes /\ e \in heap /\ node[e].next = Null /\ node[e].data = thread[p].task /\ e \in Pointer
      /\ thread \in [Threads -> ThreadStates] /\ node \in [Nodes -> Cells]
  BY <1>1, <1>2, WorkFacts
<1>4. Moves(p, "unlock") /\ Keeps(p)
  <2>1. "unlock" \in Places
    BY DEF Places
  <2> QED BY <1>1, <1>3, <2>1, GoesFacts
<1> PICK x : x = s[1]
  OBVIOUS
<1>5. x \in Nodes /\ x \in Pointer /\ x # e /\ head.elem = x /\ tail.elem = x /\ s[Len(s)] = x
  BY <1>1, <1>2, <1>3, WorkFacts
<1>6. /\ node' \in [Nodes -> Cells]
      /\ node'[e].prev = x /\ node'[e].next = node[e].next /\ node'[e].data = node[e].data
      /\ node'[x].next = e /\ node'[x].prev = node[x].prev /\ node'[x].data = node[x].data
      /\ \A z \in Nodes : z # e /\ z # x => node'[z] = node[z]
  <2> PICK M : M = node'
    OBVIOUS
  <2> PICK N : SetsPrev(node, N, e, x) /\ SetsNext(N, M, x, e)
    BY <1>1, <1>5 DEF SetsPrev, SetsNext
  <2>1. /\ N \in [Nodes -> Cells]
        /\ N[e].prev = x /\ N[e].next = node[e].next /\ N[e].data = node[e].data
        /\ \A z \in Nodes : z # e => N[z] = node[z]
    BY <1>3, <1>5, SetPrev
  <2>2. N \in [Nodes -> Cells] /\ x \in Nodes /\ e \in Pointer
    BY <1>3, <1>5, <2>1
  <2>3. /\ M \in [Nodes -> Cells]
        /\ M[x].prev = N[x].prev /\ M[x].next = e /\ M[x].data = N[x].data
        /\ \A z \in Nodes : z # x => M[z] = N[z]
    BY <2>2, SetNext
  <2>4. N[x] = node[x] /\ node'[e] = N[e]
    BY <1>3, <1>5, <2>1, <2>3
  <2>5. /\ node'[e].prev = x /\ node'[e].next = node[e].next /\ node'[e].data = node[e].data
    BY <2>1, <2>4
  <2>6. /\ node'[x].next = e /\ node'[x].prev = node[x].prev /\ node'[x].data = node[x].data
    BY <2>3, <2>4
  <2> QED BY <2>1, <2>3, <2>5, <2>6
<1>7. /\ head' \in [elem : Pointer, next : Pointer] /\ tail' \in [elem : Pointer, prev : Pointer]
      /\ tail'.elem = e
  BY <1>1, <1>3, WorkFacts
<1>8. Control'
  <2>1. "unlock" \in PlacesOf(thread[p].op)
    BY DEF PlacesOf
  <2> QED BY <1>1, <1>2, <1>4, <1>6, <1>7, <2>1, WorkControl
<1>9. ListInv(Append(s, e))'
  <2>1. ThreadsInPlace'
    BY <1>8 DEF Control
  <2>2. head'.elem = IF Len(s) = 0 THEN e ELSE head.elem
    BY <1>1, <1>2
  <2>3. /\ \A z \in Nodes : z # e /\ z # tail.elem => node'[z] = node[z]
        /\ node'[e].next = Null
    BY <1>3, <1>5, <1>6
  <2>4. /\ node'[e].prev = s[Len(s)] /\ node'[s[Len(s)]].next = e
        /\ node'[s[Len(s)]].prev = node[s[Len(s)]].prev
    BY <1>5, <1>6
  <2>5. UNCHANGED heap /\ thread[p].op = "push_back"
    BY <1>1
  <2> QED BY <1>2, <1>4, <1>7, <2>1, <2>2, <2>3, <2>4, <2>5, AppendStep
<1>10. KeepsData
  <2>1. heap \subseteq Nodes
    BY StateSets DEF Control
  <2> QED BY <1>6, <2>1 DEF KeepsData
<1>11. Pushes(s, p)
  <2>1. Done(p)'
    BY <1>4 DEF Moves, Done
  <2> QED BY <1>1, <1>2, <1>3, <1>4, <1>9, <1>10, <2>1 DEF Pushes, TakesEffect, Moves, Keeps
<1> QED BY <1>8, <1>11 DEF Outcome

(* What TakingFacts gives for an element of the list.                      *)
LEMMA Takes ==
  ASSUME Control, NEW s, ListInv(s), NEW p \in Threads, NEW x \in Nodes, NEW at \in {"unlock", "write2"},
         thread' = [thread EXCEPT ![p].at = at, ![p].node = x, ![p].task = node[x].data]
  PROVE  Moves(p, at) /\ thread'[p].node = x /\ thread'[p].task = node[x].data
<1>1. node[x] \in Cells
  BY WorkFacts
<1> PICK d : d = node[x].data
  OBVIOUS
<1>2. d \in Tasks \cup {NoTask} /\ at \in Places
  BY <1>1 DEF Cells, Places
<1>3. TakesWith(p, at, x, d)
  BY DEF TakesWith
<1>4. thread \in [Threads -> ThreadStates]
  BY WorkFacts
<1> QED BY <1>2, <1>3, <1>4, TakingFacts

LEMMA PopOneStep ==
  ASSUME Control, NEW s, ListInv(s), NEW p \in Threads, Locked!PopOne(p)
  PROVE  Control' /\ Outcome(s, p)
<1> PICK x : x = head.elem
  OBVIOUS
<1>1. /\ thread[p].at = "look" /\ thread[p].op # "push_back" /\ Locked!One
      /\ head' = [head EXCEPT !.elem = Null] /\ tail' = [tail EXCEPT !.elem = Null]
      /\ thread' = [thread EXCEPT ![p].at = "unlock", ![p].node = x, ![p].task = node[x].data]
      /\ UNCHANGED <<use, node, heap, lock, calls>>
  BY DEF Locked!PopOne, Locked!PutTaking, Locked!Null, Null
<1>2. Len(s) = 1 /\ Works(p) /\ ~Done(p) /\ thread[p].op \in Operations
  BY <1>1, LookFacts
<1>3. x \in Nodes /\ x = s[1]
  BY <1>2, WorkFacts
<1>4. Moves(p, "unlock") /\ thread'[p].node = x /\ thread'[p].task = node[x].data
  BY <1>1, <1>3, Takes
<1>5. /\ head' \in [elem : Pointer, next : Pointer] /\ tail' \in [elem : Pointer, prev : Pointer]
      /\ head'.elem = Null /\ tail'.elem = Null /\ node' \in [Nodes -> Cells]
  BY <1>1, WorkFacts
<1>6. Control'
  <2>1. "unlock" \in PlacesOf(thread[p].op)
    BY DEF PlacesOf
  <2> QED BY <1>1, <1>2, <1>4, <1>5, <2>1, WorkControl
<1>7. ListInv(Tail(s))'
  <2>1. Len(s) >= 1 /\ thread'[p].node = s[1] /\ UNCHANGED <<node, heap>>
    BY <1>1, <1>2, <1>3, <1>4
  <2>2. /\ head'.elem = IF Len(s) = 1 THEN Null ELSE s[2]
        /\ tail'.elem = IF Len(s) = 1 THEN Null ELSE tail.elem
    BY <1>2, <1>5
  <2> QED BY <1>1, <1>2, <1>4, <2>1, <2>2, PopFrontStep
<1>8. Tail(s) = SubSeq(s, 1, Len(s) - 1)
  <2>1. s \in Seq(Nodes) /\ s # <<>>
    <3>1. s \in Seq(Nodes)
      BY DEF ListInv, Linked
    <3>2. Len(s) # 0
      BY <1>2
    <3> QED BY <3>1, <3>2, NotEmpty
  <2>2. Tail(s) \in Seq(Nodes) /\ Len(Tail(s)) = 0
    BY <1>2, <2>1, HeadTailProperties
  <2>3. Tail(s) = <<>>
    BY <2>2, EmptySeq
  <2>4. SubSeq(s, 1, 0) = <<>>
    <3>1. 1 \in Int /\ 0 \in Int /\ 0 < 1
      OBVIOUS
    <3> QED BY <3>1, SubSeqEmpty
  <2> QED BY <1>2, <2>3, <2>4
<1>9. ASSUME NEW o, thread[p].op = o PROVE TakesEffect(p, o, node[x].data)
  <2>1. Done(p)'
    BY <1>4 DEF Moves, Done
  <2> QED BY <1>1, <1>2, <1>4, <1>9, <2>1 DEF TakesEffect, KeepsData, Moves
<1>10. CASE thread[p].op = "pop_front"
  <2>1. PopsFront(s, p)
    BY <1>2, <1>3, <1>7, <1>9, <1>10 DEF PopsFront
  <2> QED BY <1>6, <2>1 DEF Outcome
<1>11. CASE thread[p].op = "pop_back"
  <2>1. x = s[Len(s)] /\ ListInv(SubSeq(s, 1, Len(s) - 1))'
    BY <1>2, <1>3, <1>7, <1>8
  <2>2. PopsBack(s, p)
    BY <1>2, <1>9, <1>11, <2>1 DEF PopsBack
  <2> QED BY <1>6, <2>2 DEF Outcome
<1> QED BY <1>1, <1>2, <1>10, <1>11 DEF Operations

LEMMA PopBackTwoStep ==
  ASSUME Control, NEW s, ListInv(s), NEW p \in Threads, Locked!PopBackTwo(p)
  PROVE  Control' /\ Outcome(s, p)
<1> PICK x : x = tail.elem
  OBVIOUS
<1> PICK y : y = head.elem
  OBVIOUS
<1> PICK M : M = node'
  OBVIOUS
<1>1. /\ thread[p].at = "look" /\ thread[p].op = "pop_back" /\ Locked!Two
      /\ head' = head /\ tail' = [tail EXCEPT !.elem = y]
      /\ SetsNext(node, M, y, Null)
      /\ thread' = [thread EXCEPT ![p].at = "unlock", ![p].node = x, ![p].task = node[x].data]
      /\ UNCHANGED <<use, heap, lock, calls>>
  BY DEF Locked!PopBackTwo, Locked!PutTaking, Locked!Null, Null, SetsNext
<1>2. Len(s) = 2 /\ Works(p) /\ ~Done(p)
  BY <1>1, LookFacts
<1>3. x \in Nodes /\ x = s[2] /\ y \in Nodes /\ y = s[1] /\ y \in Pointer /\ Null \in Pointer
  <2>1. Len(s) > 0
    BY <1>2
  <2> QED BY <1>2, <2>1, WorkFacts
<1>4. Moves(p, "unlock") /\ thread'[p].node = x /\ thread'[p].task = node[x].data
  BY <1>1, <1>3, Takes
<1>5. /\ head' \in [elem : Pointer, next : Pointer] /\ tail' \in [elem : Pointer, prev : Pointer]
      /\ tail'.elem = y
  BY <1>1, <1>3, WorkFacts
<1>6. /\ M \in [Nodes -> Cells]
      /\ M[y].prev = node[y].prev /\ M[y].next = Null /\ M[y].data = node[y].data
      /\ \A z \in Nodes : z # y => M[z] = node[z]
  <2>1. node \in [Nodes -> Cells]
    BY WorkFacts
  <2> QED BY <1>1, <1>3, <2>1, SetNext
<1>7. Control'
  <2>1. "unlock" \in PlacesOf(thread[p].op)
    BY DEF PlacesOf
  <2> QED BY <1>1, <1>2, <1>4, <1>5, <1>6, <2>1, WorkControl
<1>8. ListInv(SubSeq(s, 1, Len(s) - 1))'
  <2>1. Len(s) >= 2 /\ thread'[p].node = s[Len(s)] /\ UNCHANGED <<head, heap>> /\ Len(s) - 1 = 1
    BY <1>1, <1>2, <1>3, <1>4
  <2>2. tail'.elem = s[Len(s) - 1]
    BY <1>3, <1>5, <2>1
  <2>3. \A z \in Nodes : z # s[Len(s) - 1] => node'[z] = node[z]
    BY <1>3, <1>6, <2>1
  <2>4. node'[s[Len(s) - 1]].prev = node[s[Len(s) - 1]].prev /\ node'[s[Len(s) - 1]].next = Null
    BY <1>3, <1>6, <2>1
  <2>5. ThreadsInPlace'
    BY <1>7 DEF Control
  <2> QED BY <1>1, <1>2, <1>4, <2>1, <2>2, <2>3, <2>4, <2>5, PopBackStep
<1>9. KeepsData
  <2>1. heap \subseteq Nodes
    BY StateSets DEF Control
  <2> QED BY <1>6, <2>1 DEF KeepsData
<1>10. PopsBack(s, p)
  <2>1. Done(p)'
    BY <1>4 DEF Moves, Done
  <2> QED BY <1>1, <1>2, <1>3, <1>4, <1>8, <1>9, <2>1 DEF PopsBack, TakesEffect, Moves
<1> QED BY <1>7, <1>10 DEF Outcome

LEMMA WritePushStep ==
  ASSUME Control, NEW s, ListInv(s), NEW p \in Threads, Locked!Write(p), thread[p].op = "push_back"
  PROVE  Control' /\ Outcome(s, p)
<1> PICK e : e = thread[p].node
  OBVIOUS
<1> PICK last : last = tail.elem
  OBVIOUS
<1> PICK n : n = Len(s)
  OBVIOUS
<1> PICK M : M = node'
  OBVIOUS
<1>1. thread[p].at \in {"write", "write2", "write3"} /\ UNCHANGED <<use, head, heap, lock, calls>>
  BY DEF Locked!Write, Locked!Put, Locked!PutTaking, Locked!Goes
<1>2. Works(p) /\ ~Done(p) /\ n \in Nat /\ n >= 1
  <2>1. Works(p) /\ ~Done(p)
    BY <1>1, DoneFacts DEF Control, Works
  <2>2. n \in Nat
    BY WorkFacts
  <2>3. n >= 2 \/ n >= 1
    BY <1>1 DEF ListInv, LongEnough
  <2> QED BY <2>1, <2>2, <2>3
<1>3. /\ e \in Nodes /\ e \in heap /\ node[e].next = Null /\ node[e].data = thread[p].task
      /\ e \in Pointer /\ last \in Nodes /\ last \in Pointer /\ last = s[n] /\ last # e
      /\ thread \in [Threads -> ThreadStates] /\ node \in [Nodes -> Cells]
  <2>1. n > 0 /\ n \in 1..n
    BY <1>2
  <2> QED BY <1>2, <2>1, WorkFacts
<1>4. heap \subseteq Nodes
  BY StateSets DEF Control
<1>5. CASE thread[p].at = "write"
  <2>1. /\ tail' = tail /\ SetsPrev(node, M, e, last)
        /\ thread' = [thread EXCEPT ![p].at = "write2"]
    BY <1>5 DEF Locked!Write, Locked!Put, Locked!Goes, SetsPrev
  <2>2. /\ M \in [Nodes -> Cells]
        /\ M[e].prev = last /\ M[e].next = node[e].next /\ M[e].data = node[e].data
        /\ \A z \in Nodes : z # e => M[z] = node[z]
    BY <1>3, <2>1, SetPrev
  <2>3. Moves(p, "write2") /\ Keeps(p)
    <3>1. "write2" \in Places
      BY DEF Places
    <3> QED BY <1>3, <2>1, <3>1, GoesFacts
  <2>4. Control'
    <3>1. "write2" \in PlacesOf(thread[p].op)
      BY DEF PlacesOf
    <3> QED BY <1>1, <1>2, <1>5, <2>1, <2>2, <2>3, <3>1, WorkFacts, WorkControl
  <2>5. ThreadsInPlace'
    BY <2>4 DEF Control
  <2>6. \A q \in Threads : ~LeavesEnd(q)
    <3>1. ~LeavesEnd(p)
      BY <1>5 DEF LeavesEnd
    <3> QED BY <1>2, <3>1, OthersRest
  <2>7. node'[s[n]].next = Null
    BY <1>2, <1>3, <2>2, <2>6 DEF ListInv, EndIsLast
  <2>8. ListInv(s)'
    <3>1. UNCHANGED <<head, tail, heap>>
      BY <1>1, <2>1
    <3>2. \A x \in Nodes : x # e => node'[x] = node[x]
      BY <2>2
    <3>3. node'[e].next = Null /\ node'[e].data = node[e].data /\ node'[e].prev = tail.elem
      BY <1>3, <2>2
    <3> QED BY <1>2, <1>3, <2>3, <2>5, <2>7, <3>1, <3>2, <3>3, WriteStep
  <2>9. ~Done(p)'
    BY <2>3, <2>5 DEF Done, Moves, ThreadsInPlace
  <2>10. KeepsData
    BY <1>3, <1>4, <2>2 DEF KeepsData
  <2>11. Steady(s, p)
    BY <1>2, <2>3, <2>8, <2>9, <2>10 DEF Steady, Moves, Keeps
  <2> QED BY <2>4, <2>11 DEF Outcome
<1>6. CASE thread[p].at = "write2"
  <2>1. /\ tail' = tail /\ SetsNext(node, M, last, e)
        /\ thread' = [thread EXCEPT ![p].at = "write3"]
    BY <1>6 DEF Locked!Write, Locked!Put, Locked!Goes, SetsNext
  <2>2. /\ M \in [Nodes -> Cells]
        /\ M[last].prev = node[last].prev /\ M[last].next = e /\ M[last].data = node[last].data
        /\ \A z \in Nodes : z # last => M[z] = node[z]
    BY <1>3, <2>1, SetNext
  <2>3. Moves(p, "write3") /\ Keeps(p)
    <3>1. "write3" \in Places
      BY DEF Places
    <3> QED BY <1>3, <2>1, <3>1, GoesFacts
  <2>4. Control'
    <3>1. "write3" \in PlacesOf(thread[p].op)
      BY DEF PlacesOf
    <3> QED BY <1>1, <1>2, <1>6, <2>1, <2>2, <2>3, <3>1, WorkFacts, WorkControl
  <2>5. ThreadsInPlace'
    BY <2>4 DEF Control
  <2>6. LeavesEnd(p)'
    BY <2>3 DEF LeavesEnd, Moves
  <2>7. node[e].prev = tail.elem
    BY <1>2, <1>6 DEF ListInv, NewElements
  <2>8. ListInv(s)'
    <3>1. UNCHANGED <<head, tail, heap>>
      BY <1>1, <2>1
    <3>2. \A x \in Nodes : x # last => node'[x] = node[x]
      BY <2>2
    <3>3. /\ node'[e].next = Null /\ node'[e].data = node[e].data /\ node'[e].prev = tail.elem
          /\ node'[tail.elem].next = e /\ node'[last].prev = node[last].prev
      BY <1>3, <2>2, <2>7
    <3> QED BY <1>2, <1>3, <2>3, <2>5, <2>6, <3>1, <3>2, <3>3, WriteStep
  <2>9. ~Done(p)'
    BY <2>3, <2>5 DEF Done, Moves, ThreadsInPlace
  <2>10. KeepsData
    BY <1>3, <1>4, <2>2 DEF KeepsData
  <2>11. Steady(s, p)
    BY <1>2, <2>3, <2>8, <2>9, <2>10 DEF Steady, Moves, Keeps
  <2> QED BY <2>4, <2>11 DEF Outcome
<1>7. CASE thread[p].at = "write3"
  <2>1. /\ tail' = [tail EXCEPT !.elem = e] /\ node' = node
        /\ thread' = [thread EXCEPT ![p].at = "unlock"]
    BY <1>7 DEF Locked!Write, Locked!Put, Locked!Goes
  <2>2. tail' \in [elem : Pointer, prev : Pointer] /\ tail'.elem = e
    BY <1>3, <2>1, WorkFacts
  <2>3. Moves(p, "unlock") /\ Keeps(p)
    <3>1. "unlock" \in Places
      BY DEF Places
    <3> QED BY <1>3, <2>1, <3>1, GoesFacts
  <2>4. Control'
    <3>1. "unlock" \in PlacesOf(thread[p].op)
      BY DEF PlacesOf
    <3> QED BY <1>1, <1>2, <1>3, <2>1, <2>2, <2>3, <3>1, WorkFacts, WorkControl
  <2>5. ThreadsInPlace'
    BY <2>4 DEF Control
  <2>6. node[e].prev = last /\ node[last].next = e
    BY <1>2, <1>7 DEF ListInv, NewElements
  <2>7. ListInv(Append(s, e))'
    <3>1. UNCHANGED heap /\ head'.elem = IF n = 0 THEN e ELSE head.elem
      BY <1>1, <1>2
    <3>2. \A x \in Nodes : x # e /\ x # tail.elem => node'[x] = node[x]
      BY <2>1
    <3>3. /\ node'[e].next = Null /\ node'[e].prev = s[n] /\ node'[s[n]].next = e
          /\ node'[s[n]].prev = node[s[n]].prev
      BY <1>3, <2>1, <2>6
    <3> QED BY <1>2, <2>2, <2>3, <2>5, <3>1, <3>2, <3>3, AppendStep
  <2>8. Pushes(s, p)
    <3>1. Done(p)'
      BY <2>3 DEF Moves, Done
    <3> QED BY <1>2, <1>3, <2>1, <2>3, <2>7, <3>1 DEF Pushes, TakesEffect, KeepsData, Moves, Keeps
  <2> QED BY <2>4, <2>8 DEF Outcome
<1> QED BY <1>1, <1>5, <1>6, <1>7

LEMMA WritePopStep ==
  ASSUME Control, NEW s, ListInv(s), NEW p \in Threads, Locked!Write(p), thread[p].op # "push_back"
  PROVE  Control' /\ Outcome(s, p)
<1> PICK n : n = Len(s)
  OBVIOUS
<1>1. \/ thread[p].op = "pop_front" /\ thread[p].at = "write"
      \/ thread[p].op = "pop_back" /\ thread[p].at \in {"write", "write2"}
  BY DEF Locked!Write
<1>2. thread[p].at = "write" => n >= 2 /\ ~Done(p)
  <2>1. Works(p) /\ (thread[p].at = "write" => ~Done(p))
    BY <1>1, DoneFacts DEF Control, Works
  <2> QED BY <2>1, WorkFacts DEF ListInv, LongEnough
<1>3. Works(p) /\ n \in Nat
  BY <1>1, WorkFacts DEF Works
<1>4. heap \subseteq Nodes
  BY StateSets DEF Control
<1>5. CASE thread[p].op = "pop_front" /\ thread[p].at = "write"
  <2> PICK x : x = head.elem
    OBVIOUS
  <2>1. n > 0 /\ n > 1 /\ n # 1 /\ n >= 1 /\ ~Done(p)
    BY <1>2, <1>3, <1>5
  <2>2. x \in Nodes /\ x = s[1] /\ node[x].next = s[2] /\ s[2] \in Pointer
    BY <2>1, WorkFacts
  <2>3. /\ head' = [head EXCEPT !.elem = node[x].next]
        /\ UNCHANGED <<use, tail, node, heap, lock, calls>>
        /\ thread' = [thread EXCEPT ![p].at = "unlock", ![p].node = x, ![p].task = node[x].data]
    BY <1>5 DEF Locked!Write, Locked!PutTaking
  <2>4. head' \in [elem : Pointer, next : Pointer] /\ head'.elem = s[2]
    BY <2>2, <2>3, WorkFacts
  <2>5. Moves(p, "unlock") /\ thread'[p].node = x /\ thread'[p].task = node[x].data
    BY <2>2, <2>3, Takes
  <2>6. Control'
    <3>1. "unlock" \in PlacesOf(thread[p].op)
      BY DEF PlacesOf
    <3> QED BY <1>3, <2>3, <2>4, <2>5, <3>1, WorkFacts, WorkControl
  <2>7. ListInv(Tail(s))'
    <3>1. Len(s) >= 1 /\ thread'[p].node = s[1] /\ UNCHANGED <<node, heap>>
      BY <2>1, <2>2, <2>3, <2>5
    <3>2. /\ head'.elem = IF Len(s) = 1 THEN Null ELSE s[2]
          /\ tail'.elem = IF Len(s) = 1 THEN Null ELSE tail.elem
      BY <2>1, <2>3, <2>4
    <3> QED BY <1>3, <1>5, <2>1, <2>5, <3>1, <3>2, PopFrontStep
  <2>8. PopsFront(s, p)
    <3>1. Done(p)'
      BY <2>5 DEF Moves, Done
    <3> QED BY <1>5, <2>1, <2>2, <2>3, <2>5, <2>7, <3>1 DEF PopsFront, TakesEffect, KeepsData, Moves
  <2> QED BY <2>6, <2>8 DEF Outcome
<1>6. CASE thread[p].op = "pop_back" /\ thread[p].at = "write"
  <2> PICK x : x = tail.elem
    OBVIOUS
  <2>1. n > 0 /\ n > 1 /\ n >= 2 /\ ~Done(p)
    BY <1>2, <1>3, <1>6
  <2>2. x \in Nodes /\ x = s[n] /\ node[x].prev = s[n - 1] /\ s[n - 1] \in Pointer
    BY <2>1, WorkFacts
  <2>3. /\ tail' = [tail EXCEPT !.elem = node[x].prev]
        /\ UNCHANGED <<use, head, node, heap, lock, calls>>
        /\ thread' = [thread EXCEPT ![p].at = "write2", ![p].node = x, ![p].task = node[x].data]
    BY <1>6 DEF Locked!Write, Locked!PutTaking
  <2>4. tail' \in [elem : Pointer, prev : Pointer] /\ tail'.elem = s[n - 1]
    BY <2>2, <2>3, WorkFacts
  <2>5. Moves(p, "write2") /\ thread'[p].node = x /\ thread'[p].task = node[x].data
    BY <2>2, <2>3, Takes
  <2>6. Control'
    <3>1. "write2" \in PlacesOf(thread[p].op)
      BY <1>6 DEF PlacesOf
    <3> QED BY <1>3, <1>6, <2>3, <2>4, <2>5, <3>1, WorkFacts, WorkControl
  <2>7. ListInv(SubSeq(s, 1, n - 1))'
    <3>1. thread'[p].node = s[n] /\ UNCHANGED <<head, heap>>
      BY <2>2, <2>3, <2>5
    <3>2. /\ \A z \in Nodes : z # s[n - 1] => node'[z] = node[z]
          /\ node'[s[n - 1]].prev = node[s[n - 1]].prev
      BY <2>3
    <3>3. ThreadsInPlace'
      BY <2>6 DEF Control
    <3> QED BY <1>3, <1>6, <2>1, <2>4, <2>5, <3>1, <3>2, <3>3, PopBackStep
  <2>8. PopsBack(s, p)
    <3>1. Done(p)'
      BY <1>6, <2>5 DEF Moves, Done
    <3> QED BY <1>6, <2>1, <2>2, <2>3, <2>5, <2>7, <3>1 DEF PopsBack, TakesEffect, KeepsData, Moves
  <2> QED BY <2>6, <2>8 DEF Outcome
<1>7. CASE thread[p].op = "pop_back" /\ thread[p].at = "write2"
  <2> PICK x : x = tail.elem
    OBVIOUS
  <2> PICK M : M = node'
    OBVIOUS
  <2>1. n >= 1 /\ n > 0
    <3>1. n >= 1
      BY <1>7 DEF ListInv, LongEnough
    <3> QED BY <1>3, <3>1
  <2>2. x \in Nodes /\ x = s[n] /\ Null \in Pointer /\ node \in [Nodes -> Cells] /\ thread \in [Threads -> ThreadStates]
    BY <2>1, WorkFacts
  <2>3. /\ SetsNext(node, M, x, Null)
        /\ UNCHANGED <<use, head, tail, heap, lock, calls>>
        /\ thread' = [thread EXCEPT ![p].at = "unlock"]
    BY <1>7 DEF Locked!Write, Locked!Put, Locked!Goes, Locked!Null, Null, SetsNext
  <2>4. /\ M \in [Nodes -> Cells]
        /\ M[x].prev = node[x].prev /\ M[x].next = Null /\ M[x].data = node[x].data
        /\ \A z \in Nodes : z # x => M[z] = node[z]
    BY <2>2, <2>3, SetNext
  <2>5. Moves(p, "unlock") /\ Keeps(p)
    <3>1. "unlock" \in Places
      BY DEF Places
    <3> QED BY <2>2, <2>3, <3>1, GoesFacts
  <2>6. Control'
    <3>1. "unlock" \in PlacesOf(thread[p].op)
      BY DEF PlacesOf
    <3> QED BY <1>3, <2>3, <2>4, <2>5, <3>1, WorkFacts, WorkControl
  <2>7. Done(p) /\ Done(p)'
    BY <1>7, <2>5 DEF Moves, Done
  <2>8. ListInv(s)'
    <3>1. ThreadsInPlace'
      BY <2>6 DEF Control
    <3>2. \A z \in Nodes : z # x => node'[z] = node[z]
      BY <2>4
    <3>3. node'[s[n]].next = Null /\ x = s[n] /\ node'[x].prev = node[x].prev
      BY <2>2, <2>4
    <3>4. UNCHANGED <<head, tail, heap>> /\ thread[p].op # "none"
      BY <1>7, <2>3
    <3> QED BY <1>3, <1>7, <2>1, <2>2, <2>5, <2>7, <3>1, <3>2, <3>3, <3>4, WriteStep
  <2>9. KeepsData
    BY <1>4, <2>4 DEF KeepsData
  <2>10. Steady(s, p)
    BY <2>5, <2>7, <2>8, <2>9 DEF Steady, Moves, Keeps
  <2> QED BY <2>6, <2>10 DEF Outcome
<1> QED BY <1>1, <1>5, <1>6, <1>7

-----------------------------------------------------------------------------
(* Calls and returns. *)

(* p enters or leaves a call.                                              *)
LEMMA BorderControl ==
  ASSUME Control, NEW p \in Threads, NEW r \in ThreadStates, thread' = [thread EXCEPT ![p] = r],
         r = Idle \/ (r.op # "none" /\ r.at = "called" /\ r.case = "none"),
         UNCHANGED <<use, head, tail, lock>>,
         node' \in [Nodes -> Cells], heap' \subseteq Nodes, calls' \in 0..MaxCalls
  PROVE  Control' /\ OthersStay(p) /\ thread'[p] = r
<1>1. TypeOK /\ use.list = "mutex"
  BY DEF Control
<1>2. thread \in [Threads -> ThreadStates]
  BY <1>1, StateSets
<1>3. thread' \in [Threads -> ThreadStates] /\ thread'[p] = r /\ OthersStay(p)
  BY <1>2 DEF OthersStay
<1>4. TypeOK'
  BY <1>1, <1>3, StateSets, TypesKept
<1>5. r.case = "none" /\ (r.op = "none" => r = Idle) /\ (r.op # "none" => r.at = "called") /\ r.at \in {"out", "called"}
  BY DEF Idle
<1>6. ThreadsInPlace'
  BY <1>3, <1>5 DEF Control, ThreadsInPlace, OthersStay, PlacesOf
<1>7. LocksInPlace'
  BY <1>3, <1>5 DEF Control, LocksInPlace, OthersStay
<1>8. OneWorks'
  BY <1>3, <1>5 DEF Control, OneWorks, OthersStay, Works
<1> QED BY <1>1, <1>3, <1>4, <1>6, <1>7, <1>8 DEF Control

LEMMA NewEndAndLength ==
  ASSUME NEW s, ListInv(s), NEW p \in Threads, OthersStay(p),
         thread[p].at \notin {"write2", "write3"},
         thread'[p].at \notin {"write", "write2", "write3"},
         \A i \in 1..Len(s) : node'[s[i]] = node[s[i]],
         UNCHANGED <<head, tail>>
  PROVE  (Linked(s) /\ EndIsLast(s) /\ LongEnough(s))'
<1> PICK n \in 0..NumNodes : n = Len(s)
  BY LengthFacts DEF ListInv
<1>1. n \in Nat
  BY BoundsAssumption
<1>2. Linked(s)'
  <2>1. \A i \in 1..(n - 1) : i \in 1..n /\ i + 1 \in 1..n
    BY <1>1
  <2> QED BY <2>1 DEF ListInv, Linked
<1>3. EndIsLast(s)'
  <2>1. n > 0 => n \in 1..n
    BY <1>1
  <2>2. \A q \in Threads : LeavesEnd(q) => LeavesEnd(q)'
    BY DEF LeavesEnd, OthersStay
  <2> QED BY <2>1, <2>2 DEF ListInv, EndIsLast
<1>4. LongEnough(s)'
  BY DEF ListInv, LongEnough, OthersStay
<1> QED BY <1>2, <1>3, <1>4

LEMMA CallPushStep ==
  ASSUME Control, NEW s, ListInv(s), NEW p \in Threads, CallPush(p)
  PROVE  Control' /\ Outcome(s, p)
<1> PICK x : x = Lowest(Nodes \ heap)
  OBVIOUS
<1> PICK t : t = Lowest(Tasks \ InUse)
  OBVIOUS
<1> PICK r : r = [Idle EXCEPT !.op = "push_back", !.at = "called", !.task = t, !.node = x]
  OBVIOUS
<1>1. /\ thread[p].op = "none" /\ heap # Nodes /\ Tasks \ InUse # {} /\ calls < MaxCalls
      /\ calls' = calls + 1 /\ heap' = heap \cup {x}
      /\ node' = [node EXCEPT ![x] = [prev |-> Null, next |-> Null, data |-> t]]
      /\ thread' = [thread EXCEPT ![p] = r]
      /\ UNCHANGED <<use, head, tail, lock>>
  BY DEF CallPush, Busy
<1>2. /\ node \in [Nodes -> Cells] /\ heap \subseteq Nodes /\ calls \in 0..MaxCalls
  BY StateSets DEF Control
<1>3. x \in Nodes /\ x \notin heap /\ x # Null
  <2>1. Nodes \ heap \in SUBSET Nat /\ Nodes \ heap # {}
    BY <1>1, <1>2, Naturals
  <2>2. x \in Nodes \ heap
    BY <2>1, LowestFacts
  <2> QED BY <2>2, Naturals
<1>4. t \in Tasks /\ t # NoTask
  <2>1. Tasks \ InUse \in SUBSET Nat
    BY Naturals
  <2>2. t \in Tasks \ InUse
    BY <1>1, <2>1, LowestFacts
  <2> QED BY <2>2, Naturals
<1>5. /\ r \in ThreadStates /\ r.op = "push_back" /\ r.at = "called" /\ r.case = "none" /\ r.task = t /\ r.node = x
  <2>1. r = [op |-> "push_back", at |-> "called", case |-> "none", task |-> t, node |-> x, reg |-> Null]
    BY DEF Idle
  <2>2. /\ "push_back" \in Operations \cup {"none"} /\ "called" \in Places /\ "none" \in Cases \cup {"none"}
        /\ t \in Tasks \cup {NoTask} /\ x \in Pointer /\ Null \in Pointer
    BY <1>3, <1>4 DEF Operations, Places, Pointer
  <2>3. r \in ThreadStates
    BY <2>1, <2>2 DEF ThreadStates
  <2>4. r.op = "push_back" /\ r.at = "called" /\ r.case = "none" /\ r.task = t /\ r.node = x
    BY ONLY <2>1
  <2> QED BY <2>3, <2>4
<1>6. /\ node' \in [Nodes -> Cells] /\ heap' \subseteq Nodes /\ calls' \in 0..MaxCalls
      /\ node'[x] = [prev |-> Null, next |-> Null, data |-> t]
      /\ \A z \in heap : node'[z] = node[z]
  <2>1. [prev |-> Null, next |-> Null, data |-> t] \in Cells
    BY <1>4 DEF Cells, Pointer
  <2>2. calls' \in 0..MaxCalls
    BY <1>1, <1>2, BoundsAssumption
  <2>3. node' \in [Nodes -> Cells]
    BY <1>1, <1>2, <1>3, <2>1
  <2>4. node'[x] = [prev |-> Null, next |-> Null, data |-> t] /\ \A z \in heap : node'[z] = node[z]
    BY <1>1, <1>2, <1>3
  <2>5. heap' \subseteq Nodes
    BY <1>1, <1>2, <1>3
  <2> QED BY <2>2, <2>3, <2>4, <2>5
<1>7. Control' /\ OthersStay(p) /\ thread'[p] = r
  BY <1>1, <1>5, <1>6, BorderControl, ZenonT(30)
<1>8. thread[p] = Idle
  BY <1>1 DEF Control, ThreadsInPlace
<1>9. ~Done(p)'
  BY <1>5, <1>7 DEF Done
<1>10. Brings(p) = {} /\ Brings(p)' = {x}
  <2>1. Brings(p) = {}
    BY <1>8, Naturals DEF Brings, Idle
  <2> QED BY <1>3, <1>5, <1>7, <1>9, <2>1 DEF Brings
<1>11. \A q \in Threads : q # p => Brings(q)' = Brings(q)
  BY <1>7, OthersSame
<1>12. (Linked(s) /\ EndIsLast(s) /\ LongEnough(s))'
  <2>1. \A i \in 1..Len(s) : node'[s[i]] = node[s[i]]
    BY <1>6 DEF ListInv, Owned
  <2>2. thread[p].at = "out"
    BY <1>8 DEF Idle
  <2> QED BY <1>1, <1>5, <1>7, <2>1, <2>2, NewEndAndLength
<1>13. Owned(s)'
  <2>1. \A i \in 1..Len(s) : s[i] \in heap' /\ s[i] # x
    BY <1>1, <1>3 DEF ListInv, Owned
  <2>2. ASSUME NEW z \in heap'
        PROVE  (\E i \in 1..Len(s) : z = s[i]) \/ \E q \in Threads : z \in Brings(q)'
    <3>1. CASE z = x
      BY <1>10, <3>1
    <3>2. CASE z # x
      <4>1. z \in heap
        BY <1>1, <3>2
      <4>2. CASE \E i \in 1..Len(s) : z = s[i]
        BY <4>2
      <4>3. CASE \E q \in Threads : z \in Brings(q)
        <5>1. PICK q \in Threads : z \in Brings(q)
          BY <4>3
        <5> QED BY <1>10, <1>11, <5>1
      <4> QED BY <4>1, <4>2, <4>3 DEF ListInv, Owned
    <3> QED BY <3>1, <3>2
  <2>3. ASSUME NEW q \in Threads
        PROVE  Brings(q)' \subseteq heap' /\ \A i \in 1..Len(s) : s[i] \notin Brings(q)'
    <3>1. CASE q = p
      BY <1>1, <1>10, <2>1, <3>1
    <3>2. CASE q # p
      BY <1>1, <1>11, <3>2 DEF ListInv, Owned
    <3> QED BY <3>1, <3>2
  <2>4. \A q \in Threads : x \notin Brings(q)
    BY <1>3 DEF ListInv, Owned
  <2>5. ASSUME NEW q \in Threads, NEW u \in Threads, q # u PROVE Brings(q)' \cap Brings(u)' = {}
    <3>1. CASE q = p
      BY <1>10, <1>11, <2>4, <2>5, <3>1
    <3>2. CASE u = p
      BY <1>10, <1>11, <2>4, <2>5, <3>2
    <3>3. CASE q # p /\ u # p
      BY <1>11, <2>5, <3>3 DEF ListInv, Owned
    <3> QED BY <3>1, <3>2, <3>3
  <2> QED BY <2>1, <2>2, <2>3, <2>5 DEF Owned
<1>14. NewElements'
  <2> SUFFICES ASSUME NEW q \in Threads, thread'[q].op = "push_back", ~Done(q)'
               PROVE  LET e == thread'[q].node
                      IN  /\ e \in Nodes /\ node'[e].next = Null
                          /\ node'[e].data = thread'[q].task /\ thread'[q].task \in Tasks
                          /\ thread'[q].at \in {"write2", "write3"} => node'[e].prev = tail'.elem
                          /\ thread'[q].at = "write3" => node'[tail'.elem].next = e
    BY DEF NewElements
  <2>1. /\ thread'[p].at \notin {"write2", "write3"} /\ thread'[p].node = x /\ thread'[p].task = t
        /\ node'[x].next = Null /\ node'[x].data = t
    BY <1>5, <1>6, <1>7
  <2>2. ASSUME thread[q].op = "push_back", ~Done(q)
        PROVE  node'[thread[q].node] = node[thread[q].node] /\ (tail.elem \in heap => node'[tail.elem] = node[tail.elem])
    <3>1. thread[q].node \in Nodes
      BY <2>2 DEF ListInv, NewElements
    <3>2. thread[q].node \in Brings(q)
      BY <2>2, <3>1, Naturals DEF Brings
    <3> QED BY <1>6, <3>2 DEF ListInv, Owned
  <2>3. ASSUME thread[q].at = "write3"
        PROVE  tail.elem \in heap
    <3>1. Len(s) \in Nat /\ Len(s) >= 1
      BY <2>3, WorkFacts DEF ListInv, LongEnough
    <3>2. Len(s) \in 1..Len(s) /\ Len(s) # 0
      BY <3>1
    <3> QED BY <3>2 DEF ListInv, Linked, Owned
  <2>4. CASE q = p
    BY <1>3, <1>4, <2>1, <2>4
  <2>5. CASE q # p
    <3>1. thread'[q] = thread[q] /\ ~Done(q)
      BY <1>7, <2>5, OthersSame
    <3>2. node'[thread[q].node] = node[thread[q].node] /\ (tail.elem \in heap => node'[tail.elem] = node[tail.elem])
      BY <2>2, <2>5, <3>1
    <3>3. thread[q].at = "write3" => tail.elem \in heap
      BY <2>3
    <3> QED BY <1>1, <3>1, <3>2, <3>3, ZenonT(30) DEF ListInv, NewElements
  <2> QED BY <2>4, <2>5
<1>15. EmptyHands'
  <2> SUFFICES ASSUME NEW q \in Threads, thread'[q].op # "push_back", ~Done(q)'
               PROVE  thread'[q].node = Null /\ thread'[q].task = NoTask
    BY DEF EmptyHands
  <2>1. q # p
    BY <1>5, <1>7
  <2>2. thread'[q] = thread[q] /\ ~Done(q)
    BY <1>7, <2>1, OthersSame
  <2> QED BY <2>2 DEF ListInv, EmptyHands
<1>16. Calls(s, p)
  <2>1. KeepsData
    BY <1>6 DEF KeepsData
  <2>2. ListInv(s)'
    BY <1>12, <1>13, <1>14, <1>15 DEF ListInv
  <2> QED BY <1>4, <1>5, <1>7, <1>8, <1>9, <2>1, <2>2 DEF Calls, Operations
<1> QED BY <1>7, <1>16 DEF Outcome

LEMMA CallPopStep ==
  ASSUME Control, NEW s, ListInv(s), NEW p \in Threads, CallPop(p)
  PROVE  Control' /\ Outcome(s, p)
<1>1. PICK o \in use.may[p] \ {"push_back"} : thread' = [thread EXCEPT ![p] = [Idle EXCEPT !.op = o, !.at = "called"]]
  BY DEF CallPop
<1>2. /\ thread[p].op = "none" /\ calls < MaxCalls /\ calls' = calls + 1
      /\ UNCHANGED <<use, head, tail, node, heap, lock>>
  BY DEF CallPop, Busy, memory
<1>3. /\ node \in [Nodes -> Cells] /\ heap \subseteq Nodes /\ calls \in 0..MaxCalls /\ use \in Uses
  BY StateSets DEF Control
<1>4. o \in {"pop_front", "pop_back"}
  BY <1>3, UsesAssumption DEF Operations
<1> PICK r : r = [Idle EXCEPT !.op = o, !.at = "called"]
  OBVIOUS
<1>5. /\ r \in ThreadStates /\ r.op = o /\ r.at = "called" /\ r.case = "none" /\ r.task = NoTask /\ r.node = Null
  <2>1. r = [op |-> o, at |-> "called", case |-> "none", task |-> NoTask, node |-> Null, reg |-> Null]
    BY DEF Idle
  <2>2. /\ o \in Operations \cup {"none"} /\ "called" \in Places /\ "none" \in Cases \cup {"none"}
        /\ NoTask \in Tasks \cup {NoTask} /\ Null \in Pointer
    BY <1>4 DEF Operations, Places, Pointer
  <2>3. r \in ThreadStates
    BY <2>1, <2>2 DEF ThreadStates
  <2>4. r.op = o /\ r.at = "called" /\ r.case = "none" /\ r.task = NoTask /\ r.node = Null
    BY ONLY <2>1
  <2> QED BY <2>3, <2>4
<1>6. calls' \in 0..MaxCalls
  BY <1>2, <1>3, BoundsAssumption
<1>7. Control' /\ OthersStay(p) /\ thread'[p] = r
  <2>1. r.op # "none" /\ thread' = [thread EXCEPT ![p] = r]
    BY <1>1, <1>4, <1>5
  <2> QED BY <1>2, <1>3, <1>5, <1>6, <2>1, BorderControl
<1>8. thread[p] = Idle
  BY <1>2 DEF Control, ThreadsInPlace
<1>9. ~Done(p)'
  BY <1>5, <1>7 DEF Done
<1>10. \A q \in Threads : Brings(q)' = Brings(q)
  <2>1. Brings(p) = {}
    BY <1>8, Naturals DEF Brings, Idle
  <2>2. Brings(p)' = {}
    BY <1>5, <1>7 DEF Brings
  <2> QED BY <1>7, <2>1, <2>2, OthersSame
<1>11. (Linked(s) /\ EndIsLast(s) /\ LongEnough(s))'
  <2>1. thread[p].at = "out"
    BY <1>8 DEF Idle
  <2> QED BY <1>2, <1>5, <1>7, <2>1, NewEndAndLength
<1>12. Owned(s)'
  BY <1>2, <1>10 DEF ListInv, Owned
<1>13. NewElements'
  <2> SUFFICES ASSUME NEW q \in Threads, thread'[q].op = "push_back", ~Done(q)'
               PROVE  LET e == thread'[q].node
                      IN  /\ e \in Nodes /\ node'[e].next = Null
                          /\ node'[e].data = thread'[q].task /\ thread'[q].task \in Tasks
                          /\ thread'[q].at \in {"write2", "write3"} => node'[e].prev = tail'.elem
                          /\ thread'[q].at = "write3" => node'[tail'.elem].next = e
    BY DEF NewElements
  <2>1. q # p
    BY <1>4, <1>5, <1>7
  <2>2. thread'[q] = thread[q] /\ ~Done(q)
    BY <1>7, <2>1, OthersSame
  <2> QED BY <1>2, <2>2 DEF ListInv, NewElements
<1>14. EmptyHands'
  BY <1>5, <1>7, OthersSame DEF ListInv, EmptyHands
<1>15. Calls(s, p)
  <2>1. KeepsData
    BY <1>2 DEF KeepsData
  <2>2. ListInv(s)'
    BY <1>11, <1>12, <1>13, <1>14 DEF ListInv
  <2> QED BY <1>4, <1>5, <1>7, <1>8, <1>9, <2>1, <2>2 DEF Calls, Operations
<1> QED BY <1>7, <1>15 DEF Outcome

LEMMA ReturnStep ==
  ASSUME Control, NEW s, ListInv(s), NEW p \in Threads, Return(p)
  PROVE  Control' /\ Outcome(s, p)
<1> PICK x : x = thread[p].node
  OBVIOUS
<1>1. /\ thread[p].at = "done"
      /\ heap' = IF thread[p].op = "push_back" THEN heap ELSE heap \ {x}
      /\ thread' = [thread EXCEPT ![p] = Idle]
      /\ UNCHANGED <<use, head, tail, node, lock, calls>>
  BY DEF Return
<1>2. /\ node \in [Nodes -> Cells] /\ heap \subseteq Nodes /\ calls \in 0..MaxCalls
  BY StateSets DEF Control
<1>3. Control' /\ OthersStay(p) /\ thread'[p] = Idle
  BY <1>1, <1>2, IdleType, BorderControl
<1>4. Done(p) /\ ~Done(p)'
  BY <1>1, <1>3 DEF Done, Idle
<1>5. Brings(p)' = {}
  BY <1>3, Naturals DEF Brings, Idle
<1>6. \A q \in Threads : q # p => Brings(q)' = Brings(q)
  BY <1>3, OthersSame
<1>7. heap' = heap \ Brings(p)
  BY <1>1, <1>2, <1>4, Naturals DEF Brings
<1>8. (Linked(s) /\ EndIsLast(s) /\ LongEnough(s))'
  <2>1. thread'[p].at = "out"
    BY <1>3 DEF Idle
  <2> QED BY <1>1, <1>3, <2>1, NewEndAndLength
<1>9. Owned(s)'
  <2>1. \A i \in 1..Len(s) : s[i] \in heap'
    BY <1>7 DEF ListInv, Owned
  <2>2. ASSUME NEW z \in heap'
        PROVE  (\E i \in 1..Len(s) : z = s[i]) \/ \E q \in Threads : z \in Brings(q)'
    <3>1. z \in heap /\ z \notin Brings(p)
      BY <1>7
    <3>2. CASE \E i \in 1..Len(s) : z = s[i]
      BY <3>2
    <3>3. CASE \E q \in Threads : z \in Brings(q)
      <4>1. PICK q \in Threads : z \in Brings(q)
        BY <3>3
      <4> QED BY <1>6, <3>1, <4>1
    <3> QED BY <3>1, <3>2, <3>3 DEF ListInv, Owned
  <2>3. ASSUME NEW q \in Threads
        PROVE  Brings(q)' \subseteq heap' /\ \A i \in 1..Len(s) : s[i] \notin Brings(q)'
    <3>1. CASE q = p
      BY <1>5, <3>1
    <3>2. CASE q # p
      <4>1. Brings(q) \cap Brings(p) = {}
        BY <3>2 DEF ListInv, Owned
      <4> QED BY <1>6, <1>7, <3>2, <4>1 DEF ListInv, Owned
    <3> QED BY <3>1, <3>2
  <2>4. ASSUME NEW q \in Threads, NEW u \in Threads, q # u PROVE Brings(q)' \cap Brings(u)' = {}
    <3>1. CASE q = p \/ u = p
      BY <1>5, <3>1
    <3>2. CASE q # p /\ u # p
      BY <1>6, <2>4, <3>2 DEF ListInv, Owned
    <3> QED BY <3>1, <3>2
  <2> QED BY <2>1, <2>2, <2>3, <2>4 DEF Owned
<1>10. NewElements'
  <2>1. thread'[p].op # "push_back"
    BY <1>3 DEF Idle
  <2> QED BY <1>1, <1>3, <2>1, OthersSame DEF ListInv, NewElements
<1>11. EmptyHands'
  BY <1>3, OthersSame DEF ListInv, EmptyHands, Idle
<1>12. Returns(s, p)
  <2>1. KeepsData
    BY <1>1 DEF KeepsData
  <2>2. ListInv(s)'
    BY <1>8, <1>9, <1>10, <1>11 DEF ListInv
  <2> QED BY <1>3, <1>4, <2>1, <2>2 DEF Returns
<1> QED BY <1>3, <1>12 DEF Outcome

-----------------------------------------------------------------------------
(* Every step of a thread has one of the outcomes. *)

LEMMA StepOutcome ==
  ASSUME Control, NEW s, ListInv(s), NEW p \in Threads, CallPush(p) \/ CallPop(p) \/ Step(p)
  PROVE  Control' /\ Outcome(s, p)
<1>1. use.list = "mutex"
  BY DEF Control
<1>2. \/ CallPush(p) \/ CallPop(p) \/ Return(p)
      \/ Locked!LockFront(p) \/ Locked!LockBack(p) \/ Locked!FindNothing(p)
      \/ Locked!PushToNone(p) \/ Locked!PushToOne(p) \/ Locked!PopOne(p) \/ Locked!PopBackTwo(p)
      \/ Locked!GiveBack(p) \/ Locked!Write(p) \/ Locked!Release(p)
  BY <1>1 DEF Step, Locked!Step
<1> QED BY <1>2, CallPushStep, CallPopStep, ReturnStep, LockFrontStep, LockBackStep, FindNothingStep,
           PushToNoneStep, PushToOneStep, PopOneStep, PopBackTwoStep, GiveBackStep,
           WritePushStep, WritePopStep, ReleaseStep

LEMMA OutcomeKeepsIInv ==
  ASSUME Control', NEW s, NEW p, Outcome(s, p)
  PROVE  IInv'
<1>1. \E t : ListInv(t)'
  BY DEF Outcome, Steady, Pushes, PopsFront, PopsBack, FindsNothing, Calls, Returns
<1> QED BY <1>1, IInvFromList

(* The first list, as n calls of push_back leave it.                       *)
LEMMA InitIInv == Mutexes /\ Init => IInv
<1> SUFFICES ASSUME Mutexes, Init PROVE IInv
  OBVIOUS
<1> DEFINE At(n, x) == IF x \in 1..n THEN x ELSE Null
<1>1. PICK n \in Lengths :
        /\ heap = 1..n
        /\ node = [x \in Nodes |->
                     IF x \in heap THEN [prev |-> At(n, x - 1), next |-> At(n, x + 1), data |-> x]
                     ELSE [prev |-> Null, next |-> Null, data |-> NoTask]]
        /\ head = [elem |-> At(n, 1), next |-> IF use.list = "cas" THEN At(n, 2) ELSE Null]
        /\ tail = [elem |-> At(n, n), prev |-> IF use.list = "cas" THEN At(n, n - 1) ELSE Null]
  BY DEF Init
<1>2. /\ use \in Uses /\ use.list = "mutex" /\ calls = 0
      /\ lock = [end \in {"head", "tail"} |-> Nobody]
      /\ thread = [p \in Threads |-> Idle]
  BY DEF Init, Mutexes
<1>3. n \in Nat /\ 1..n \subseteq Nodes /\ 1..n \subseteq Tasks
  BY BoundsAssumption DEF Nodes, Tasks
<1>4. \A x : At(n, x) \in Pointer
  BY <1>3 DEF Pointer
<1> HIDE DEF At
<1>5. TypeOK
  <2>1. thread \in [Threads -> ThreadStates]
    BY <1>2, IdleType
  <2>2. node \in [Nodes -> Cells]
    <3> SUFFICES ASSUME NEW x \in Nodes PROVE node[x] \in Cells
      BY <1>1
    <3>1. CASE x \in 1..n
      BY <1>1, <1>3, <1>4, <3>1 DEF Cells
    <3>2. CASE x \notin 1..n
      BY <1>1, <3>2 DEF Cells, Pointer
    <3> QED BY <3>1, <3>2
  <2>3. head \in [elem : Pointer, next : Pointer] /\ tail \in [elem : Pointer, prev : Pointer]
    BY <1>1, <1>4 DEF Pointer
  <2>4. calls \in 0..MaxCalls
    BY <1>2, BoundsAssumption
  <2>5. lock \in [{"head", "tail"} -> Threads \cup {Nobody}]
    BY <1>2
  <2>6. heap \subseteq Nodes /\ use \in Uses
    BY <1>1, <1>2, <1>3
  <2> QED BY <2>1, <2>2, <2>3, <2>4, <2>5, <2>6 DEF TypeOK, ThreadStates, Cells
<1>6. \A p \in Threads : thread[p] = Idle
  BY <1>2
<1>7. Control
  <2>1. ThreadsInPlace
    BY <1>6 DEF ThreadsInPlace, Idle
  <2>2. LocksInPlace
    BY <1>6 DEF LocksInPlace, Idle
  <2>3. OneWorks
    BY <1>6 DEF OneWorks, Works, Idle
  <2> QED BY <1>2, <1>5, <2>1, <2>2, <2>3 DEF Control
<1> PICK s : s = [i \in 1..n |-> i]
  OBVIOUS
<1>8. s \in Seq(Nodes) /\ Len(s) = n /\ \A i \in 1..n : s[i] = i
  <2>1. s \in [1..n -> Nodes]
    BY <1>3
  <2> QED BY <1>3, <2>1
<1>9. Linked(s)
  <2>1. head.elem = IF n = 0 THEN Null ELSE s[1]
    BY <1>1, <1>3, <1>8 DEF At
  <2>2. tail.elem = IF n = 0 THEN Null ELSE s[n]
    BY <1>1, <1>3, <1>8 DEF At
  <2>3. ASSUME NEW i \in 1..(n - 1) PROVE node[s[i]].next = s[i + 1] /\ node[s[i + 1]].prev = s[i]
    <3>1. i \in 1..n /\ i + 1 \in 1..n /\ (i + 1) - 1 = i /\ i \in Nodes /\ i + 1 \in Nodes
      BY <1>3
    <3>2. /\ node[i] = [prev |-> At(n, i - 1), next |-> At(n, i + 1), data |-> i]
          /\ node[i + 1] = [prev |-> At(n, i), next |-> At(n, (i + 1) + 1), data |-> i + 1]
      BY <1>1, <3>1
    <3>3. At(n, i + 1) = i + 1 /\ At(n, i) = i
      BY <3>1 DEF At
    <3> QED BY <1>8, <3>1, <3>2, <3>3
  <2> QED BY <1>8, <2>1, <2>2, <2>3 DEF Linked
<1>10. EndIsLast(s)
  <2> SUFFICES ASSUME n > 0 PROVE node[s[n]].next = Null
    BY <1>8 DEF EndIsLast
  <2>1. n \in 1..n /\ n \in Nodes /\ n + 1 \notin 1..n
    BY <1>3
  <2>2. node[n] = [prev |-> At(n, n - 1), next |-> At(n, n + 1), data |-> n]
    BY <1>1, <2>1
  <2>3. At(n, n + 1) = Null
    BY <2>1 DEF At
  <2> QED BY <1>8, <2>1, <2>2, <2>3
<1>11. LongEnough(s)
  BY <1>6 DEF LongEnough, Idle
<1>12. Owned(s)
  <2>1. \A p \in Threads : Brings(p) = {}
    BY <1>6 DEF Brings, Idle
  <2> QED BY <1>1, <1>8, <2>1 DEF Owned
<1>13. NewElements /\ EmptyHands
  BY <1>6 DEF NewElements, EmptyHands, Idle
<1>14. ListInv(s)
  BY <1>9, <1>10, <1>11, <1>12, <1>13 DEF ListInv
<1>15. Chain = s
  BY <1>9, ChainIsLinked
<1> QED BY <1>7, <1>14, <1>15 DEF IInv

LEMMA NextIInv == IInv /\ [Next]_vars => IInv'
<1> SUFFICES ASSUME IInv, [Next]_vars PROVE IInv'
  OBVIOUS
<1> PICK s : s = Chain
  OBVIOUS
<1>1. Control /\ ListInv(s)
  BY DEF IInv
<1>2. CASE Next
  <2>1. PICK p \in Threads : CallPush(p) \/ CallPop(p) \/ Step(p)
    BY <1>2 DEF Next
  <2>2. Control' /\ Outcome(s, p)
    BY <1>1, <2>1, StepOutcome
  <2> QED BY <2>2, OutcomeKeepsIInv
<1>3. CASE UNCHANGED vars
  <2>1. Control'
    BY <1>1, <1>3 DEF Control, TypeOK, ThreadsInPlace, LocksInPlace, OneWorks, Works, vars, memory
  <2>2. ListInv(s)'
    BY <1>1, <1>3, ZenonT(30)
       DEF ListInv, Linked, EndIsLast, LeavesEnd, LongEnough, Owned, Brings, NewElements,
           EmptyHands, Done, vars, memory
  <2> QED BY <2>1, <2>2, IInvFromList
<1> QED BY <1>2, <1>3

LEMMA SpecIInv == Mutexes /\ Spec => []IInv
<1> SUFFICES ASSUME Mutexes PROVE Spec => []IInv
  OBVIOUS
<1>1. Init => IInv
  BY InitIInv
<1> QED BY <1>1, NextIInv, PTL DEF Spec

-----------------------------------------------------------------------------
(* The theorems.  Types: no step of a ConcurrentDeque follows a null       *)
(* pointer, and a pop that finds nothing returns a null task.              *)
THEOREM ListTypeOK == Mutexes /\ Spec => []TypeOK
<1>1. IInv => TypeOK
  BY DEF IInv, Control
<1> QED BY <1>1, SpecIInv, PTL

LEMMA IInvIsLinked == IInv => QuietListIsLinked
<1> SUFFICES ASSUME IInv, Quiet PROVE QuietListIsLinked
  BY DEF QuietListIsLinked
<1> PICK s : s = Chain
  OBVIOUS
<1>1. Control /\ ListInv(s)
  BY DEF IInv
<1> PICK n \in 0..NumNodes : n = Len(s)
  BY <1>1, LengthFacts DEF ListInv
<1>2. n \in Nat /\ use.list = "mutex"
  BY <1>1, BoundsAssumption DEF Control
<1>3. \A p \in Threads : ~LeavesEnd(p)
  <2> SUFFICES ASSUME NEW p \in Threads, LeavesEnd(p) PROVE FALSE
    OBVIOUS
  <2>1. lock["tail"] = p
    BY <1>1 DEF LeavesEnd, Control, LocksInPlace
  <2> QED BY <2>1, NobodyAssumption DEF Quiet
<1> DEFINE At(i) == IF i \in 1..n THEN s[i] ELSE Null
<1>4. head.elem = At(1) /\ tail.elem = At(n)
  BY <1>1, <1>2 DEF ListInv, Linked
<1>5. n > 0 => node[At(n)].next = Null
  BY <1>1, <1>2, <1>3 DEF ListInv, EndIsLast
<1>6. ASSUME NEW i \in 2..n PROVE node[At(i)].prev = At(i - 1)
  <2>1. i - 1 \in 1..(n - 1) /\ (i - 1) + 1 = i /\ i \in 1..n /\ i - 1 \in 1..n
    BY <1>2
  <2> QED BY <1>1, <2>1 DEF ListInv, Linked
<1> QED BY <1>2, <1>4, <1>5, <1>6 DEF QuietListIsLinked

(* When nobody has a mutex, a ConcurrentDeque is linked both ways and ends *)
(* at its tail, whatever calls were made on it, and however they were      *)
(* interleaved: the list that the cases of the next call rely on.          *)
THEOREM ListIsLinked == Mutexes /\ Spec => []QuietListIsLinked
  BY IInvIsLinked, SpecIInv, PTL

LEMMA IInvOwners == IInv => ElementsHaveOneOwner
<1> SUFFICES ASSUME IInv PROVE ElementsHaveOneOwner
  OBVIOUS
<1> PICK s : s = Chain
  OBVIOUS
<1>1. Control /\ ListInv(s)
  BY DEF IInv
<1>2. \A p \in Threads : Brings(p) = IF thread[p].op = "push_back" /\ Done(p) THEN {} ELSE {thread[p].node} \ {Null}
  BY DEF Brings
<1>3. heap = {s[i] : i \in 1..Len(s)} \cup UNION {Brings(p) : p \in Threads}
  BY <1>1 DEF ListInv, Owned
<1>4. {head.elem, tail.elem} \subseteq heap \cup {Null}
  <2>1. Len(s) \in Nat
    BY <1>1, LengthFacts DEF ListInv
  <2>2. Len(s) # 0 => 1 \in 1..Len(s) /\ Len(s) \in 1..Len(s)
    BY <2>1
  <2> QED BY <1>1, <2>2 DEF ListInv, Linked, Owned
<1>5. \A p, q \in Threads : /\ Brings(p) \cap {s[i] : i \in 1..Len(s)} = {}
                            /\ p # q => Brings(p) \cap Brings(q) = {}
  BY <1>1 DEF ListInv, Owned
<1> QED BY <1>2, <1>3, <1>4, <1>5 DEF ElementsHaveOneOwner, Brings

(* A ConcurrentDeque leaks no element and deletes none twice, or one that  *)
(* can be reached from an end: each is in the list, or with one thread.    *)
THEOREM ListOwners == Mutexes /\ Spec => []ElementsHaveOneOwner
  BY IInvOwners, SpecIInv, PTL

-----------------------------------------------------------------------------
(* The refinement: seen from outside, an outcome is a step of Deque. *)

Data == Tasks \cup {NoTask}
ContentsOf(s) == [i \in 1..Len(s) |-> node[s[i]].data]

LEMMA FunctionIsSeq ==
  ASSUME NEW n \in Nat, NEW D, NEW f \in [1..n -> D]
  PROVE  f \in Seq(D) /\ Len(f) = n
  OBVIOUS

LEMMA ContentsType ==
  ASSUME TypeOK, NEW s, Linked(s)
  PROVE  /\ Contents = ContentsOf(s)
         /\ Contents \in Seq(Data) /\ Len(Contents) = Len(s) /\ Len(s) \in Nat
         /\ \A i \in 1..Len(s) : Contents[i] = node[s[i]].data
<1>1. Len(s) \in Nat /\ s \in [1..Len(s) -> Nodes]
  BY LengthFacts
<1>2. Contents = ContentsOf(s)
  BY ChainIsLinked DEF Contents, ContentsOf
<1>3. node \in [Nodes -> Cells]
  BY StateSets
<1>4. \A i \in 1..Len(s) : node[s[i]].data \in Data
  BY <1>1, <1>3 DEF Cells, Data
<1>5. Contents \in [1..Len(s) -> Data]
  BY <1>2, <1>4 DEF ContentsOf
<1>6. Contents \in Seq(Data) /\ Len(Contents) = Len(s)
  BY <1>1, <1>5, FunctionIsSeq
<1> QED BY <1>1, <1>2, <1>6 DEF ContentsOf

ContentsTyped ==
  \A s : TypeOK /\ Linked(s) =>
    /\ Contents \in Seq(Data) /\ Len(Contents) = Len(s) /\ Len(s) \in Nat
    /\ \A i \in 1..Len(s) : Contents[i] = node[s[i]].data

LEMMA ContentsTypedNext == ContentsTyped /\ ContentsTyped'
<1>1. ContentsTyped
  BY ContentsType DEF ContentsTyped
<1> QED BY <1>1, PTL

LEMMA CallsSeenStep ==
  ASSUME NEW p \in Threads, OthersStay(p)
  PROVE  /\ CallsSeen[p] = [op |-> thread[p].op, task |-> thread[p].task, done |-> Done(p)]
         /\ CallsSeen' = [CallsSeen EXCEPT ![p] =
                            [op |-> thread'[p].op, task |-> thread'[p].task, done |-> Done(p)']]
<1> PICK r : r = [op |-> thread'[p].op, task |-> thread'[p].task, done |-> Done(p)']
  OBVIOUS
<1>1. CallsSeen = [q \in Threads |-> [op |-> thread[q].op, task |-> thread[q].task, done |-> Done(q)]]
  BY DEF CallsSeen
<1>2. CallsSeen' = [q \in Threads |-> [op |-> thread'[q].op, task |-> thread'[q].task, done |-> Done(q)']]
  BY DEF CallsSeen
<1>3. \A q \in Threads : q # p => thread'[q] = thread[q] /\ (Done(q)' = Done(q))
  BY OthersSame DEF OthersStay, Done
<1>4. \A q \in Threads : CallsSeen'[q] = IF q = p THEN r ELSE CallsSeen[q]
  BY <1>1, <1>2, <1>3
<1>5. CallsSeen' = [CallsSeen EXCEPT ![p] = r]
  BY <1>1, <1>2, <1>4
<1> QED BY <1>1, <1>5

(* What is seen of a call that has taken effect.                           *)
LEMMA AnswerFacts ==
  ASSUME NEW p \in Threads, OthersStay(p), thread'[p].op = thread[p].op, ~Done(p), Done(p)'
  PROVE  /\ CallsSeen[p].op = thread[p].op /\ ~CallsSeen[p].done
         /\ CallsSeen[p].task = thread[p].task
         /\ Abstract!Answer(p, thread'[p].task)
<1> PICK r : r = CallsSeen[p]
  OBVIOUS
<1> PICK o : o = thread[p].op
  OBVIOUS
<1> PICK d : d = thread'[p].task
  OBVIOUS
<1>1. r = [op |-> o, task |-> thread[p].task, done |-> Done(p)]
  BY CallsSeenStep
<1>2. CallsSeen' = [CallsSeen EXCEPT ![p] = [op |-> o, task |-> d, done |-> TRUE]]
  <2>1. CallsSeen' = [CallsSeen EXCEPT ![p] = [op |-> thread'[p].op, task |-> thread'[p].task, done |-> Done(p)']]
    BY CallsSeenStep
  <2>2. Done(p)' = TRUE
    OBVIOUS
  <2> QED BY <2>1, <2>2
<1>3. r.op = o /\ r.task = thread[p].task /\ ~r.done
  BY <1>1
<1> PICK y : y = TRUE
  OBVIOUS
<1> PICK a : a = [r EXCEPT !.task = d, !.done = y]
  OBVIOUS
<1>4. a = [op |-> o, task |-> d, done |-> y]
  <2> PICK b : b = Done(p)
    OBVIOUS
  <2>1. r = [op |-> o, task |-> thread[p].task, done |-> b]
    BY <1>1
  <2>2. a \in [op : {o}, task : {d}, done : {y}]
    BY ONLY <2>1, a = [r EXCEPT !.task = d, !.done = y]
  <2> QED BY ONLY <2>2
<1>5. CallsSeen' = [CallsSeen EXCEPT ![p] = a]
  BY <1>2, <1>4
<1>6. Abstract!Answer(p, d)
  BY <1>5 DEF Abstract!Answer
<1> QED BY <1>3, <1>6

(* The tasks in the list, before and after a step.                         *)
LEMMA ContentsStep ==
  ASSUME Control, NEW s, ListInv(s), Control', NEW t, ListInv(t)', KeepsData
  PROVE  /\ Contents \in Seq(Data) /\ Len(Contents) = Len(s) /\ Len(s) \in Nat
         /\ Contents' \in Seq(Data) /\ Len(Contents') = Len(t) /\ Len(t) \in Nat
         /\ \A i \in 1..Len(s) : Contents[i] = node[s[i]].data /\ node'[s[i]].data = node[s[i]].data
         /\ \A i \in 1..Len(t) : Contents'[i] = node'[t[i]].data
<1>1. TypeOK /\ Linked(s) /\ (TypeOK /\ Linked(t))'
  BY DEF Control, ListInv
<1>2. /\ Contents \in Seq(Data) /\ Len(Contents) = Len(s) /\ Len(s) \in Nat
      /\ \A i \in 1..Len(s) : Contents[i] = node[s[i]].data
  BY <1>1, ContentsTypedNext DEF ContentsTyped
<1>3. /\ Contents' \in Seq(Data) /\ Len(Contents') = Len(t) /\ Len(t) \in Nat
      /\ \A i \in 1..Len(t) : Contents'[i] = node'[t[i]].data
  BY <1>1, ContentsTypedNext DEF ContentsTyped
<1>4. \A i \in 1..Len(s) : node'[s[i]].data = node[s[i]].data
  BY DEF KeepsData, ListInv, Owned
<1> QED BY <1>2, <1>3, <1>4

LEMMA ContentsSame ==
  ASSUME Control, NEW s, ListInv(s), Control', ListInv(s)', KeepsData
  PROVE  Contents' = Contents
<1>1. /\ Contents \in Seq(Data) /\ Contents' \in Seq(Data) /\ Len(Contents') = Len(Contents)
      /\ \A i \in 1..Len(Contents') : Contents'[i] = Contents[i]
  BY ContentsStep
<1> QED BY <1>1, SeqEqual

LEMMA SeqOfList ==
  ASSUME NEW s, ListInv(s)
  PROVE  s \in Seq(Nodes) /\ Len(s) \in Nat
  BY LengthFacts DEF ListInv, Linked

LEMMA ShorterFacts ==
  ASSUME NEW D, NEW c \in Seq(D), NEW n \in Nat \ {0}, Len(c) = n
  PROVE  /\ SubSeq(c, 1, n - 1) \in Seq(D) /\ Len(SubSeq(c, 1, n - 1)) = n - 1
         /\ \A i \in 1..(n - 1) : SubSeq(c, 1, n - 1)[i] = c[i]
  OBVIOUS

LEMMA OpFacts ==
  ASSUME Control', NEW p \in Threads, Done(p)', thread'[p].op # "push_back"
  PROVE  thread'[p].op \in {"pop_front", "pop_back"}
<1>1. thread'[p].op \in Operations \cup {"none"}
  <2>1. thread' \in [Threads -> ThreadStates]
    BY DEF Control, TypeOK, ThreadStates
  <2> QED BY <2>1 DEF ThreadStates
<1>2. thread'[p].op # "none"
  BY DEF Control, ThreadsInPlace, Done, Idle
<1> QED BY <1>1, <1>2 DEF Operations

LEMMA PushSimulates ==
  ASSUME Control, NEW s, ListInv(s), Control', NEW p \in Threads, Pushes(s, p)
  PROVE  Abstract!Effect(p)
<1> PICK e \in heap : /\ e = thread[p].node /\ node[e].data = thread[p].task
                      /\ ListInv(Append(s, e))'
  BY DEF Pushes
<1> PICK d : d = thread[p].task
  OBVIOUS
<1>1. /\ KeepsData /\ OthersStay(p) /\ node[e].data = d
      /\ thread[p].op = "push_back" /\ thread'[p].op = "push_back"
      /\ ~Done(p) /\ Done(p)' /\ thread'[p].task = d
  BY DEF Pushes, TakesEffect
<1>2. e \in Nodes /\ d \in Data
  <2>1. heap \subseteq Nodes /\ node \in [Nodes -> Cells]
    BY StateSets DEF Control
  <2>2. e \in Nodes /\ node[e] \in Cells
    BY <2>1
  <2> QED BY <1>1, <2>2 DEF Cells, Data
<1> PICK n : n = Len(s)
  OBVIOUS
<1> PICK t : t = Append(s, e)
  OBVIOUS
<1>3. Len(t) = n + 1 /\ t[n + 1] = e /\ \A i \in 1..n : t[i] = s[i]
  BY <1>2, SeqOfList, AppendProperties
<1>4. /\ Contents \in Seq(Data) /\ Len(Contents) = n /\ n \in Nat
      /\ Contents' \in Seq(Data) /\ Len(Contents') = n + 1
      /\ \A i \in 1..n : Contents[i] = node[s[i]].data /\ node'[s[i]].data = node[s[i]].data
      /\ \A i \in 1..(n + 1) : Contents'[i] = node'[t[i]].data
  <2>1. ListInv(t)'
    OBVIOUS
  <2>2. /\ Contents \in Seq(Data) /\ Len(Contents) = Len(s) /\ Len(s) \in Nat
        /\ Contents' \in Seq(Data) /\ Len(Contents') = Len(t) /\ Len(t) \in Nat
        /\ \A i \in 1..Len(s) : Contents[i] = node[s[i]].data /\ node'[s[i]].data = node[s[i]].data
        /\ \A i \in 1..Len(t) : Contents'[i] = node'[t[i]].data
    BY ONLY <1>1, <2>1, Control, ListInv(s), Control', ContentsStep
  <2> QED BY <1>3, <2>2
<1>5. Contents' = Append(Contents, d)
  <2>1. /\ Append(Contents, d) \in Seq(Data) /\ Len(Append(Contents, d)) = n + 1
        /\ \A i \in 1..n : Append(Contents, d)[i] = Contents[i]
        /\ Append(Contents, d)[n + 1] = d
    BY <1>2, <1>4, AppendProperties
  <2>2. node'[e].data = d
    BY <1>1 DEF KeepsData
  <2>3. \A i \in 1..(n + 1) : i \in 1..n \/ i = n + 1
    BY <1>4
  <2>4. \A i \in 1..(n + 1) : Contents'[i] = Append(Contents, d)[i]
    BY <1>3, <1>4, <2>1, <2>2, <2>3
  <2> QED BY <1>4, <2>1, <2>4, SeqEqual
<1>6. /\ CallsSeen[p].op = "push_back" /\ CallsSeen[p].task = d /\ ~CallsSeen[p].done
      /\ Abstract!Answer(p, d)
  BY <1>1, AnswerFacts
<1> QED BY <1>5, <1>6 DEF Abstract!Effect, Abstract!Push

LEMMA PopFrontSimulates ==
  ASSUME Control, NEW s, ListInv(s), Control', NEW p \in Threads, PopsFront(s, p)
  PROVE  Abstract!Effect(p)
<1> PICK n : n = Len(s)
  OBVIOUS
<1> PICK t : t = Tail(s)
  OBVIOUS
<1> PICK d : d = node[s[1]].data
  OBVIOUS
<1>1. /\ n > 0 /\ KeepsData /\ OthersStay(p)
      /\ thread[p].op = "pop_front" /\ thread'[p].op = "pop_front"
      /\ ~Done(p) /\ Done(p)' /\ thread'[p].task = d
  BY DEF PopsFront, TakesEffect
<1>2. ListInv(t)'
  BY DEF PopsFront
<1>3. s \in Seq(Nodes) /\ n \in Nat \ {0}
  <2>1. s \in Seq(Nodes) /\ n \in Nat
    BY SeqOfList
  <2> QED BY <1>1, <2>1
<1>4. Len(t) = n - 1 /\ \A i \in 1..(n - 1) : t[i] = s[i + 1]
  <2>1. s # <<>>
    BY <1>3, NotEmpty
  <2> QED BY <1>3, <2>1, HeadTailProperties
<1>5. /\ Contents \in Seq(Data) /\ Len(Contents) = n
      /\ Contents' \in Seq(Data) /\ Len(Contents') = n - 1
      /\ \A i \in 1..n : Contents[i] = node[s[i]].data /\ node'[s[i]].data = node[s[i]].data
      /\ \A i \in 1..(n - 1) : Contents'[i] = node'[t[i]].data
  BY <1>1, <1>2, <1>4, ContentsStep, ZenonT(30)
<1> PICK c : c = Contents
  OBVIOUS
<1>6. /\ c \in Seq(Data) /\ Len(c) = n /\ c # <<>> /\ Head(c) = d
      /\ Tail(c) \in Seq(Data) /\ Len(Tail(c)) = n - 1
      /\ \A i \in 1..(n - 1) : Tail(c)[i] = c[i + 1]
  <2>1. c \in Seq(Data) /\ Len(c) = n
    BY <1>5
  <2>2. c # <<>>
    BY <1>3, <2>1, NotEmpty
  <2>3. 1 \in 1..n
    BY <1>3
  <2>4. c[1] = d
    BY <1>5, <2>3
  <2>5. /\ Head(c) = c[1] /\ Tail(c) \in Seq(Data) /\ Len(Tail(c)) = n - 1
        /\ \A i \in 1..(n - 1) : Tail(c)[i] = c[i + 1]
    BY ONLY <2>1, <2>2, HeadTailProperties, SMTT(30)
  <2> QED BY <2>1, <2>2, <2>4, <2>5
<1>7. Contents' = Tail(c)
  <2>1. \A i \in 1..(n - 1) : i + 1 \in 1..n
    BY <1>3
  <2>2. \A i \in 1..(n - 1) : Contents'[i] = Tail(c)[i]
    BY <1>4, <1>5, <1>6, <2>1, ZenonT(30)
  <2> QED BY <1>5, <1>6, <2>2, SeqEqual
<1>8. CallsSeen[p].op = "pop_front" /\ ~CallsSeen[p].done /\ Abstract!Answer(p, d)
  BY <1>1, AnswerFacts
<1>9. Abstract!PopFront(p)
  BY <1>6, <1>7, <1>8 DEF Abstract!PopFront
<1> QED BY <1>8, <1>9 DEF Abstract!Effect

LEMMA PopBackSimulates ==
  ASSUME Control, NEW s, ListInv(s), Control', NEW p \in Threads, PopsBack(s, p)
  PROVE  Abstract!Effect(p)
<1> PICK n : n = Len(s)
  OBVIOUS
<1> PICK t : t = SubSeq(s, 1, n - 1)
  OBVIOUS
<1> PICK d : d = node[s[n]].data
  OBVIOUS
<1>1. /\ n > 0 /\ KeepsData /\ OthersStay(p)
      /\ thread[p].op = "pop_back" /\ thread'[p].op = "pop_back"
      /\ ~Done(p) /\ Done(p)' /\ thread'[p].task = d
  BY DEF PopsBack, TakesEffect
<1>2. ListInv(t)'
  BY DEF PopsBack
<1>3. s \in Seq(Nodes) /\ n \in Nat \ {0}
  <2>1. s \in Seq(Nodes) /\ n \in Nat
    BY SeqOfList
  <2> QED BY <1>1, <2>1
<1>4. Len(t) = n - 1 /\ \A i \in 1..(n - 1) : t[i] = s[i]
  BY ONLY <1>3, n = Len(s), t = SubSeq(s, 1, n - 1), ShorterFacts, SMTT(30)
<1>5. /\ Contents \in Seq(Data) /\ Len(Contents) = n
      /\ Contents' \in Seq(Data) /\ Len(Contents') = n - 1
      /\ \A i \in 1..n : Contents[i] = node[s[i]].data /\ node'[s[i]].data = node[s[i]].data
      /\ \A i \in 1..(n - 1) : Contents'[i] = node'[t[i]].data
  BY <1>1, <1>2, <1>4, ContentsStep, ZenonT(30)
<1> PICK c : c = Contents
  OBVIOUS
<1>6. /\ c[n] = d /\ SubSeq(c, 1, n - 1) \in Seq(Data) /\ Len(SubSeq(c, 1, n - 1)) = n - 1
      /\ \A i \in 1..(n - 1) : SubSeq(c, 1, n - 1)[i] = c[i]
  <2>1. c \in Seq(Data) /\ Len(c) = n
    BY <1>5
  <2>2. n \in 1..n
    BY <1>3
  <2>3. c[n] = d
    BY <1>5, <2>2
  <2> QED BY <1>3, <2>1, <2>3, ShorterFacts
<1>7. Contents' = SubSeq(c, 1, n - 1)
  <2>1. \A i \in 1..(n - 1) : i \in 1..n
    BY <1>3
  <2>2. \A i \in 1..(n - 1) : Contents'[i] = SubSeq(c, 1, n - 1)[i]
    BY <1>4, <1>5, <1>6, <2>1, ZenonT(30)
  <2> QED BY <1>5, <1>6, <2>2, SeqEqual
<1>8. CallsSeen[p].op = "pop_back" /\ ~CallsSeen[p].done /\ Abstract!Answer(p, d)
  BY <1>1, AnswerFacts
<1>9. Abstract!PopBack(p)
  BY <1>1, <1>5, <1>6, <1>7, <1>8 DEF Abstract!PopBack
<1> QED BY <1>8, <1>9 DEF Abstract!Effect

LEMMA FindNothingSimulates ==
  ASSUME Control, NEW s, ListInv(s), Control', NEW p \in Threads, FindsNothing(s, p)
  PROVE  Abstract!Effect(p)
<1>1. /\ Len(s) = 0 /\ KeepsData /\ OthersStay(p) /\ ListInv(s)'
      /\ thread[p].op # "push_back" /\ thread'[p].op = thread[p].op
      /\ ~Done(p) /\ Done(p)' /\ thread'[p].task = NoTask
  BY DEF FindsNothing, TakesEffect
<1>2. Contents' = Contents
  BY <1>1, ContentsSame
<1>3. Contents = <<>>
  <2>1. Contents \in Seq(Data) /\ Len(Contents) = 0
    BY <1>1, ContentsStep
  <2> QED BY <2>1, EmptySeq
<1>4. thread[p].op \in {"pop_front", "pop_back"}
  BY <1>1, OpFacts
<1>5. CallsSeen[p].op = thread[p].op /\ ~CallsSeen[p].done /\ Abstract!Answer(p, NoTask)
  BY <1>1, AnswerFacts
<1>6. Abstract!FindNothing(p)
  BY <1>2, <1>3, <1>5 DEF Abstract!FindNothing
<1> QED BY <1>4, <1>5, <1>6 DEF Abstract!Effect

LEMMA CallSimulates ==
  ASSUME Control, NEW s, ListInv(s), Control', NEW p \in Threads, Calls(s, p)
  PROVE  Abstract!Call(p)
<1>1. /\ KeepsData /\ OthersStay(p) /\ ListInv(s)'
      /\ thread[p] = Idle /\ thread'[p].op \in Operations /\ ~Done(p)'
      /\ thread'[p].task = NoTask <=> thread'[p].op # "push_back"
  BY DEF Calls
<1>2. Contents' = Contents
  BY <1>1, ContentsSame
<1>3. ~Done(p) /\ thread[p].op = "none" /\ thread[p].task = NoTask
  BY <1>1 DEF Done, Idle
<1>4. CallsSeen[p] = Abstract!Idle
  <2>1. CallsSeen[p] = [op |-> thread[p].op, task |-> thread[p].task, done |-> Done(p)]
    BY <1>1, CallsSeenStep
  <2>2. Done(p) = FALSE
    BY <1>3
  <2> QED BY <1>3, <2>1, <2>2 DEF Abstract!Idle
<1>5. CallsSeen' = [CallsSeen EXCEPT ![p] = [op |-> thread'[p].op, task |-> thread'[p].task, done |-> FALSE]]
  <2>1. CallsSeen' = [CallsSeen EXCEPT ![p] = [op |-> thread'[p].op, task |-> thread'[p].task, done |-> Done(p)']]
    BY <1>1, CallsSeenStep
  <2>2. Done(p)' = FALSE
    BY <1>1
  <2> QED BY <2>1, <2>2
<1>6. thread'[p].task \in Tasks \cup {NoTask}
  <2>1. thread' \in [Threads -> ThreadStates]
    BY DEF Control, TypeOK, ThreadStates
  <2> QED BY <2>1 DEF ThreadStates
<1> QED BY <1>1, <1>2, <1>4, <1>5, <1>6 DEF Abstract!Call, Abstract!Operations, Operations

LEMMA ReturnSimulates ==
  ASSUME Control, NEW s, ListInv(s), Control', NEW p \in Threads, Returns(s, p)
  PROVE  Abstract!Return(p)
<1>1. KeepsData /\ OthersStay(p) /\ ListInv(s)' /\ Done(p) /\ thread'[p] = Idle
  BY DEF Returns
<1>2. Contents' = Contents
  BY <1>1, ContentsSame
<1>3. CallsSeen[p].done
  <2>1. CallsSeen[p] = [op |-> thread[p].op, task |-> thread[p].task, done |-> Done(p)]
    BY <1>1, CallsSeenStep
  <2> QED BY <1>1, <2>1
<1>4. CallsSeen' = [CallsSeen EXCEPT ![p] = Abstract!Idle]
  <2>1. CallsSeen' = [CallsSeen EXCEPT ![p] = [op |-> thread'[p].op, task |-> thread'[p].task, done |-> Done(p)']]
    BY <1>1, CallsSeenStep
  <2>2. Done(p)' = FALSE
    BY <1>1 DEF Done, Idle
  <2>3. thread'[p].op = "none" /\ thread'[p].task = NoTask
    BY <1>1 DEF Idle
  <2> QED BY <2>1, <2>2, <2>3 DEF Abstract!Idle
<1> QED BY <1>2, <1>3, <1>4 DEF Abstract!Return

LEMMA SteadySimulates ==
  ASSUME Control, NEW s, ListInv(s), Control', NEW p \in Threads, Steady(s, p)
  PROVE  UNCHANGED Abstract!vars
<1>1. Contents' = Contents
  BY ContentsSame DEF Steady
<1>2. CallsSeen' = CallsSeen
  <2>1. \A q \in Threads : q # p => thread'[q] = thread[q] /\ (Done(q)' = Done(q))
    BY OthersSame DEF OthersStay, Done, Steady
  <2>2. thread'[p].op = thread[p].op /\ thread'[p].task = thread[p].task /\ (Done(p)' = Done(p))
    <3>1. Done(p)' <=> Done(p)
      BY DEF Steady
    <3>2. Done(p)' \in BOOLEAN /\ Done(p) \in BOOLEAN
      BY DEF Done
    <3> QED BY <3>1, <3>2 DEF Steady
  <2>3. \A q \in Threads : thread'[q].op = thread[q].op /\ thread'[q].task = thread[q].task /\ (Done(q)' = Done(q))
    BY <2>1, <2>2
  <2> QED BY <2>3 DEF CallsSeen
<1> QED BY <1>1, <1>2 DEF Abstract!vars

LEMMA InitSimulates == IInv /\ Init => Abstract!Init
<1> SUFFICES ASSUME IInv, Init PROVE Abstract!Init
  OBVIOUS
<1> PICK s : s = Chain
  OBVIOUS
<1>1. Control /\ ListInv(s)
  BY DEF IInv
<1>2. \A x \in heap : node[x].data \in Tasks
  <2>1. PICK n \in Lengths : heap = 1..n /\ \A x \in Nodes : x \in heap => node[x].data = x
    BY DEF Init
  <2>2. 1..n \subseteq Tasks /\ 1..n \subseteq Nodes
    BY BoundsAssumption DEF Tasks, Nodes
  <2> QED BY <2>1, <2>2
<1>3. Contents \in Seq(Tasks)
  <2>1. /\ Len(s) \in Nat /\ Contents \in Seq(Data) /\ Len(Contents) = Len(s)
        /\ \A i \in 1..Len(s) : Contents[i] = node[s[i]].data
    BY <1>1, ContentsType DEF Control, ListInv
  <2>2. \A i \in 1..Len(s) : Contents[i] \in Tasks
    BY <1>1, <1>2, <2>1 DEF ListInv, Owned
  <2>3. Contents \in [1..Len(s) -> Tasks]
    BY <2>1, <2>2
  <2> QED BY <2>1, <2>3, FunctionIsSeq
<1>4. CallsSeen = [p \in Threads |-> Abstract!Idle]
  <2>1. \A p \in Threads : thread[p].op = "none" /\ thread[p].task = NoTask /\ (Done(p) = FALSE)
    BY DEF Init, Idle, Done
  <2> QED BY <2>1 DEF CallsSeen, Abstract!Idle
<1> QED BY <1>3, <1>4 DEF Abstract!Init

LEMMA NextSimulates == IInv /\ [Next]_vars => [Abstract!Next]_(Abstract!vars)
<1> SUFFICES ASSUME IInv, [Next]_vars PROVE [Abstract!Next]_(Abstract!vars)
  OBVIOUS
<1> PICK s : s = Chain
  OBVIOUS
<1>1. Control /\ ListInv(s)
  BY DEF IInv
<1>2. CASE Next
  <2>1. PICK p \in Threads : CallPush(p) \/ CallPop(p) \/ Step(p)
    BY <1>2 DEF Next
  <2>2. Control' /\ Outcome(s, p)
    BY <1>1, <2>1, StepOutcome
  <2>3. \/ Abstract!Effect(p) \/ Abstract!Call(p) \/ Abstract!Return(p)
        \/ UNCHANGED Abstract!vars
    BY <1>1, <2>2, SteadySimulates, PushSimulates, PopFrontSimulates, PopBackSimulates,
       FindNothingSimulates, CallSimulates, ReturnSimulates DEF Outcome
  <2> QED BY <2>3 DEF Abstract!Next
<1>3. CASE UNCHANGED vars
  <2>1. Contents' = Contents
    BY <1>3 DEF Contents, Chain, Hops, vars, memory
  <2>2. CallsSeen' = CallsSeen
    BY <1>3 DEF CallsSeen, Done, vars
  <2> QED BY <2>1, <2>2 DEF Abstract!vars
<1> QED BY <1>2, <1>3

(* A ConcurrentDeque is linearizable: whoever calls what, and however the  *)
(* steps are interleaved, push_back, pop_front and pop_back take effect at *)
(* once between the call and the return, and a pop finds nothing only when *)
(* the list is empty.                                                      *)
THEOREM ListImplementsDeque == Mutexes /\ Spec => ImplementsDeque
<1> SUFFICES ASSUME Mutexes PROVE Spec => ImplementsDeque
  OBVIOUS
<1> QED BY SpecIInv, InitSimulates, NextSimulates, PTL DEF Spec, ImplementsDeque, Abstract!Spec
=============================================================================
