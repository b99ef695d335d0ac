--------------------------- MODULE DispatchProofs ---------------------------
(***************************************************************************)
(* Proofs about Dispatch, for any topology of equal sockets, any number of *)
(* threads, either assignment, and any clients and policies: every ticket  *)
(* is accepted by a worker, and what it says about sockets and units; and  *)
(* the alternating policy serves the units in turn.                        *)
(*                                                                         *)
(* The orders of units are numbers of predecessors: a strict order of a    *)
(* finite set is in bijection with 0, 1, 2, ...                            *)
(***************************************************************************)
EXTENDS Dispatch, FiniteSetTheorems, SequenceTheorems, TLAPS

-----------------------------------------------------------------------------
(* Orders of units. *)

(* Positions are compared modulo the number of units.                      *)
LEMMA Remainder ==
  ASSUME NEW a \in Int, NEW n \in Nat, n > 0
  PROVE  a % n \in 0..(n - 1)
  BY SMTT(30)

LEMMA LpusFinite == IsFiniteSet(Lpus) /\ Cardinality(Lpus) = NumLpus /\ 0 \in Lpus /\ NumLpus \in Nat
<1>1. NumLpus \in Nat /\ NumLpus >= 2
  BY SizeAssumption DEF None
<1> QED BY <1>1, FS_Interval DEF Lpus

(* A set that has one element more, at least, is larger.                   *)
LEMMA Larger ==
  ASSUME NEW S \in SUBSET Lpus, NEW T \in SUBSET Lpus, S \subseteq T, NEW x \in T, x \notin S
  PROVE  Cardinality(S) \in Nat /\ Cardinality(T) \in Nat /\ Cardinality(S) < Cardinality(T)
<1>1. IsFiniteSet(S) /\ IsFiniteSet(T)
  BY LpusFinite, FS_Subset
<1>2. Cardinality(S) \in Nat /\ Cardinality(T) \in Nat
  BY <1>1, FS_CardinalityType
<1>3. Cardinality(S) <= Cardinality(T) /\ Cardinality(S) # Cardinality(T)
  BY <1>1, FS_Subset
<1> QED BY <1>2, <1>3

(* The predecessors in a strict order, and how many there are.             *)
IsOrder(B) ==
    /\ B \in [Lpus -> SUBSET Lpus]
    /\ \A l \in Lpus : l \notin B[l]
    /\ \A k, l \in Lpus : k \in B[l] => B[k] \subseteq B[l]
    /\ \A k, l \in Lpus : k # l => k \in B[l] \/ l \in B[k]

IsNumbering(pos) ==
    /\ pos \in [Lpus -> Lpus]
    /\ \A k, l \in Lpus : pos[k] = pos[l] => k = l
    /\ \A n \in Lpus : \E l \in Lpus : pos[l] = n

LEMMA Numbered ==
  ASSUME NEW B, IsOrder(B), NEW pos, pos = [l \in Lpus |-> Cardinality(B[l])]
  PROVE  IsNumbering(pos)
<1>1. \A l \in Lpus : B[l] \in SUBSET Lpus /\ pos[l] = Cardinality(B[l])
  BY DEF IsOrder
<1>2. ASSUME NEW l \in Lpus PROVE pos[l] \in Lpus
  <2>1. l \notin B[l]
    BY DEF IsOrder
  <2>2. Cardinality(B[l]) \in Nat /\ Cardinality(B[l]) < NumLpus
    BY <1>1, <2>1, Larger, LpusFinite
  <2> QED BY <1>1, <2>2, LpusFinite DEF Lpus
<1>3. ASSUME NEW k \in Lpus, NEW l \in Lpus, k \in B[l] PROVE pos[k] # pos[l]
  <2>1. B[k] \subseteq B[l] /\ k \notin B[k]
    BY <1>3 DEF IsOrder
  <2>2. /\ Cardinality(B[k]) \in Nat /\ Cardinality(B[l]) \in Nat
        /\ Cardinality(B[k]) < Cardinality(B[l])
    BY <1>1, <1>3, <2>1, Larger
  <2> QED BY <1>1, <2>2
<1>4. pos \in [Lpus -> Lpus]
  BY <1>2
<1>5. \A k, l \in Lpus : pos[k] = pos[l] => k = l
  BY <1>3 DEF IsOrder
<1>6. pos \in Injection(Lpus, Lpus)
  BY <1>4, <1>5 DEF Injection, IsInjective
<1>7. pos \in Surjection(Lpus, Lpus)
  BY <1>6, LpusFinite, FS_Injection
<1>8. \A n \in Lpus : \E l \in Lpus : pos[l] = n
  BY <1>7 DEF Surjection
<1> QED BY <1>4, <1>5, <1>8 DEF IsNumbering

\* The predecessors on a unit's socket, and in the two orders.
Beside(l) == {k \in Lpus : SocketOf[k] = SocketOf[l] /\ k < l}

LinearBefore == [l \in Lpus |-> {k \in Lpus : \/ SocketOf[k] < SocketOf[l]
                                              \/ SocketOf[k] = SocketOf[l] /\ k < l}]

AlternatingBefore == [l \in Lpus |-> {k \in Lpus : \/ Rank(k) < Rank(l)
                                                   \/ Rank(k) = Rank(l) /\ SocketOf[k] < SocketOf[l]}]

LEMMA UnitTypes == \A l \in Lpus : l \in Nat /\ SocketOf[l] \in Nat
  BY SizeAssumption, SocketAssumption DEF Lpus, Sockets

LEMMA RankFacts ==
  /\ \A l \in Lpus : Rank(l) \in Nat
  /\ \A k, l \in Lpus : SocketOf[k] = SocketOf[l] /\ Rank(k) = Rank(l) => k = l
<1>1. ASSUME NEW l \in Lpus PROVE Rank(l) = Cardinality(Beside(l)) /\ Rank(l) \in Nat
  <2>1. IsFiniteSet(Beside(l))
    BY LpusFinite, FS_Subset DEF Beside
  <2> QED BY <2>1, FS_CardinalityType DEF Rank, Beside
<1>2. ASSUME NEW k \in Lpus, NEW l \in Lpus, SocketOf[k] = SocketOf[l], k < l PROVE Rank(k) # Rank(l)
  <2>1. /\ Beside(k) \in SUBSET Lpus /\ Beside(l) \in SUBSET Lpus
        /\ Beside(k) \subseteq Beside(l) /\ k \in Beside(l) /\ k \notin Beside(k)
    BY <1>2, UnitTypes DEF Beside
  <2>2. Cardinality(Beside(k)) < Cardinality(Beside(l))
    BY <2>1, Larger
  <2> QED BY <1>1, <2>2
<1>3. \A k, l \in Lpus : k = l \/ k < l \/ l < k
  BY UnitTypes
<1> QED BY <1>1, <1>2, <1>3

LEMMA LinearNumbering == IsNumbering(LinearPos)
<1>1. IsOrder(LinearBefore)
  BY UnitTypes DEF IsOrder, LinearBefore
<1>2. LinearPos = [l \in Lpus |-> Cardinality(LinearBefore[l])]
  BY DEF LinearPos, LinearBefore
<1> QED BY <1>1, <1>2, Numbered

LEMMA AlternatingNumbering == IsNumbering(AlternatingPos)
<1>1. IsOrder(AlternatingBefore)
  <2>1. AlternatingBefore \in [Lpus -> SUBSET Lpus]
    BY DEF AlternatingBefore
  <2>2. \A k, l \in Lpus : k \in AlternatingBefore[l] <=>
            Rank(k) < Rank(l) \/ (Rank(k) = Rank(l) /\ SocketOf[k] < SocketOf[l])
    BY DEF AlternatingBefore
  <2>3. \A l \in Lpus : l \notin AlternatingBefore[l]
    BY <2>2, UnitTypes, RankFacts
  <2>4. ASSUME NEW k \in Lpus, NEW l \in Lpus, k \in AlternatingBefore[l], NEW m \in AlternatingBefore[k]
        PROVE  m \in AlternatingBefore[l]
    <3>1. m \in Lpus
      BY <2>1
    <3> QED BY <2>2, <2>4, <3>1, UnitTypes, RankFacts
  <2>5. \A k, l \in Lpus : k # l => k \in AlternatingBefore[l] \/ l \in AlternatingBefore[k]
    <3> SUFFICES ASSUME NEW k \in Lpus, NEW l \in Lpus, k # l
                 PROVE  k \in AlternatingBefore[l] \/ l \in AlternatingBefore[k]
      OBVIOUS
    <3>1. Rank(k) < Rank(l) \/ Rank(l) < Rank(k) \/ Rank(k) = Rank(l)
      BY RankFacts
    <3>2. Rank(k) = Rank(l) => SocketOf[k] < SocketOf[l] \/ SocketOf[l] < SocketOf[k]
      BY UnitTypes, RankFacts
    <3> QED BY <2>2, <3>1, <3>2
  <2> QED BY <2>1, <2>3, <2>4, <2>5 DEF IsOrder
<1>2. AlternatingPos = [l \in Lpus |-> Cardinality(AlternatingBefore[l])]
  BY DEF AlternatingPos, AlternatingBefore
<1> QED BY <1>1, <1>2, Numbered

(* Unit 0 is the first one in both orders.                                 *)
LEMMA FirstUnit == LinearPos[0] = 0 /\ AlternatingPos[0] = 0
<1>1. LinearBefore[0] = {} /\ Beside(0) = {}
  BY UnitTypes, LpusFinite, SocketAssumption DEF LinearBefore, Beside
<1>2. Rank(0) = 0
  BY <1>1, FS_EmptySet DEF Rank, Beside
<1>3. AlternatingBefore[0] = {}
  BY <1>2, RankFacts, UnitTypes, LpusFinite, SocketAssumption DEF AlternatingBefore
<1> QED BY <1>1, <1>3, LpusFinite, FS_EmptySet DEF LinearPos, AlternatingPos, LinearBefore, AlternatingBefore

-----------------------------------------------------------------------------
(* Threads on units. *)

LEMMA AssignedNumbering == IsNumbering(AssignedPos) /\ AssignedPos[0] = 0
  BY LinearNumbering, AlternatingNumbering, FirstUnit DEF AssignedPos

LEMMA LpuOfFacts ==
  ASSUME NEW w \in Workers
  PROVE  LpuOf(w) \in Lpus /\ AssignedPos[LpuOf(w)] = w % NumLpus
<1>1. w \in Nat /\ NumLpus \in Nat /\ NumLpus > 0
  BY SizeAssumption, LpusFinite DEF Workers, None
<1>2. w % NumLpus \in Lpus
  BY <1>1, Remainder DEF Lpus
<1>3. \E l \in Lpus : AssignedPos[l] = w % NumLpus
  BY <1>2, AssignedNumbering DEF IsNumbering
<1> QED BY <1>3 DEF LpuOf

LEMMA ThreadedFacts == Threaded \subseteq Lpus /\ 0 \in Threaded /\ 0 \in Workers
<1>1. 0 \in Workers
  BY SizeAssumption DEF Workers
<1>2. 0 % NumLpus = 0
  BY SizeAssumption DEF None
<1>3. LpuOf(0) = 0
  BY <1>1, <1>2, LpuOfFacts, AssignedNumbering, LpusFinite DEF IsNumbering
<1>4. 0 \in Threaded
  BY <1>1, <1>3 DEF Threaded
<1> QED BY <1>1, <1>4, LpuOfFacts DEF Threaded

(* A set of numbers has a smallest one: n is below m when 0..n is a proper *)
(* subset of 0..m, a well-founded order.                                   *)
LEMMA Smallest ==
  ASSUME NEW T \in SUBSET Nat, T # {}
  PROVE  \E m \in T : \A n \in T : m <= n
<1> DEFINE U == {0..n : n \in T}
           R == StrictSubsetOrdering(Nat)
<1>1. U \subseteq FiniteSubsetsOf(Nat) /\ U # {}
  <2>1. \A n \in T : 0..n \in SUBSET Nat /\ IsFiniteSet(0..n)
    BY FS_Interval
  <2> QED BY <2>1 DEF FiniteSubsetsOf
<1>2. IsWellFoundedOn(R, FiniteSubsetsOf(Nat))
  BY FS_StrictSubsetOrderingWellFounded
<1>3. \E x \in U : \A y \in U : ~(<<y, x>> \in R)
  <2> HIDE DEF U, R
  <2> QED BY <1>1, <1>2, WFMin
<1>4. PICK m \in T : \A n \in T : <<0..n, 0..m>> \notin R
  BY <1>3
<1>5. ASSUME NEW n \in T, n < m PROVE FALSE
  <2>1. 0..n \in SUBSET Nat /\ 0..m \in SUBSET Nat /\ 0..n \subseteq 0..m /\ m \in 0..m /\ m \notin 0..n
    BY <1>5
  <2>2. <<0..n, 0..m>> \in R
    BY <2>1 DEF StrictSubsetOrdering
  <2> QED BY <1>4, <2>2
<1> QED BY <1>5

LEMMA FollowerFacts ==
  ASSUME NEW l \in Lpus, NEW S \in SUBSET Lpus, S # {}, NEW pos, IsNumbering(pos)
  PROVE  \E k \in S : /\ Follower(l, S, pos) = k
                      /\ \A j \in S : (pos[k] - pos[l] - 1) % NumLpus <= (pos[j] - pos[l] - 1) % NumLpus
<1> DEFINE Distance(k) == (pos[k] - pos[l] - 1) % NumLpus
           T == {Distance(k) : k \in S}
<1>1. \A k \in S : Distance(k) \in Nat
  <2>1. \A k \in Lpus : pos[k] \in Int
    <3>1. \A k \in Lpus : pos[k] \in Lpus
      BY DEF IsNumbering
    <3>2. Lpus \subseteq Int
      BY DEF Lpus
    <3> QED BY <3>1, <3>2
  <2>2. NumLpus \in Nat /\ NumLpus > 0
    BY SizeAssumption DEF None
  <2>3. ASSUME NEW k \in S PROVE Distance(k) \in Nat
    <3>1. PICK a \in Int : a = pos[k] - pos[l] - 1
      BY <2>1
    <3>2. a % NumLpus \in 0..(NumLpus - 1)
      BY <2>2, Remainder
    <3> QED BY <2>2, <3>1, <3>2
  <2> HIDE DEF Distance
  <2> QED BY <2>3
<1>2. T \in SUBSET Nat /\ T # {}
  BY <1>1
<1>3. \E m \in T : \A n \in T : m <= n
  <2> HIDE DEF T
  <2> QED BY <1>2, Smallest
<1>4. \E k \in S : \A j \in S : Distance(k) <= Distance(j)
  <2> HIDE DEF Distance
  <2> QED BY <1>3
<1>5. PICK f : f = CHOOSE k \in S : \A j \in S : Distance(k) <= Distance(j)
  OBVIOUS
<1>6. f \in S /\ \A j \in S : Distance(f) <= Distance(j)
  <2> HIDE DEF Distance
  <2> QED BY <1>4, <1>5
<1>7. Follower(l, S, pos) = f
  BY <1>5 DEF Follower
<1> QED BY <1>6, <1>7

(* The successors are units with a thread.                                 *)
LEMMA Successors ==
  ASSUME NEW l \in Threaded
  PROVE  LinearEnqueueSucc[l] \in Threaded /\ AlternatingEnqueueSucc[l] \in Threaded
<1>1. l \in Lpus /\ Threaded \in SUBSET Lpus
  BY ThreadedFacts
<1>2. PICK S : S = {k \in Threaded : SocketOf[k] = SocketOf[l]}
  OBVIOUS
<1>3. S \in SUBSET Lpus /\ S # {} /\ S \subseteq Threaded
  BY <1>1, <1>2
<1>4. Follower(l, S, LinearPos) \in S
  BY <1>1, <1>3, LinearNumbering, FollowerFacts
<1>5. Follower(l, Threaded, AlternatingPos) \in Threaded
  BY <1>1, AlternatingNumbering, FollowerFacts
<1>6. LinearEnqueueSucc[l] = Follower(l, S, LinearPos)
  BY <1>2 DEF LinearEnqueueSucc
<1>7. AlternatingEnqueueSucc[l] = Follower(l, Threaded, AlternatingPos)
  BY DEF AlternatingEnqueueSucc
<1> QED BY <1>3, <1>4, <1>5, <1>6, <1>7

-----------------------------------------------------------------------------
(* Tickets. *)

Tickets == [socket : Requirements(Sockets), sched : Requirements(Lpus), how : PolicyNames, arg : Nat]

(* A ticket names units and sockets with a thread only; one that refers to *)
(* an earlier ticket follows it.                                           *)
Good(t, ts) ==
    /\ t.sched \in Requirements(Threaded)
    /\ t.socket # None => \E l \in Threaded : SocketOf[l] = t.socket
    /\ t.how = "same_core_as" => t.arg \in 1..Len(ts) /\ t.sched = ts[t.arg].sched
    /\ t.how = "same_socket_as" =>
           /\ t.arg \in 1..Len(ts) /\ t.sched = None
           /\ t.socket = IF ts[t.arg].sched = None THEN None ELSE SocketOf[ts[t.arg].sched]

ApplyingStates(n) == [at : {"idle", "policy", "assigned"}, ticket : 0..n]

DInv == /\ tickets \in Seq(Tickets)
        /\ last \in 0..Len(tickets)
        /\ applying \in [Clients -> ApplyingStates(Len(tickets))]
        /\ \A i \in 1..Len(tickets) : Good(tickets[i], tickets)

LEMMA TicketType ==
  ASSUME NEW x \in Requirements(Sockets), NEW y \in Requirements(Lpus), NEW h \in PolicyNames, NEW a \in Nat
  PROVE  /\ Ticket(x, y, h, a) \in Tickets
         /\ Ticket(x, y, h, a).socket = x /\ Ticket(x, y, h, a).sched = y
         /\ Ticket(x, y, h, a).how = h /\ Ticket(x, y, h, a).arg = a
  BY DEF Ticket, Tickets

LEMMA NoneApart == None \notin Lpus /\ None \notin Sockets /\ None \in Nat /\ Lpus \subseteq Nat
  BY SizeAssumption DEF None, Lpus, Sockets

LEMMA NewTicketsGood ==
  ASSUME DInv, NEW l \in 0..Len(tickets), NEW t \in NewTickets(l)
  PROVE  t \in Tickets /\ Good(t, tickets)
<1>0. /\ None \in Requirements(Sockets) /\ None \in Requirements(Lpus) /\ None \in Requirements(Threaded)
      /\ Threaded \subseteq Lpus /\ 0 \in Threaded /\ \A k \in Lpus : SocketOf[k] \in Sockets
      /\ Requirements(Threaded) \subseteq Requirements(Lpus)
      /\ \A h \in {"any_core", "on_core", "same_core_as", "on_socket", "same_socket_as",
                   "linear_socket", "alternating_socket"} : h \in PolicyNames
  BY ThreadedFacts, SocketAssumption DEF Requirements, PolicyNames
<1>1. /\ \A i \in 1..Len(tickets) : tickets[i] \in Tickets /\ Good(tickets[i], tickets)
      /\ Len(tickets) \in Nat
  BY ElementOfSeq, LenProperties DEF DInv
<1>2. CASE t = Ticket(None, None, "any_core", None)
  BY <1>0, <1>2, TicketType, NoneApart DEF Good
<1>3. ASSUME NEW c \in 0..NumLpus, t = OnCore(c) PROVE t \in Tickets /\ Good(t, tickets)
  <2>1. PICK y \in Requirements(Threaded) : t = Ticket(None, y, "on_core", c)
    BY <1>0, <1>3 DEF OnCore, Requirements
  <2>2. c \in Nat
    BY LpusFinite
  <2> QED BY <1>0, <2>1, <2>2, TicketType DEF Good
<1>4. ASSUME NEW s \in 0..NumSockets, t = OnSocket(s) PROVE t \in Tickets /\ Good(t, tickets)
  <2>1. PICK x : /\ t = Ticket(x, None, "on_socket", s)
                 /\ x = None \/ \E k \in Threaded : SocketOf[k] = x
    BY <1>4 DEF OnSocket
  <2>2. x \in Requirements(Sockets)
    BY <1>0, <2>1 DEF Requirements
  <2>3. s \in Nat
    BY SizeAssumption, LpusFinite
  <2> QED BY <1>0, <2>1, <2>2, <2>3, TicketType DEF Good
<1>5. ASSUME NEW i \in 1..Len(tickets), t = SameCore(i) PROVE t \in Tickets /\ Good(t, tickets)
  <2>1. t = Ticket(None, tickets[i].sched, "same_core_as", i) /\ i \in Nat
    BY <1>5 DEF SameCore
  <2>2. tickets[i].sched \in Requirements(Threaded)
    BY <1>1 DEF Good
  <2> QED BY <1>0, <2>1, <2>2, TicketType DEF Good
<1>6. ASSUME NEW i \in 1..Len(tickets), t = SameSocket(i) PROVE t \in Tickets /\ Good(t, tickets)
  <2>1. PICK x : /\ t = Ticket(x, None, "same_socket_as", i)
                 /\ x = IF tickets[i].sched = None THEN None ELSE SocketOf[tickets[i].sched]
    BY <1>6 DEF SameSocket
  <2>2. x # None => x \in Sockets /\ \E k \in Threaded : SocketOf[k] = x
    BY <1>0, <1>1, <2>1 DEF Good, Requirements
  <2>3. x \in Requirements(Sockets) /\ i \in Nat
    BY <2>2 DEF Requirements
  <2> QED BY <1>0, <2>1, <2>2, <2>3, TicketType DEF Good
<1>7. ASSUME NEW succ, NEW h, h \in {"linear_socket", "alternating_socket"}, t = After(l, succ, h),
             \A k \in Threaded : succ[k] \in Threaded
      PROVE  t \in Tickets /\ Good(t, tickets)
  <2>1. SchedOf(l) \in Requirements(Threaded)
    <3>1. CASE l = 0
      BY <1>0, <3>1 DEF SchedOf
    <3>2. CASE l # 0
      <4>1. l \in 1..Len(tickets)
        BY <1>1, <3>2
      <4> QED BY <1>1, <3>2, <4>1 DEF SchedOf, Good
    <3> QED BY <3>1, <3>2
  <2>2. PICK k \in Threaded : t = Ticket(SocketOf[k], k, h, None)
    <3>1. (IF SchedOf(l) = None THEN 0 ELSE succ[SchedOf(l)]) \in Threaded
      BY <1>0, <1>7, <2>1 DEF Requirements
    <3> QED BY <1>7, <3>1 DEF After
  <2>3. SocketOf[k] \in Requirements(Sockets) /\ k \in Requirements(Lpus) /\ k \in Requirements(Threaded)
    BY <1>0 DEF Requirements
  <2>4. h \in PolicyNames /\ None \in Nat /\ SocketOf[k] \in Requirements(Sockets)
    BY <1>0, <1>7, <2>3, NoneApart
  <2>5. /\ t \in Tickets
        /\ t.socket = SocketOf[k] /\ t.sched = k /\ t.how = h
    BY <2>2, <2>3, <2>4, TicketType
  <2>6. t.how # "same_core_as" /\ t.how # "same_socket_as"
    BY <1>7, <2>5
  <2> QED BY <2>3, <2>5, <2>6 DEF Good
<1>8. CASE \/ t = After(l, LinearEnqueueSucc, "linear_socket")
           \/ t = After(l, AlternatingEnqueueSucc, "alternating_socket")
  BY <1>7, <1>8, Successors
<1> QED BY <1>2, <1>3, <1>4, <1>5, <1>6, <1>8 DEF NewTickets

LEMMA GoodStays ==
  ASSUME NEW ts \in Seq(Tickets), NEW u \in Tickets, NEW t, Good(t, ts)
  PROVE  Good(t, Append(ts, u))
<1>1. /\ Len(ts) \in Nat /\ Len(Append(ts, u)) = Len(ts) + 1
      /\ \A i \in 1..Len(ts) : Append(ts, u)[i] = ts[i]
  BY AppendProperties, LenProperties
<1>2. \A i \in 1..Len(ts) : i \in 1..Len(Append(ts, u))
  BY <1>1
<1> QED BY <1>1, <1>2 DEF Good

LEMMA InitDInv == Init => DInv
<1> SUFFICES ASSUME Init PROVE DInv
  OBVIOUS
<1>1. tickets \in Seq(Tickets) /\ Len(tickets) = 0
  BY EmptySeq DEF Init
<1> QED BY <1>1 DEF Init, DInv, Applying, ApplyingStates

LEMMA NextDInv == DInv /\ [Next]_vars => DInv'
<1> SUFFICES ASSUME DInv, [Next]_vars PROVE DInv'
  OBVIOUS
<1>0. /\ tickets \in Seq(Tickets) /\ Len(tickets) \in Nat /\ last \in 0..Len(tickets)
      /\ applying \in [Clients -> ApplyingStates(Len(tickets))]
  BY LenProperties DEF DInv
<1>1. ASSUME NEW c \in Clients, MakePolicy(c) PROVE DInv'
  <2>1. applying' \in [Clients -> ApplyingStates(Len(tickets))] /\ UNCHANGED <<tickets, last>>
    BY <1>0, <1>1 DEF MakePolicy, Applying, ApplyingStates
  <2> QED BY <2>1 DEF DInv
<1>2. ASSUME NEW c \in Clients, Assign(c) PROVE DInv'
  <2>1. applying[c].ticket \in 0..Len(tickets)
    BY <1>0 DEF ApplyingStates
  <2>2. PICK t \in NewTickets(applying[c].ticket) : tickets' = Append(tickets, t)
    BY <1>2 DEF Assign, CallPolicy
  <2>3. t \in Tickets /\ Good(t, tickets)
    BY <2>1, NewTicketsGood
  <2>4. /\ tickets' \in Seq(Tickets) /\ Len(tickets') = Len(tickets) + 1
        /\ \A i \in 1..Len(tickets) : tickets'[i] = tickets[i]
        /\ tickets'[Len(tickets) + 1] = t
    BY <1>0, <2>2, <2>3, AppendProperties
  <2>5. ASSUME NEW i \in 1..Len(tickets') PROVE Good(tickets'[i], tickets')
    <3>1. Good(tickets'[i], tickets)
      <4>1. CASE i = Len(tickets) + 1
        BY <2>3, <2>4, <4>1
      <4>2. CASE i # Len(tickets) + 1
        <5>1. i \in 1..Len(tickets)
          BY <1>0, <2>4, <4>2
        <5> QED BY <2>4, <5>1 DEF DInv
      <4> QED BY <4>1, <4>2
    <3> QED BY <1>0, <2>2, <2>3, <3>1, GoodStays
  <2>6. last' \in 0..Len(tickets')
    BY <1>0, <1>2, <2>4 DEF Assign
  <2>7. applying' \in [Clients -> ApplyingStates(Len(tickets'))]
    <3>1. ApplyingStates(Len(tickets)) \subseteq ApplyingStates(Len(tickets'))
      BY <1>0, <2>4 DEF ApplyingStates
    <3>2. Applying("assigned", Len(tickets')) \in ApplyingStates(Len(tickets'))
      BY <1>0, <2>4 DEF Applying, ApplyingStates
    <3>3. applying' = [applying EXCEPT ![c] = Applying("assigned", Len(tickets'))]
      BY <1>2 DEF Assign, CallPolicy
    <3> QED BY <1>0, <3>1, <3>2, <3>3
  <2> QED BY <2>4, <2>5, <2>6, <2>7 DEF DInv
<1>3. ASSUME NEW c \in Clients, ReturnLast(c) PROVE DInv'
  <2>1. applying' \in [Clients -> ApplyingStates(Len(tickets))] /\ UNCHANGED <<tickets, last>>
    BY <1>0, <1>3 DEF ReturnLast, Applying, ApplyingStates
  <2> QED BY <2>1 DEF DInv
<1>4. CASE UNCHANGED vars
  BY <1>4 DEF vars, DInv
<1> QED BY <1>1, <1>2, <1>3, <1>4 DEF Next

-----------------------------------------------------------------------------
(* Who accepts them. *)

LEMMA DInvServed == DInv => EveryTicketIsServed
<1> SUFFICES ASSUME DInv, NEW i \in 1..Len(tickets)
             PROVE  /\ Acceptors(tickets[i]) # {}
                    /\ /\ tickets[i].how \in {"same_core_as", "same_socket_as"}
                       /\ tickets[tickets[i].arg].sched # None
                       => \A w \in Acceptors(tickets[i]) :
                              SocketOf[LpuOf(w)] = SocketOf[tickets[tickets[i].arg].sched]
  BY DEF EveryTicketIsServed
<1>1. Good(tickets[i], tickets) /\ 0 \in Workers /\ Threaded \subseteq Lpus
  BY ThreadedFacts DEF DInv
<1>2. Acceptors(tickets[i]) # {}
  <2>1. CASE tickets[i].sched # None
    <3>1. tickets[i].sched \in Threaded
      BY <1>1, <2>1 DEF Good, Requirements
    <3>2. PICK w \in Workers : LpuOf(w) = tickets[i].sched
      BY <3>1 DEF Threaded
    <3> QED BY <2>1, <3>2 DEF Acceptors, Accepts
  <2>2. CASE tickets[i].sched = None /\ tickets[i].socket = None
    BY <1>1, <2>2 DEF Acceptors, Accepts
  <2>3. CASE tickets[i].sched = None /\ tickets[i].socket # None
    <3>1. PICK l \in Threaded : SocketOf[l] = tickets[i].socket
      BY <1>1, <2>3 DEF Good
    <3>2. PICK w \in Workers : LpuOf(w) = l
      BY DEF Threaded
    <3> QED BY <2>3, <3>1, <3>2 DEF Acceptors, Accepts
  <2> QED BY <2>1, <2>2, <2>3
<1>3. ASSUME tickets[i].how \in {"same_core_as", "same_socket_as"},
             tickets[tickets[i].arg].sched # None, NEW w \in Acceptors(tickets[i])
      PROVE  SocketOf[LpuOf(w)] = SocketOf[tickets[tickets[i].arg].sched]
  <2>1. CASE tickets[i].how = "same_core_as"
    <3>1. tickets[i].sched = tickets[tickets[i].arg].sched
      BY <1>1, <2>1 DEF Good
    <3> QED BY <1>3, <3>1 DEF Acceptors, Accepts
  <2>2. CASE tickets[i].how = "same_socket_as"
    <3>1. /\ tickets[i].sched = None /\ tickets[i].arg \in 1..Len(tickets)
          /\ tickets[i].socket = SocketOf[tickets[tickets[i].arg].sched]
      BY <1>1, <1>3, <2>2 DEF Good
    <3>2. tickets[tickets[i].arg].sched \in Threaded
      BY <1>3, <3>1 DEF DInv, Good, Requirements
    <3>3. SocketOf[tickets[tickets[i].arg].sched] # None
      BY <1>1, <3>2, SocketAssumption, NoneApart
    <3> QED BY <3>1, <3>3 DEF Acceptors, Accepts
  <2> QED BY <1>3, <2>1, <2>2
<1> QED BY <1>2, <1>3

LEMMA DInvTypeOK == DInv => TypeOK
<1> SUFFICES ASSUME DInv PROVE TypeOK
  OBVIOUS
<1>1. \A i \in 1..Len(tickets) : tickets[i] \in Tickets
  BY ElementOfSeq DEF DInv
<1> QED BY <1>1 DEF DInv, TypeOK, Tickets, ApplyingStates

-----------------------------------------------------------------------------
(* Types: tickets name units and sockets that exist, or none, however      *)
(* policies are chained and whoever calls them.                            *)
THEOREM DispatchTypeOK == Spec => []TypeOK
  BY InitDInv, NextDInv, DInvTypeOK, PTL DEF Spec

(* No ticket asks for something that no worker has: no task waits for ever *)
(* because of where it was to run (thread_pool.cc, the successors;         *)
(* dispatch_policy.hh; thread_task.hh, TaskComp).  For both assignments,   *)
(* and any number of threads.                                              *)
THEOREM DispatchServes == Spec => []EveryTicketIsServed
  BY InitDInv, NextDInv, DInvServed, PTL DEF Spec

-----------------------------------------------------------------------------
(* Units in turn. *)

OneClient == \A c, d \in Clients : c = d

LEMMA PositionFacts ==
  /\ NumLpus \in Nat /\ NumLpus > 0
  /\ \A l \in Lpus : AlternatingPos[l] \in Nat /\ AlternatingPos[l] < NumLpus
  /\ \A k, l \in Lpus : AlternatingPos[k] = AlternatingPos[l] => k = l
<1>1. NumLpus \in Nat /\ NumLpus > 0
  BY SizeAssumption DEF None
<1>2. ASSUME NEW l \in Lpus PROVE AlternatingPos[l] \in Nat /\ AlternatingPos[l] < NumLpus
  <2>1. AlternatingPos[l] \in Lpus
    BY AlternatingNumbering DEF IsNumbering
  <2> QED BY <1>1, <2>1 DEF Lpus
<1> QED BY <1>1, <1>2, AlternatingNumbering DEF IsNumbering

(* How far it is from position p to position q, going up and around.       *)
LEMMA DistanceFacts ==
  ASSUME NEW n \in Nat, NEW p \in Nat, p < n, NEW q \in Nat, q < n
  PROVE  (q - p - 1) % n = IF p < q THEN q - p - 1 ELSE q - p - 1 + n
<1>1. CASE p < q
  <2>1. PICK a \in Nat : a = q - p - 1 /\ a < n
    BY <1>1
  <2>2. a % n = a
    BY <2>1
  <2> QED BY <1>1, <2>1, <2>2
<1>2. CASE ~(p < q)
  <2>1. PICK a \in Nat : a = q - p - 1 + n /\ a < n
    BY <1>2
  <2>2. (a - n) % n = a
    BY <2>1
  <2>3. a - n = q - p - 1
    BY <2>1
  <2> QED BY <1>2, <2>1, <2>2, <2>3
<1> QED BY <1>1, <1>2

(* The alternating successor is the next unit with a thread, or unit 0.    *)
LEMMA Alternates ==
  ASSUME NEW l \in Threaded, NEW f, f = AlternatingEnqueueSucc[l]
  PROVE  /\ f \in Threaded
         /\ \/ /\ AlternatingPos[l] < AlternatingPos[f]
               /\ \A k \in Threaded : AlternatingPos[k] <= AlternatingPos[l]
                                      \/ AlternatingPos[f] <= AlternatingPos[k]
            \/ f = 0 /\ \A k \in Threaded : AlternatingPos[k] <= AlternatingPos[l]
<1> PICK pos : pos = AlternatingPos
  OBVIOUS
<1>1. Threaded \in SUBSET Lpus /\ Threaded # {} /\ l \in Lpus /\ 0 \in Threaded /\ pos[0] = 0
  BY ThreadedFacts, FirstUnit
<1>2. PICK g \in Threaded :
          /\ Follower(l, Threaded, pos) = g
          /\ \A j \in Threaded : (pos[g] - pos[l] - 1) % NumLpus <= (pos[j] - pos[l] - 1) % NumLpus
  BY <1>1, AlternatingNumbering, FollowerFacts
<1>3. f = g
  BY <1>2 DEF AlternatingEnqueueSucc
<1>4. /\ NumLpus \in Nat
      /\ \A k \in Threaded : pos[k] \in Nat /\ pos[k] < NumLpus
      /\ \A k, j \in Threaded : pos[k] = pos[j] => k = j
  BY <1>1, PositionFacts
<1>5. \A k \in Threaded : (pos[k] - pos[l] - 1) % NumLpus
                          = IF pos[l] < pos[k] THEN pos[k] - pos[l] - 1 ELSE pos[k] - pos[l] - 1 + NumLpus
  BY <1>4, DistanceFacts
<1>6. CASE pos[l] < pos[f]
  <2>1. ASSUME NEW k \in Threaded, pos[l] < pos[k] PROVE pos[f] <= pos[k]
    <3>1. pos[f] - pos[l] - 1 <= pos[k] - pos[l] - 1
      BY <1>2, <1>3, <1>5, <1>6, <2>1
    <3> QED BY <1>2, <1>3, <1>4, <3>1
  <2> QED BY <1>2, <1>3, <1>4, <1>6, <2>1
<1>7. CASE ~(pos[l] < pos[f])
  <2>1. ASSUME NEW k \in Threaded, pos[l] < pos[k] PROVE FALSE
    <3>1. pos[f] - pos[l] - 1 + NumLpus <= pos[k] - pos[l] - 1
      BY <1>2, <1>3, <1>5, <1>7, <2>1
    <3> QED BY <1>2, <1>3, <1>4, <3>1
  <2>2. pos[f] <= 0
    <3>1. pos[f] - pos[l] - 1 + NumLpus <= pos[0] - pos[l] - 1 + NumLpus
      <4>1. ~(pos[l] < pos[0])
        BY <1>1, <2>1
      <4> QED BY <1>1, <1>2, <1>3, <1>5, <1>7, <4>1
    <3> QED BY <1>1, <1>2, <1>3, <1>4, <3>1
  <2>3. f = 0
    BY <1>1, <1>2, <1>3, <1>4, <2>2
  <2> QED BY <1>2, <1>3, <1>4, <2>1, <2>3
<1> QED BY <1>2, <1>3, <1>6, <1>7

(* With one client the history is the last ticket.                         *)
HistoryIsLast ==
    /\ last = Len(tickets)
    /\ \A c \in Clients : applying[c].at = "policy" => applying[c].ticket = last

(* The units up to the last one have got one task more than the others.    *)
TurnsUpTo(u, q) ==
    \A k \in Threaded : Dispatched(k) = IF AlternatingPos[k] <= AlternatingPos[u] THEN q + 1 ELSE q

InTurn ==
    (\A i \in 1..Len(tickets) : tickets[i].how = "alternating_socket") =>
        \/ tickets = <<>>
        \/ /\ tickets[Len(tickets)].sched \in Threaded
           /\ \E q \in Nat : TurnsUpTo(tickets[Len(tickets)].sched, q)

LEMMA InTurnTakesTurns == DInv /\ InTurn => UnitsTakeTurns
<1> SUFFICES ASSUME DInv, InTurn, \A i \in 1..Len(tickets) : tickets[i].how = "alternating_socket",
                    NEW k \in Threaded, NEW l \in Threaded
             PROVE  Dispatched(k) - Dispatched(l) \in -1..1
  BY DEF UnitsTakeTurns
<1>1. CASE tickets = <<>>
  <2>1. Len(<<>>) = 0 /\ 1..0 = {}
    OBVIOUS
  <2>2. Dispatched(k) = Cardinality({}) /\ Dispatched(l) = Cardinality({})
    BY <1>1, <2>1 DEF Dispatched
  <2> QED BY <2>2, FS_EmptySet
<1>2. CASE tickets # <<>>
  <2>1. PICK q \in Nat : TurnsUpTo(tickets[Len(tickets)].sched, q)
    BY <1>2 DEF InTurn
  <2>2. Dispatched(k) \in {q, q + 1} /\ Dispatched(l) \in {q, q + 1}
    BY <2>1 DEF TurnsUpTo
  <2> QED BY <2>2
<1> QED BY <1>1, <1>2

LEMMA NextHistory ==
  ASSUME OneClient, DInv, HistoryIsLast, [Next]_vars
  PROVE  HistoryIsLast'
<1>0. applying \in [Clients -> ApplyingStates(Len(tickets))]
  BY DEF DInv
<1>1. ASSUME NEW c \in Clients, MakePolicy(c) PROVE HistoryIsLast'
  <2>1. \A d \in Clients : applying'[d] = [at |-> "policy", ticket |-> last]
    BY <1>0, <1>1 DEF MakePolicy, Applying, OneClient
  <2> QED BY <1>1, <2>1 DEF MakePolicy, HistoryIsLast
<1>2. ASSUME NEW c \in Clients, Assign(c) PROVE HistoryIsLast'
  <2>1. \A d \in Clients : applying'[d] = [at |-> "assigned", ticket |-> Len(tickets')]
    BY <1>0, <1>2 DEF Assign, CallPolicy, Applying, OneClient
  <2> QED BY <1>2, <2>1 DEF Assign, HistoryIsLast
<1>3. ASSUME NEW c \in Clients, ReturnLast(c) PROVE HistoryIsLast'
  <2>1. \A d \in Clients : applying'[d] = [at |-> "idle", ticket |-> 0]
    BY <1>0, <1>3 DEF ReturnLast, Applying, OneClient
  <2> QED BY <1>3, <2>1 DEF ReturnLast, HistoryIsLast
<1>4. CASE UNCHANGED vars
  BY <1>4 DEF vars, HistoryIsLast
<1> QED BY <1>1, <1>2, <1>3, <1>4 DEF Next

(* A ticket more is one task more for its unit.                            *)
LEMMA OneMore ==
  ASSUME NEW ts \in Seq(Tickets), NEW t \in Tickets, tickets = ts, tickets' = Append(ts, t), NEW l
  PROVE  Dispatched(l) \in Nat /\ Dispatched(l)' = Dispatched(l) + (IF t.sched = l THEN 1 ELSE 0)
<1> PICK n \in Nat : n = Len(ts)
  BY LenProperties
<1>1. /\ Len(tickets') = n + 1 /\ tickets'[n + 1] = t /\ \A i \in 1..n : tickets'[i] = ts[i]
  BY AppendProperties
<1>2. PICK S : S = {i \in 1..n : ts[i].sched = l}
  OBVIOUS
<1>3. IsFiniteSet(S) /\ n + 1 \notin S
  <2>1. IsFiniteSet(1..n)
    BY FS_Interval
  <2>2. S \subseteq 1..n /\ n + 1 \notin 1..n
    BY <1>2
  <2> QED BY <2>1, <2>2, FS_Subset
<1>4. Dispatched(l) = Cardinality(S)
  BY <1>2 DEF Dispatched
<1>5. Cardinality(S) \in Nat /\ Cardinality(S \cup {n + 1}) = Cardinality(S) + 1
  BY <1>3, FS_CardinalityType, FS_AddElement
<1>6. 1..(n + 1) = 1..n \cup {n + 1} /\ n + 1 \notin 1..n
  OBVIOUS
<1>7. {i \in 1..(n + 1) : tickets'[i].sched = l} = IF t.sched = l THEN S \cup {n + 1} ELSE S
  BY <1>1, <1>2, <1>6
<1>8. Dispatched(l)' = Cardinality(IF t.sched = l THEN S \cup {n + 1} ELSE S)
  BY <1>1, <1>7 DEF Dispatched
<1> QED BY <1>4, <1>5, <1>8

LEMMA NextInTurn ==
  ASSUME DInv, HistoryIsLast, InTurn, [Next]_vars
  PROVE  InTurn'
<1>1. CASE UNCHANGED tickets
  BY <1>1 DEF InTurn, TurnsUpTo, Dispatched
<1>2. ASSUME NEW c \in Clients, Assign(c) PROVE InTurn'
  <2>1. PICK ts \in Seq(Tickets) : tickets = ts /\ Len(ts) \in Nat
    BY LenProperties DEF DInv
  <2>2. applying[c].ticket = Len(ts) /\ Len(ts) \in 0..Len(tickets)
    BY <1>2, <2>1 DEF Assign, CallPolicy, HistoryIsLast
  <2>3. PICK t \in NewTickets(Len(ts)) : tickets' = Append(ts, t)
    BY <1>2, <2>1, <2>2 DEF Assign, CallPolicy
  <2>4. t \in Tickets
    BY <2>2, NewTicketsGood
  <2>5. /\ Len(tickets') = Len(ts) + 1 /\ tickets'[Len(ts) + 1] = t
        /\ \A i \in 1..Len(ts) : tickets'[i] = ts[i]
    BY <2>3, <2>4, AppendProperties
  <2> SUFFICES ASSUME \A i \in 1..Len(tickets') : tickets'[i].how = "alternating_socket"
               PROVE  t.sched \in Threaded /\ \E q \in Nat : TurnsUpTo(t.sched, q)'
    BY <2>5 DEF InTurn, TurnsUpTo
  <2>6. t.how = "alternating_socket"
    BY <2>1, <2>5
  <2>7. \A i \in 1..Len(tickets) : tickets[i].how = "alternating_socket"
    BY <2>1, <2>5
  <2>8. t.sched = IF SchedOf(Len(ts)) = None THEN 0 ELSE AlternatingEnqueueSucc[SchedOf(Len(ts))]
    BY <2>6 DEF NewTickets, Ticket, OnCore, OnSocket, SameCore, SameSocket, After
  <2>9. \A l : Dispatched(l) \in Nat /\ Dispatched(l)' = Dispatched(l) + (IF t.sched = l THEN 1 ELSE 0)
    BY <2>1, <2>3, <2>4, OneMore
  <2>10. /\ Threaded \subseteq Lpus /\ 0 \in Threaded /\ AlternatingPos[0] = 0
         /\ \A k \in Threaded : AlternatingPos[k] \in Nat
         /\ \A k, l \in Threaded : AlternatingPos[k] = AlternatingPos[l] => k = l
    BY ThreadedFacts, FirstUnit, PositionFacts
  <2>11. CASE ts = <<>>
    <3>1. t.sched = 0
      BY <2>8, <2>11 DEF SchedOf
    <3>2. \A k : Dispatched(k) = 0
      <4>1. Len(<<>>) = 0 /\ 1..0 = {}
        OBVIOUS
      <4>2. \A k : Dispatched(k) = Cardinality({})
        BY <2>1, <2>11, <4>1 DEF Dispatched
      <4> QED BY <4>2, FS_EmptySet
    <3>3. \A k \in Threaded : Dispatched(k)' = IF AlternatingPos[k] <= AlternatingPos[0] THEN 0 + 1 ELSE 0
      BY <2>9, <2>10, <3>1, <3>2
    <3> QED BY <2>10, <3>1, <3>3 DEF TurnsUpTo
  <2>12. CASE ts # <<>>
    <3>1. PICK u \in Threaded, q \in Nat : u = ts[Len(ts)].sched /\ TurnsUpTo(u, q)
      BY <2>1, <2>7, <2>12 DEF InTurn
    <3>2. Len(ts) # 0 /\ u # None
      BY <2>1, <2>10, <2>12, <3>1, EmptySeq, NoneApart
    <3>3. t.sched = AlternatingEnqueueSucc[u]
      BY <2>1, <2>8, <3>1, <3>2 DEF SchedOf
    <3>4. PICK f \in Threaded : f = t.sched
      BY <3>3, Alternates
    <3>5. CASE /\ AlternatingPos[u] < AlternatingPos[f]
               /\ \A k \in Threaded : AlternatingPos[k] <= AlternatingPos[u]
                                      \/ AlternatingPos[f] <= AlternatingPos[k]
      <4>1. ASSUME NEW k \in Threaded
            PROVE  Dispatched(k)' = IF AlternatingPos[k] <= AlternatingPos[f] THEN q + 1 ELSE q
        <5>1. Dispatched(k) = IF AlternatingPos[k] <= AlternatingPos[u] THEN q + 1 ELSE q
          BY <3>1 DEF TurnsUpTo
        <5>2. Dispatched(k)' = Dispatched(k) + (IF f = k THEN 1 ELSE 0)
          BY <2>9, <3>4
        <5>3. AlternatingPos[k] = AlternatingPos[f] <=> k = f
          BY <2>10
        <5> QED BY <2>10, <3>5, <5>1, <5>2, <5>3
      <4> QED BY <3>4, <4>1 DEF TurnsUpTo
    <3>6. CASE f = 0 /\ \A k \in Threaded : AlternatingPos[k] <= AlternatingPos[u]
      <4>1. ASSUME NEW k \in Threaded
            PROVE  Dispatched(k)' = IF AlternatingPos[k] <= AlternatingPos[f] THEN (q + 1) + 1 ELSE q + 1
        <5>1. Dispatched(k) = q + 1
          BY <3>1, <3>6 DEF TurnsUpTo
        <5>2. Dispatched(k)' = Dispatched(k) + (IF f = k THEN 1 ELSE 0)
          BY <2>9, <3>4
        <5>3. AlternatingPos[k] <= AlternatingPos[f] <=> k = f
          BY <2>10, <3>6
        <5> QED BY <5>1, <5>2, <5>3
      <4>2. q + 1 \in Nat
        OBVIOUS
      <4> QED BY <3>4, <4>1, <4>2 DEF TurnsUpTo
    <3> QED BY <3>3, <3>4, <3>5, <3>6, Alternates
  <2> QED BY <2>11, <2>12
<1> QED BY <1>1, <1>2 DEF Next, MakePolicy, ReturnLast, vars

(* The alternating default serves the units in turn, on any topology: no   *)
(* unit with a thread ever gets two more tasks than another, if one client *)
(* dispatches and keeps to this policy (thread_pool.cc, the alternating    *)
(* successors; dispatch_policy.hh, `last').                                *)
THEOREM DispatchTakesTurns == OneClient /\ Spec => []UnitsTakeTurns
<1> SUFFICES ASSUME OneClient PROVE Spec => []UnitsTakeTurns
  OBVIOUS
<1>1. Init => HistoryIsLast /\ InTurn
  BY EmptySeq DEF Init, HistoryIsLast, InTurn, Applying
<1>2. DInv /\ HistoryIsLast /\ InTurn /\ [Next]_vars => DInv' /\ HistoryIsLast' /\ InTurn'
  BY NextDInv, NextHistory, NextInTurn
<1> QED BY <1>1, <1>2, InitDInv, InTurnTakesTurns, PTL DEF Spec
=============================================================================
