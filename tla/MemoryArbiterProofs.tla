------------------------ MODULE MemoryArbiterProofs ------------------------
(***************************************************************************)
(* Proofs about MemoryArbiter, for any threads, addresses and memories:    *)
(* locks exclude each other and match the counters, no wake-up is lost,    *)
(* the arbiter implements AccessLock, and, when clients leave the sources  *)
(* of pending copies alone, lock holders see a block's current content.    *)
(***************************************************************************)
EXTENDS MemoryArbiter, FiniteSetTheorems, TLAPS

-----------------------------------------------------------------------------
(* The backends keep the type of a block's data. *)

LEMMA DataType ==
  ASSUME NEW d \in Data, NEW m \in Memories, NEW M \in SUBSET Memories
  PROVE  /\ Freed(d, M) \in Data
         /\ Allocated(d, m) \in Data
         /\ Uploaded(d, m) \in Data
         /\ Downloaded(d, m) \in Data
         /\ Overwritten(d, m) \in Data
  BY MemoryAssumption DEF Data, Freed, Allocated, Uploaded, Downloaded, Overwritten, Memories

(* What a call does that gets past its waits: it either gives its thread   *)
(* the lock it asked for and counts it, or leaves locks and counters alone.*)
SameCounts(S) == \A b \in S : /\ blocks'[b].read_count = blocks[b].read_count
                              /\ blocks'[b].write_count = blocks[b].write_count

LockGranted(c) ==
    /\ c.op \in LockModes
    /\ c.blk \in registered
    /\ Take(LockOf(c))
    /\ SameCounts(MemIds \ {c.blk})
    /\ blocks'[c.blk].read_count =
          blocks[c.blk].read_count + IF c.op = "read_only" THEN 1 ELSE 0
    /\ blocks'[c.blk].write_count =
          blocks[c.blk].write_count + IF c.op = "read_only" THEN 0 ELSE 1

NoLockGranted == held' = held /\ SameCounts(MemIds)

(* What a read lock does to the directory, field by field. *)
LEMMA ReadOnlyBlocks ==
  ASSUME blocks \in [MemIds -> Block], NEW c \in Calls, ReadOnly(c)
  PROVE  LET B == blocks[c.blk]
             N == blocks'[c.blk]
         IN  /\ blocks' \in [MemIds -> Block]
             /\ \A b \in MemIds \ {c.blk} : blocks'[b] = blocks[b]
             /\ N.writer = IF B.writer \notin {None, c.mem} THEN None ELSE B.writer
             /\ N.read_count = B.read_count + 1
             /\ N.write_count = B.write_count
             /\ N.readers = B.readers \cup {c.mem}
<1>1. c.blk \in MemIds /\ c.mem \in Memories
  BY DEF Calls
<1>2. PICK w : w = IF WrittenElsewhere(c.blk, c.mem) THEN None ELSE blocks[c.blk].writer
  OBVIOUS
<1>3. blocks' = [blocks EXCEPT ![c.blk].writer = w, ![c.blk].read_count = @ + 1,
                               ![c.blk].readers = @ \cup {c.mem}]
  BY <1>2 DEF ReadOnly
<1>4. PICK B \in Block : B = blocks[c.blk]
  BY <1>1
<1>5. blocks' = [blocks EXCEPT ![c.blk] =
                    [B EXCEPT !.writer = w, !.read_count = @ + 1, !.readers = @ \cup {c.mem}]]
  BY <1>1, <1>3, <1>4
<1>6. w \in Memories \cup {None}
  BY <1>1, <1>2 DEF Block
<1>7. PICK N : N = [B EXCEPT !.writer = w, !.read_count = @ + 1, !.readers = @ \cup {c.mem}]
  OBVIOUS
<1>8. /\ N \in Block /\ N.writer = w /\ N.read_count = B.read_count + 1
      /\ N.write_count = B.write_count /\ N.readers = B.readers \cup {c.mem}
  <2>1. PICK C : C = [B EXCEPT !.writer = w]
    OBVIOUS
  <2>2. C \in Block /\ C.writer = w /\ C.read_count = B.read_count
        /\ C.write_count = B.write_count /\ C.readers = B.readers
    BY <1>6, <2>1 DEF Block
  <2>3. PICK D : D = [C EXCEPT !.read_count = B.read_count + 1]
    OBVIOUS
  <2>4. D \in Block /\ D.writer = w /\ D.read_count = B.read_count + 1
        /\ D.write_count = B.write_count /\ D.readers = B.readers
    BY <2>2, <2>3 DEF Block
  <2>5. N = [D EXCEPT !.readers = B.readers \cup {c.mem}]
    BY <1>7, <2>1, <2>2, <2>3, <2>4
  <2> QED BY <1>1, <2>4, <2>5 DEF Block
<1>9. blocks' = [blocks EXCEPT ![c.blk] = N]
  BY <1>5, <1>7
<1>10. w = IF B.writer \notin {None, c.mem} THEN None ELSE B.writer
  BY <1>2, <1>4 DEF WrittenElsewhere
<1>11. blocks' \in [MemIds -> Block] /\ blocks'[c.blk] = N
       /\ \A b \in MemIds \ {c.blk} : blocks'[b] = blocks[b]
  BY ONLY <1>1, <1>8, <1>9, blocks \in [MemIds -> Block]
<1> QED BY <1>4, <1>8, <1>10, <1>11

LEMMA PerformType ==
  ASSUME TypeOK, NEW c \in Calls, Perform(c)
  PROVE  blocks' \in [MemIds -> Block] /\ data' \in [MemIds -> Data]
<1>0. /\ blocks[c.blk] \in Block /\ data[c.blk] \in Data
      /\ blocks[c.src] \in Block /\ data[c.src] \in Data
      /\ c.mem \in Memories /\ c.blk \in MemIds /\ c.src \in MemIds
  BY DEF TypeOK, Calls
<1>o. Owned(c.blk, c.mem) \in Block
  BY <1>0 DEF Owned, Block
<1>a. [Owned(c.blk, c.mem) EXCEPT !.write_count = @ + 1] \in Block
  BY <1>o DEF Block
<1>r. blocks[c.blk].readers \in SUBSET Memories
      /\ blocks[c.blk].readers \ {c.mem} \in SUBSET Memories
  BY <1>0 DEF Block
<1>w. ASSUME NEW b \in MemIds, blocks[b].writer # None
      PROVE  blocks[b].writer \in Memories
  BY <1>w DEF TypeOK, Block
<1>p. Replaced(c) \in Data
  <2>1. Overwritten(Allocated(Freed(data[c.blk], blocks[c.blk].readers \ {c.mem}), c.mem), c.mem) \in Data
    BY <1>0, <1>r, DataType
  <2> QED BY <2>1 DEF Replaced, Data
<1>1. CASE NotFound(c)
  BY <1>1 DEF NotFound, TypeOK
<1>2. CASE ReadOnly(c)
  <2> DEFINE d == IF WrittenElsewhere(c.blk, c.mem)
                  THEN Downloaded(data[c.blk], blocks[c.blk].writer) ELSE data[c.blk]
  <2>1. d \in Data
    BY <1>0, <1>w, DataType DEF WrittenElsewhere
  <2>2. Uploaded(d, c.mem) \in Data
    BY <2>1, <1>0, DataType
  <2>3. data' = [data EXCEPT ![c.blk] = Uploaded(d, c.mem)]
    BY <1>2 DEF ReadOnly
  <2>4. data' \in [MemIds -> Data]
    BY <2>2, <2>3 DEF TypeOK
  <2>5. blocks' \in [MemIds -> Block]
    BY <1>2, ReadOnlyBlocks DEF TypeOK
  <2> QED BY <2>4, <2>5
<1>3. CASE ReadAndWrite(c)
  <2> DEFINE d == IF WrittenElsewhere(c.blk, c.mem)
                  THEN Downloaded(data[c.blk], blocks[c.blk].writer) ELSE data[c.blk]
             f == Freed(d, blocks[c.blk].readers \ {c.mem})
  <2>1. d \in Data
    BY <1>0, <1>w, DataType DEF WrittenElsewhere
  <2>2. f \in Data
    BY <2>1, <1>r, <1>0, DataType
  <2>3. Uploaded(f, c.mem) \in Data
    BY <2>2, <1>0, DataType
  <2>4. data' = [data EXCEPT ![c.blk] = Uploaded(f, c.mem)]
    BY <1>3 DEF ReadAndWrite
  <2>5. data' \in [MemIds -> Data]
    BY <2>3, <2>4 DEF TypeOK
  <2>6. blocks' \in [MemIds -> Block]
    BY <1>a, <1>3 DEF ReadAndWrite, TypeOK
  <2> QED BY <2>5, <2>6
<1>4. CASE WriteOnly(c)
  BY <1>a, <1>p, <1>4 DEF WriteOnly, TypeOK
<1>5. CASE Fill(c)
  BY <1>o, <1>p, <1>5 DEF Fill, TypeOK
<1>6. CASE CopyLocally(c)
  <2>1. PICK refused \in BOOLEAN :
           data' = [data EXCEPT ![c.blk] = [Replaced(c) EXCEPT
                      !.torn = ~refused /\ ReadsTorn(data[c.src], c.src, c.mem)]]
    BY <1>6 DEF CopyLocally
  <2>2. [Replaced(c) EXCEPT !.torn = ~refused /\ ReadsTorn(data[c.src], c.src, c.mem)] \in Data
    BY <1>p, <1>0 DEF Data, ReadsTorn
  <2> QED BY <1>o, <2>1, <2>2, <1>6 DEF CopyLocally, TypeOK
<1>7. CASE CopyThroughMain(c)
  <2> DEFINE s == IF blocks[c.src].writer = None THEN data[c.src]
                  ELSE Downloaded(data[c.src], blocks[c.src].writer)
             d == Overwritten(Freed(data[c.blk], blocks[c.blk].readers), CPU)
  <2>0. CPU \in Memories
    BY DEF Memories
  <2>1. s \in Data
    BY <1>0, <1>w, DataType
  <2>2. Uploaded(d, c.mem) \in Data
    BY <1>0, <1>r, <2>0, DataType
  <2>3. [Uploaded(d, c.mem) EXCEPT !.torn = ReadsTorn(s, c.src, CPU)] \in Data
    <3>1. ReadsTorn(s, c.src, CPU) \in BOOLEAN
      BY <2>1 DEF ReadsTorn, Data
    <3> HIDE DEF s, d
    <3> QED BY <3>1, <2>2 DEF Data
  <2>4. data' = [data EXCEPT ![c.src] = s,
             ![c.blk] = [Uploaded(d, c.mem) EXCEPT !.torn = ReadsTorn(s, c.src, CPU)]]
    BY <1>7 DEF CopyThroughMain
  <2>5. data' \in [MemIds -> Data]
    <3> HIDE DEF s, d
    <3> QED BY <2>1, <2>3, <2>4 DEF TypeOK
  <2>6. [blocks[c.src] EXCEPT !.writer = None] \in Block
    BY <1>0 DEF Block
  <2>7. blocks' \in [MemIds -> Block]
    BY <1>7, <1>o, <2>6 DEF CopyThroughMain, TypeOK
  <2> QED BY <2>5, <2>7
<1> QED BY <1>1, <1>2, <1>3, <1>4, <1>5, <1>6, <1>7 DEF Perform

LEMMA PerformEffect ==
  ASSUME TypeOK, NEW c \in Calls, Perform(c)
  PROVE  LockGranted(c) \/ NoLockGranted
<1>0. /\ blocks[c.blk] \in Block /\ blocks[c.src] \in Block
      /\ c.mem \in Memories /\ c.blk \in MemIds /\ c.src \in MemIds
  BY DEF TypeOK, Calls
<1>1. CASE NotFound(c)
  BY <1>1 DEF NotFound, NoLockGranted, SameCounts
<1>2. CASE {c.src, c.blk} \subseteq registered /\ ReadOnly(c)
  <2>1. blocks'[c.blk].read_count = blocks[c.blk].read_count + 1
        /\ blocks'[c.blk].write_count = blocks[c.blk].write_count
    BY <1>2, ReadOnlyBlocks DEF TypeOK
  <2>2. SameCounts(MemIds \ {c.blk})
    BY <1>0, <1>2 DEF ReadOnly, TypeOK, SameCounts
  <2>3. Take(LockOf(c)) /\ c.op = "read_only"
    BY <1>2 DEF ReadOnly
  <2> QED BY <1>0, <1>2, <2>1, <2>2, <2>3 DEF LockGranted, LockModes, Block
<1>3. CASE {c.src, c.blk} \subseteq registered /\ (ReadAndWrite(c) \/ WriteOnly(c))
  <2>1. blocks' = [blocks EXCEPT ![c.blk] = [Owned(c.blk, c.mem) EXCEPT !.write_count = @ + 1]]
        /\ Take(LockOf(c)) /\ c.op \in WriteModes
    BY <1>3 DEF ReadAndWrite, WriteOnly, WriteModes
  <2>2. blocks'[c.blk].read_count = blocks[c.blk].read_count
        /\ blocks'[c.blk].write_count = blocks[c.blk].write_count + 1
    BY <1>0, <2>1 DEF Owned, TypeOK, Block
  <2>3. SameCounts(MemIds \ {c.blk})
    BY <1>0, <2>1 DEF TypeOK, SameCounts
  <2> QED BY <1>0, <1>3, <2>1, <2>2, <2>3 DEF LockGranted, LockModes, WriteModes, Block
<1>4. CASE Fill(c) \/ CopyLocally(c)
  <2>1. held' = held /\ blocks' = [blocks EXCEPT ![c.blk] = Owned(c.blk, c.mem)]
    BY <1>4 DEF Fill, CopyLocally
  <2> QED BY <1>0, <2>1 DEF Owned, TypeOK, Block, NoLockGranted, SameCounts
<1>5. CASE CopyThroughMain(c)
  <2>1. held' = held /\ blocks' = [blocks EXCEPT ![c.src].writer = None,
                                                 ![c.blk] = Owned(c.blk, c.mem)]
    BY <1>5 DEF CopyThroughMain
  <2> QED BY <1>0, <2>1 DEF Owned, TypeOK, Block, NoLockGranted, SameCounts
<1> QED BY <1>1, <1>2, <1>3, <1>4, <1>5 DEF Perform

-----------------------------------------------------------------------------
(* The bag of locks: what a lock taken or given up does to how often each  *)
(* lock is held, and to the number of locks that are held out of a set.    *)

LEMMA BagFacts ==
  ASSUME IsABag(held)
  PROVE  /\ \A k : Times(k) \in Nat
         /\ \A k : k \in Held <=> Times(k) # 0
  BY DEF IsABag, Times, BagToSet, Held

LEMMA BagFactsNext ==
  ASSUME IsABag(held')
  PROVE  /\ \A k : Times(k)' \in Nat
         /\ \A k : k \in Held' <=> Times(k)' # 0
  BY DEF IsABag, Times, BagToSet, Held

LEMMA TakeBag ==
  ASSUME IsABag(held), NEW l, Take(l)
  PROVE  /\ IsABag(held') /\ Held' = Held \cup {l}
         /\ \A k : Times(k)' = Times(k) + IF k = l THEN 1 ELSE 0
<1>1. held' = [e \in DOMAIN held \cup {l} |->
                 (IF e \in DOMAIN held THEN held[e] ELSE 0) + (IF e \in {l} THEN 1 ELSE 0)]
  BY DEF Take, SetToBag, (+)
<1>2. \A e \in DOMAIN held : held[e] \in Nat /\ held[e] > 0
  BY DEF IsABag
<1>3. DOMAIN held' = DOMAIN held \cup {l} /\ \A e \in DOMAIN held' : held'[e] \in Nat /\ held'[e] > 0
  BY <1>1, <1>2
<1>4. IsABag(held')
  BY <1>1, <1>3 DEF IsABag
<1> QED BY <1>1, <1>2, <1>3, <1>4 DEF Times, BagToSet, Held

LEMMA GiveUpBag ==
  ASSUME IsABag(held), NEW l \in Held, GiveUp(l)
  PROVE  /\ IsABag(held') /\ Held' \subseteq Held /\ Held \subseteq Held' \cup {l}
         /\ \A k : Times(k)' = Times(k) - IF k = l THEN 1 ELSE 0
<1>0. l \in DOMAIN held /\ held[l] \in Nat \ {0}
  BY DEF Held, BagToSet, IsABag
<1> DEFINE r == [e \in DOMAIN held |-> IF e \in {l} THEN held[e] - 1 ELSE held[e]]
<1>1. held' = [e \in {d \in DOMAIN held : r[d] > 0} |-> r[e]]
  BY DEF GiveUp, SetToBag, (-)
<1>2. \A e \in DOMAIN held : held[e] \in Nat /\ held[e] > 0
  BY DEF IsABag
<1>3. \A e \in DOMAIN held : r[e] = held[e] - IF e = l THEN 1 ELSE 0
  BY <1>2
<1> HIDE DEF r
<1>4. /\ DOMAIN held' = {d \in DOMAIN held : r[d] > 0}
      /\ \A e \in DOMAIN held' : held'[e] = r[e] /\ held'[e] \in Nat /\ held'[e] > 0
  BY <1>1, <1>2, <1>3
<1>5. IsABag(held')
  BY <1>1, <1>4 DEF IsABag
<1> QED BY <1>0, <1>1, <1>2, <1>3, <1>4, <1>5 DEF Times, BagToSet, Held

HeldIn(K) == Copies(Held \cap K)

LEMMA CopiesMembers ==
  ASSUME IsABag(held), NEW K
  PROVE  \A x : x \in HeldIn(K) <=>
            \E k \in K, n \in Nat : x = <<k, n>> /\ 1 <= n /\ n <= Times(k)
<1>1. \A x : x \in HeldIn(K) <=> \E k \in Held \cap K : \E n \in 1..Times(k) : x = <<k, n>>
  BY DEF HeldIn, Copies
<1>2. \A k : Times(k) \in Nat /\ (k \in Held <=> Times(k) # 0)
  BY BagFacts
<1>3. \A k, n : n \in 1..Times(k) <=> n \in Nat /\ 1 <= n /\ n <= Times(k)
  BY <1>2
<1>4. \A k : \A n \in Nat : 1 <= n /\ n <= Times(k) => k \in Held
  BY <1>2
<1> QED BY <1>1, <1>3, <1>4

LEMMA CopiesMembersNext ==
  ASSUME IsABag(held'), NEW K
  PROVE  \A x : x \in HeldIn(K)' <=>
            \E k \in K, n \in Nat : x = <<k, n>> /\ 1 <= n /\ n <= Times(k)'
<1>1. \A x : x \in HeldIn(K)' <=> \E k \in Held' \cap K : \E n \in 1..Times(k)' : x = <<k, n>>
  BY DEF HeldIn, Copies
<1>2. \A k : Times(k)' \in Nat /\ (k \in Held' <=> Times(k)' # 0)
  BY BagFactsNext
<1>3. \A k, n : n \in 1..Times(k)' <=> n \in Nat /\ 1 <= n /\ n <= Times(k)'
  BY <1>2
<1>4. \A k : \A n \in Nat : 1 <= n /\ n <= Times(k)' => k \in Held'
  BY <1>2
<1> QED BY <1>1, <1>3, <1>4

LEMMA CountTaken ==
  ASSUME IsABag(held), NEW l, Take(l), NEW K, IsFiniteSet(HeldIn(K))
  PROVE  /\ IsFiniteSet(HeldIn(K)')
         /\ Cardinality(HeldIn(K)') = Cardinality(HeldIn(K)) + IF l \in K THEN 1 ELSE 0
<1> DEFINE x == <<l, Times(l) + 1>>
<1>1. /\ \A k : Times(k) \in Nat
      /\ \A k : Times(k)' = Times(k) + IF k = l THEN 1 ELSE 0
      /\ IsABag(held')
  BY BagFacts, TakeBag
<1>2. \A y : y \in HeldIn(K) <=>
            \E k \in K, n \in Nat : y = <<k, n>> /\ 1 <= n /\ n <= Times(k)
  BY CopiesMembers
<1>3. \A y : y \in HeldIn(K)' <=>
            \E k \in K, n \in Nat : y = <<k, n>> /\ 1 <= n /\ n <= Times(k)'
  BY <1>1, CopiesMembersNext
<1>4. Cardinality(HeldIn(K)) \in Nat
  BY FS_CardinalityType
<1>5. CASE l \in K
  <2>1. x \notin HeldIn(K)
    BY <1>1, <1>2
  <2>2. HeldIn(K)' = HeldIn(K) \cup {x}
    <3>1. \A k, n : n \in Nat /\ 1 <= n /\ n <= Times(k)' <=>
             (n \in Nat /\ 1 <= n /\ n <= Times(k)) \/ (k = l /\ n = Times(l) + 1)
      BY <1>1
    <3>2. \A k, n : <<k, n>> = x <=> k = l /\ n = Times(l) + 1
      OBVIOUS
    <3>3. l \in K /\ Times(l) + 1 \in Nat /\ 1 <= Times(l) + 1 /\ Times(l) + 1 <= Times(l)'
      BY <1>1, <1>5
    <3>4. x \in HeldIn(K)'
      BY <1>3, <3>3
    <3> HIDE DEF x
    <3>5. ASSUME NEW y \in HeldIn(K)'
          PROVE  y \in HeldIn(K) \/ y = x
      <4>1. PICK k \in K, n \in Nat : y = <<k, n>> /\ 1 <= n /\ n <= Times(k)'
        BY <1>3
      <4> QED BY <1>2, <3>1, <3>2, <4>1
    <3>6. ASSUME NEW y \in HeldIn(K)
          PROVE  y \in HeldIn(K)'
      <4>1. PICK k \in K, n \in Nat : y = <<k, n>> /\ 1 <= n /\ n <= Times(k)
        BY <1>2
      <4> QED BY <1>3, <3>1, <4>1
    <3> QED BY <3>4, <3>5, <3>6
  <2> HIDE DEF x
  <2> QED BY <1>5, <2>1, <2>2, FS_AddElement
<1>6. CASE l \notin K
  <2>1. HeldIn(K)' = HeldIn(K)
    BY <1>1, <1>2, <1>3, <1>6
  <2> QED BY <1>4, <1>6, <2>1
<1> QED BY <1>5, <1>6

LEMMA CountGivenUp ==
  ASSUME IsABag(held), NEW l \in Held, GiveUp(l), NEW K, IsFiniteSet(HeldIn(K))
  PROVE  /\ IsFiniteSet(HeldIn(K)')
         /\ Cardinality(HeldIn(K)') = Cardinality(HeldIn(K)) - IF l \in K THEN 1 ELSE 0
<1> DEFINE x == <<l, Times(l)>>
<1>1. /\ \A k : Times(k) \in Nat
      /\ Times(l) # 0
      /\ \A k : Times(k)' = Times(k) - IF k = l THEN 1 ELSE 0
      /\ IsABag(held')
  BY BagFacts, GiveUpBag
<1>2. \A y : y \in HeldIn(K) <=>
            \E k \in K, n \in Nat : y = <<k, n>> /\ 1 <= n /\ n <= Times(k)
  BY CopiesMembers
<1>3. \A y : y \in HeldIn(K)' <=>
            \E k \in K, n \in Nat : y = <<k, n>> /\ 1 <= n /\ n <= Times(k)'
  BY <1>1, CopiesMembersNext
<1>4. Cardinality(HeldIn(K)) \in Nat
  BY FS_CardinalityType
<1>5. CASE l \in K
  <2>1. x \in HeldIn(K)
    BY <1>1, <1>2, <1>5
  <2>2. HeldIn(K)' = HeldIn(K) \ {x}
    <3>1. \A k, n : n \in Nat /\ 1 <= n /\ n <= Times(k)' <=>
             n \in Nat /\ 1 <= n /\ n <= Times(k) /\ ~(k = l /\ n = Times(l))
      BY <1>1
    <3>2. \A k, n : <<k, n>> = x <=> k = l /\ n = Times(l)
      OBVIOUS
    <3> HIDE DEF x
    <3>3. \A k, n : n \in Nat /\ 1 <= n /\ n <= Times(k)' <=>
             n \in Nat /\ 1 <= n /\ n <= Times(k) /\ <<k, n>> # x
      BY <3>1, <3>2
    <3>4. \A y : y \in HeldIn(K)' <=> y \in HeldIn(K) /\ y # x
      <4>1. ASSUME NEW y \in HeldIn(K)'
            PROVE  y \in HeldIn(K) /\ y # x
        <5>1. PICK k \in K, n \in Nat : y = <<k, n>> /\ 1 <= n /\ n <= Times(k)'
          BY <1>3
        <5> QED BY <1>2, <3>3, <5>1
      <4>2. ASSUME NEW y \in HeldIn(K), y # x
            PROVE  y \in HeldIn(K)'
        <5>1. PICK k \in K, n \in Nat : y = <<k, n>> /\ 1 <= n /\ n <= Times(k)
          BY <1>2
        <5> QED BY <1>3, <3>3, <4>2, <5>1
      <4> QED BY <4>1, <4>2
    <3> QED BY <3>4
  <2> HIDE DEF x
  <2> QED BY <1>5, <2>1, <2>2, FS_RemoveElement
<1>6. CASE l \notin K
  <2>1. \A k \in K : Times(k)' = Times(k)
    BY <1>1, <1>6
  <2>2. HeldIn(K)' = HeldIn(K)
    <3>1. \A y : y \in HeldIn(K)' <=> y \in HeldIn(K)
      BY <1>2, <1>3, <2>1
    <3> QED BY <3>1
  <2> QED BY <1>4, <1>6, <2>2
<1> QED BY <1>5, <1>6

ReadLocks(b)  == {l \in Locks : l.blk = b /\ l.mode = "read_only"}
WriteLocks(b) == {l \in Locks : l.blk = b /\ l.mode \in WriteModes}

LEMMA CountedLocks ==
  ASSUME Held \subseteq Locks, NEW b
  PROVE  ReadersOf(b) = HeldIn(ReadLocks(b)) /\ WritersOf(b) = HeldIn(WriteLocks(b))
<1>1. {l \in Held : l.blk = b /\ l.mode = "read_only"} = Held \cap ReadLocks(b)
  BY DEF ReadLocks
<1>2. {l \in Held : l.blk = b /\ l.mode \in WriteModes} = Held \cap WriteLocks(b)
  BY DEF WriteLocks
<1> QED BY <1>1, <1>2 DEF ReadersOf, WritersOf, HeldIn

LEMMA CountedLocksNext ==
  ASSUME Held' \subseteq Locks, NEW b
  PROVE  ReadersOf(b)' = HeldIn(ReadLocks(b))' /\ WritersOf(b)' = HeldIn(WriteLocks(b))'
<1>1. {l \in Held' : l.blk = b /\ l.mode = "read_only"} = Held' \cap ReadLocks(b)
  BY DEF ReadLocks
<1>2. {l \in Held' : l.blk = b /\ l.mode \in WriteModes} = Held' \cap WriteLocks(b)
  BY DEF WriteLocks
<1> QED BY <1>1, <1>2 DEF ReadersOf, WritersOf, HeldIn

LEMMA LocksUnchanged ==
  ASSUME held' = held
  PROVE  /\ Held' = Held
         /\ \A k : Times(k)' = Times(k)
         /\ \A b : ReadersOf(b)' = ReadersOf(b) /\ WritersOf(b)' = WritersOf(b)
<1>1. Held' = Held
  BY DEF Held
<1>2. \A k : Times(k)' = Times(k)
  BY <1>1 DEF Times
<1>3. \A b : ReadersOf(b)' = ReadersOf(b) /\ WritersOf(b)' = WritersOf(b)
  BY <1>1 DEF ReadersOf, WritersOf, Copies, Times
<1> QED BY <1>1, <1>2, <1>3

-----------------------------------------------------------------------------
(* The invariant behind the locks.  Exclusion is not inductive alone: the  *)
(* wait loops look at the counters, so the counters must match the locks,  *)
(* which are finitely many, or one more would not change their number.     *)

OneCallEach == \A c, d \in waiting : c.thr = d.thr => c = d

FiniteCounts == \A b \in MemIds : IsFiniteSet(ReadersOf(b)) /\ IsFiniteSet(WritersOf(b))

LockInv == /\ TypeOK
           /\ FiniteCounts
           /\ OneCallEach
           /\ CountsMatchLocks
           /\ Exclusion
           /\ NoLostWakeup

(* A step of a call, new or resumed. *)
CallStep(c) == /\ c \in Calls
               /\ \A d \in waiting \ {c} : d.thr # c.thr
               /\ Proceed(c)

LEMMA CallIsCallStep ==
  ASSUME LockInv, NEW t \in Threads, Call(t) \/ Resume(t)
  PROVE  \E c \in Calls : CallStep(c)
<1>1. CASE Call(t)
  <2>1. PICK c \in NewCalls : c.thr = t /\ Disciplined(c) /\ Proceed(c)
    BY <1>1 DEF Call
  <2> QED BY <2>1 DEF CallStep, Disciplined, InCall, NewCalls
<1>2. CASE Resume(t)
  <2>1. PICK c \in waiting : c.thr = t /\ c.woken /\ Proceed(c)
    BY <1>2 DEF Resume
  <2> QED BY <2>1 DEF CallStep, LockInv, OneCallEach, TypeOK
<1> QED BY <1>1, <1>2

(* The three ways a call step ends. *)
Asleep(c, phase) == /\ waiting' = (waiting \ {c}) \cup {[c EXCEPT !.phase = phase, !.woken = FALSE]}
                    /\ UNCHANGED <<registered, blocks, data, held>>
                    /\ Busy([c EXCEPT !.phase = phase, !.woken = FALSE])

LEMMA ProceedCases ==
  ASSUME TypeOK, NEW c \in Calls, Proceed(c)
  PROVE  \/ Asleep(c, "source") \/ Asleep(c, "target")
         \/ /\ ~TargetBusy(c) /\ ~SourceBusy(c)
            /\ registered' = registered /\ waiting' = waiting \ {c}
            /\ Perform(c)
<1>1. CASE SourceBusy(c) /\ Sleep(c, "source")
  BY <1>1 DEF Proceed, Asleep, Sleep, Busy, SourceBusy, Calls
<1>2. CASE TargetBusy(c) /\ Sleep(c, "target")
  BY <1>2 DEF Proceed, Asleep, Sleep, Busy, TargetBusy, Calls
<1> QED BY <1>1, <1>2 DEF Proceed

(* A lock taken or given up changes the number of locks of its kind on its *)
(* block by one, and no other.                                             *)
LEMMA AddLock ==
  ASSUME TypeOK, FiniteCounts, NEW l \in Locks, Take(l)
  PROVE  /\ IsABag(held') /\ Held' = Held \cup {l} /\ Held' \subseteq Locks
         /\ FiniteCounts'
         /\ \A b \in MemIds :
               /\ Cardinality(ReadersOf(b)') = Cardinality(ReadersOf(b)) +
                     IF b = l.blk /\ l.mode = "read_only" THEN 1 ELSE 0
               /\ Cardinality(WritersOf(b)') = Cardinality(WritersOf(b)) +
                     IF b = l.blk /\ l.mode # "read_only" THEN 1 ELSE 0
<1>1. IsABag(held) /\ Held \subseteq Locks
  BY DEF TypeOK
<1>2. IsABag(held') /\ Held' = Held \cup {l} /\ Held' \subseteq Locks
  BY <1>1, TakeBag
<1>3. l.mode # "read_only" <=> l.mode \in WriteModes
  BY DEF Locks, LockModes, WriteModes
<1>4. ASSUME NEW b \in MemIds
      PROVE  /\ IsFiniteSet(ReadersOf(b)') /\ IsFiniteSet(WritersOf(b)')
             /\ Cardinality(ReadersOf(b)') = Cardinality(ReadersOf(b)) +
                   IF b = l.blk /\ l.mode = "read_only" THEN 1 ELSE 0
             /\ Cardinality(WritersOf(b)') = Cardinality(WritersOf(b)) +
                   IF b = l.blk /\ l.mode # "read_only" THEN 1 ELSE 0
  <2>1. ReadersOf(b) = HeldIn(ReadLocks(b)) /\ WritersOf(b) = HeldIn(WriteLocks(b))
    BY <1>1, CountedLocks
  <2>2. ReadersOf(b)' = HeldIn(ReadLocks(b))' /\ WritersOf(b)' = HeldIn(WriteLocks(b))'
    BY <1>2, CountedLocksNext
  <2>3. IsFiniteSet(ReadersOf(b)) /\ IsFiniteSet(WritersOf(b))
    BY DEF FiniteCounts
  <2>4. PICK R, W : R = ReadLocks(b) /\ W = WriteLocks(b)
    OBVIOUS
  <2>5. /\ l \in R <=> b = l.blk /\ l.mode = "read_only"
        /\ l \in W <=> b = l.blk /\ l.mode # "read_only"
    BY <1>3, <2>4 DEF ReadLocks, WriteLocks
  <2> QED BY <1>1, <2>1, <2>2, <2>3, <2>4, <2>5, CountTaken
<1> QED BY <1>2, <1>4 DEF FiniteCounts

LEMMA DropLock ==
  ASSUME TypeOK, FiniteCounts, NEW l \in Held, GiveUp(l)
  PROVE  /\ IsABag(held') /\ Held' \subseteq Held
         /\ FiniteCounts'
         /\ \A b \in MemIds :
               /\ Cardinality(ReadersOf(b)') = Cardinality(ReadersOf(b)) -
                     IF b = l.blk /\ l.mode = "read_only" THEN 1 ELSE 0
               /\ Cardinality(WritersOf(b)') = Cardinality(WritersOf(b)) -
                     IF b = l.blk /\ l.mode # "read_only" THEN 1 ELSE 0
<1>1. IsABag(held) /\ Held \subseteq Locks
  BY DEF TypeOK
<1>2. IsABag(held') /\ Held' \subseteq Held /\ Held' \subseteq Locks
  BY <1>1, GiveUpBag
<1>3. l \in Locks /\ (l.mode # "read_only" <=> l.mode \in WriteModes)
  BY <1>1 DEF Locks, LockModes, WriteModes
<1>4. ASSUME NEW b \in MemIds
      PROVE  /\ IsFiniteSet(ReadersOf(b)') /\ IsFiniteSet(WritersOf(b)')
             /\ Cardinality(ReadersOf(b)') = Cardinality(ReadersOf(b)) -
                   IF b = l.blk /\ l.mode = "read_only" THEN 1 ELSE 0
             /\ Cardinality(WritersOf(b)') = Cardinality(WritersOf(b)) -
                   IF b = l.blk /\ l.mode # "read_only" THEN 1 ELSE 0
  <2>1. ReadersOf(b) = HeldIn(ReadLocks(b)) /\ WritersOf(b) = HeldIn(WriteLocks(b))
    BY <1>1, CountedLocks
  <2>2. ReadersOf(b)' = HeldIn(ReadLocks(b))' /\ WritersOf(b)' = HeldIn(WriteLocks(b))'
    BY <1>2, CountedLocksNext
  <2>3. IsFiniteSet(ReadersOf(b)) /\ IsFiniteSet(WritersOf(b))
    BY DEF FiniteCounts
  <2>4. PICK R, W : R = ReadLocks(b) /\ W = WriteLocks(b)
    OBVIOUS
  <2>5. /\ l \in R <=> b = l.blk /\ l.mode = "read_only"
        /\ l \in W <=> b = l.blk /\ l.mode # "read_only"
    BY <1>3, <2>4 DEF ReadLocks, WriteLocks
  <2> QED BY <1>1, <2>1, <2>2, <2>3, <2>4, <2>5, CountGivenUp
<1> QED BY <1>2, <1>4 DEF FiniteCounts

(* A counter is zero exactly when nobody holds such a lock. *)
LEMMA ZeroCounts ==
  ASSUME LockInv, NEW b \in MemIds
  PROVE  /\ blocks[b].read_count = 0 => ~ \E l \in Held : l.blk = b /\ l.mode = "read_only"
         /\ blocks[b].write_count = 0 => ~ \E l \in Held : l.blk = b /\ l.mode # "read_only"
<1>1. IsABag(held) /\ Held \subseteq Locks /\ IsFiniteSet(ReadersOf(b)) /\ IsFiniteSet(WritersOf(b))
  BY DEF LockInv, TypeOK, FiniteCounts
<1>2. /\ blocks[b].read_count = 0 => HeldIn(ReadLocks(b)) = {}
      /\ blocks[b].write_count = 0 => HeldIn(WriteLocks(b)) = {}
  BY <1>1, FS_EmptySet, CountedLocks DEF LockInv, CountsMatchLocks
<1>3. ASSUME NEW K, NEW k \in Held \cap K
      PROVE  HeldIn(K) # {}
  <2>1. Times(k) \in Nat /\ Times(k) # 0
    BY <1>1, BagFacts
  <2>2. <<k, 1>> \in HeldIn(K)
    BY <1>1, <2>1, CopiesMembers
  <2> QED BY <2>2
<1>4. \A l \in Held : l \in Locks /\ (l.mode # "read_only" => l.mode \in WriteModes)
  BY <1>1 DEF Locks, LockModes, WriteModes
<1> QED BY <1>2, <1>3, <1>4 DEF ReadLocks, WriteLocks

(* What a call step does to the locks: nothing, or it adds one that is     *)
(* compatible with all that are held.                                      *)
GrantsLock(c) ==
    /\ LockGranted(c)
    /\ LockOf(c) \in Locks
    /\ \A k \in Held : k.blk = c.blk => k.mode = "read_only" /\ c.op = "read_only"

LEMMA GrantIsExclusive ==
  ASSUME LockInv, NEW c \in Calls, CallStep(c), ~TargetBusy(c), LockGranted(c)
  PROVE  GrantsLock(c)
<1>1. LockOf(c) \in Locks
  BY DEF LockGranted, LockOf, Locks, Calls
<1>2. ASSUME NEW k \in Held, k.blk = c.blk
      PROVE  k.mode = "read_only" /\ c.op = "read_only"
  <2>1. c.blk \in MemIds
    BY DEF Calls
  <2>2. blocks[c.blk].write_count = 0 /\ (c.op # "read_only" => blocks[c.blk].read_count = 0)
    BY DEF TargetBusy, LockGranted
  <2> QED BY <1>2, <2>1, <2>2, ZeroCounts
<1> QED BY <1>1, <1>2 DEF GrantsLock

LEMMA CountsAfterGrant ==
  ASSUME LockInv, NEW c \in Calls, GrantsLock(c)
  PROVE  FiniteCounts' /\ CountsMatchLocks'
<1> DEFINE l == LockOf(c)
<1>1. TypeOK /\ FiniteCounts
  BY DEF LockInv
<1>2. l \in Locks /\ Take(l)
  BY DEF GrantsLock, LockGranted
<1>3. l.blk = c.blk /\ l.mode = c.op /\ c.blk \in MemIds
  BY DEF LockOf, Calls
<1> HIDE DEF l
<1>4. FiniteCounts'
  BY <1>1, <1>2, AddLock
<1>5. ASSUME NEW b \in MemIds
      PROVE  /\ blocks'[b].read_count = Cardinality(ReadersOf(b)')
             /\ blocks'[b].write_count = Cardinality(WritersOf(b)')
  <2>1. /\ Cardinality(ReadersOf(b)') = Cardinality(ReadersOf(b)) +
              IF b = l.blk /\ l.mode = "read_only" THEN 1 ELSE 0
        /\ Cardinality(WritersOf(b)') = Cardinality(WritersOf(b)) +
              IF b = l.blk /\ l.mode # "read_only" THEN 1 ELSE 0
    BY <1>1, <1>2, AddLock
  <2>2. /\ blocks[b].read_count = Cardinality(ReadersOf(b))
        /\ blocks[b].write_count = Cardinality(WritersOf(b))
        /\ blocks[b].read_count \in Nat /\ blocks[b].write_count \in Nat
    BY DEF LockInv, CountsMatchLocks, TypeOK, Block
  <2>3. CASE b = c.blk
    BY <1>3, <2>1, <2>2, <2>3 DEF GrantsLock, LockGranted
  <2>4. CASE b # c.blk
    BY <1>3, <2>1, <2>2, <2>4 DEF GrantsLock, LockGranted, SameCounts
  <2> QED BY <2>3, <2>4
<1>6. CountsMatchLocks'
  BY <1>5 DEF CountsMatchLocks
<1> QED BY <1>4, <1>6

LEMMA CountsUnchanged ==
  ASSUME LockInv, NoLockGranted
  PROVE  CountsMatchLocks' /\ FiniteCounts'
<1>1. \A b \in MemIds : ReadersOf(b)' = ReadersOf(b) /\ WritersOf(b)' = WritersOf(b)
  BY LocksUnchanged DEF NoLockGranted
<1>2. CountsMatchLocks'
  BY <1>1 DEF LockInv, CountsMatchLocks, NoLockGranted, SameCounts
<1>3. FiniteCounts'
  BY <1>1 DEF LockInv, FiniteCounts
<1> QED BY <1>2, <1>3

(* The locks still exclude each other when one that is compatible with all *)
(* others joins them: a write lock is then the only one on its block.      *)
LEMMA ExclusionAfterGrant ==
  ASSUME LockInv, NEW c \in Calls, GrantsLock(c), registered' = registered
  PROVE  Exclusion'
<1> DEFINE l == LockOf(c)
<1>1. IsABag(held) /\ Exclusion
  BY DEF LockInv, TypeOK
<1>2. /\ Take(l) /\ l.blk = c.blk /\ l.mode = c.op /\ c.blk \in registered
      /\ \A k \in Held : k.blk = l.blk => k.mode = "read_only" /\ l.mode = "read_only"
  BY DEF GrantsLock, LockGranted, LockOf
<1> HIDE DEF l
<1>3. Held' = Held \cup {l} /\ \A k : Times(k)' = Times(k) + IF k = l THEN 1 ELSE 0
  BY <1>1, <1>2, TakeBag
<1>4. \A k : Times(k) \in Nat /\ (k \in Held <=> Times(k) # 0)
  BY <1>1, BagFacts
<1>5. ASSUME NEW k \in Held', k.mode # "read_only"
      PROVE  Times(k)' = 1
  <2>1. CASE k = l
    <3>1. l \notin Held
      BY <1>2, <1>5, <2>1
    <3> QED BY <1>3, <1>4, <2>1, <3>1
  <2>2. CASE k # l
    BY <1>1, <1>3, <1>4, <1>5, <2>2 DEF Exclusion
  <2> QED BY <2>1, <2>2
<1>6. \A k \in Held' : k.blk \in registered'
  BY <1>1, <1>2, <1>3 DEF Exclusion
<1>7. \A k, m \in Held' : k.blk = m.blk /\ k # m => k.mode = "read_only" /\ m.mode = "read_only"
  BY <1>1, <1>2, <1>3 DEF Exclusion
<1> QED BY <1>5, <1>6, <1>7 DEF Exclusion

(* A call that only waits or finishes leaves the others' reasons to wait.  *)
LEMMA BusyStays ==
  ASSUME TypeOK, NEW c \in Calls, LockGranted(c) \/ NoLockGranted, registered' = registered,
         NEW d \in waiting, Busy(d)
  PROVE  Busy(d)'
<1>1. d.blk \in MemIds /\ d.src \in MemIds
  BY DEF TypeOK, Calls
<1>2. \A b \in MemIds : /\ blocks[b].read_count \in Nat /\ blocks[b].write_count \in Nat
                        /\ blocks'[b].read_count \in Nat
                        /\ blocks'[b].write_count \in Nat
                        /\ blocks'[b].read_count >= blocks[b].read_count
                        /\ blocks'[b].write_count >= blocks[b].write_count
  BY DEF TypeOK, Block, LockGranted, NoLockGranted, SameCounts
<1>3. \A b \in MemIds : /\ blocks[b].read_count # 0 => blocks'[b].read_count # 0
                        /\ blocks[b].write_count # 0 => blocks'[b].write_count # 0
  BY <1>2
<1> QED BY <1>1, <1>3 DEF Busy, SourceBusy, TargetBusy

LEMMA CallStepInv ==
  ASSUME LockInv, NEW c \in Calls, CallStep(c)
  PROVE  LockInv'
<1>0. TypeOK
  BY DEF LockInv
<1>1. ASSUME NEW phase \in {"source", "target"}, Asleep(c, phase)
      PROVE  LockInv'
  <2> DEFINE s == [c EXCEPT !.phase = phase, !.woken = FALSE]
  <2>1. s \in Calls /\ s.thr = c.thr /\ s.src = c.src /\ s.blk = c.blk /\ ~s.woken
    BY DEF Calls
  <2>2. waiting' = (waiting \ {c}) \cup {s} /\ UNCHANGED <<registered, blocks, data, held>>
        /\ Busy(s)
    BY <1>1 DEF Asleep
  <2> HIDE DEF s
  <2>3. TypeOK'
    BY <1>0, <2>1, <2>2, LocksUnchanged DEF TypeOK
  <2>4. OneCallEach'
    BY <2>1, <2>2 DEF LockInv, OneCallEach, CallStep
  <2>5. CountsMatchLocks' /\ Exclusion' /\ FiniteCounts'
    <3>1. NoLockGranted
      BY <2>2 DEF NoLockGranted, SameCounts
    <3>2. CountsMatchLocks' /\ FiniteCounts'
      BY <3>1, CountsUnchanged
    <3>3. Exclusion'
      BY <2>2, LocksUnchanged DEF LockInv, Exclusion
    <3> QED BY <3>2, <3>3
  <2>6. NoLostWakeup'
    <3>1. \A d \in waiting : Busy(d) => Busy(d)'
      BY <2>2 DEF Busy, SourceBusy, TargetBusy
    <3>2. Busy(s)'
      BY <2>2 DEF Busy, SourceBusy, TargetBusy
    <3> QED BY <2>2, <3>1, <3>2 DEF LockInv, NoLostWakeup
  <2> QED BY <2>3, <2>4, <2>5, <2>6 DEF LockInv
<1>2. ASSUME ~TargetBusy(c), registered' = registered, waiting' = waiting \ {c}, Perform(c)
      PROVE  LockInv'
  <2>1. blocks' \in [MemIds -> Block] /\ data' \in [MemIds -> Data]
    BY <1>0, <1>2, PerformType
  <2>2. GrantsLock(c) \/ NoLockGranted
    BY <1>0, <1>2, PerformEffect, GrantIsExclusive
  <2>3. IsABag(held') /\ Held' \subseteq Locks /\ FiniteCounts' /\ CountsMatchLocks' /\ Exclusion'
    <3>1. CASE GrantsLock(c)
      <4>1. IsABag(held') /\ Held' \subseteq Locks
        BY <3>1, <1>0, AddLock DEF GrantsLock, LockGranted, LockInv
      <4> QED BY <1>2, <3>1, <4>1, CountsAfterGrant, ExclusionAfterGrant
    <3>2. CASE NoLockGranted
      <4>1. Exclusion'
        BY <1>2, <3>2, LocksUnchanged DEF LockInv, Exclusion, NoLockGranted
      <4> QED BY <3>2, <4>1, <1>0, CountsUnchanged, LocksUnchanged DEF NoLockGranted, TypeOK
    <3> QED BY <2>2, <3>1, <3>2
  <2>4. TypeOK'
    BY <1>0, <1>2, <2>1, <2>3 DEF TypeOK
  <2>5. OneCallEach'
    BY <1>2 DEF LockInv, OneCallEach
  <2>6. NoLostWakeup'
    <3>1. ASSUME NEW d \in waiting, ~d.woken PROVE Busy(d)'
      <4>1. Busy(d)
        BY <3>1 DEF LockInv, NoLostWakeup
      <4> QED BY <4>1, <1>0, <1>2, <2>2, BusyStays DEF GrantsLock
    <3> QED BY <1>2, <3>1 DEF NoLostWakeup
  <2> QED BY <2>3, <2>4, <2>5, <2>6 DEF LockInv
<1> QED BY <1>0, <1>1, <1>2, ProceedCases DEF CallStep

LEMMA RegisterInv ==
  ASSUME LockInv, NEW b \in MemIds, RegisterAddress(b)
  PROVE  LockInv'
<1>1. TypeOK' /\ OneCallEach' /\ Exclusion'
  BY LocksUnchanged DEF LockInv, RegisterAddress, TypeOK, OneCallEach, Exclusion
<1>2. CountsMatchLocks' /\ FiniteCounts'
  BY CountsUnchanged DEF RegisterAddress, NoLockGranted, SameCounts
<1>3. NoLostWakeup'
  BY DEF LockInv, RegisterAddress, NoLostWakeup, Busy, SourceBusy, TargetBusy
<1> QED BY <1>1, <1>2, <1>3 DEF LockInv

LEMMA RemoveInv ==
  ASSUME LockInv, NEW b \in MemIds, RemoveAddress(b)
  PROVE  LockInv'
<1>0. NewBlock \in Block /\ NewBlock.read_count = 0 /\ NewBlock.write_count = 0
  BY DEF NewBlock, Block
<1>1. TypeOK'
  <2>1. Freed(data[b], blocks[b].readers) \in Data
    <3>1. data[b] \in Data /\ blocks[b].readers \in SUBSET Memories /\ CPU \in Memories
      BY DEF LockInv, TypeOK, Block, Memories
    <3> QED BY <3>1, DataType
  <2>2. [Freed(data[b], blocks[b].readers) EXCEPT !.current = {CPU}, !.torn = FALSE] \in Data
    BY <2>1 DEF Data, Memories
  <2> QED BY <1>0, <2>2, LocksUnchanged DEF LockInv, TypeOK, RemoveAddress
<1>2. NoLockGranted
  BY <1>0 DEF LockInv, TypeOK, RemoveAddress, NoLockGranted, SameCounts
<1>3. CountsMatchLocks' /\ FiniteCounts'
  BY <1>2, CountsUnchanged
<1>4. OneCallEach'
  BY DEF LockInv, RemoveAddress, OneCallEach
<1>5. Exclusion'
  BY ZeroCounts, LocksUnchanged DEF LockInv, RemoveAddress, Exclusion
<1>6. NoLostWakeup'
  BY DEF LockInv, TypeOK, RemoveAddress, NoLostWakeup, Busy, SourceBusy, TargetBusy
<1> QED BY <1>1, <1>3, <1>4, <1>5, <1>6 DEF LockInv

LEMMA WriteInv ==
  ASSUME LockInv, NEW l \in Held, Write(l)
  PROVE  LockInv'
<1>1. data' \in [MemIds -> Data]
  <2>1. l.blk \in MemIds /\ l.mem \in Memories
    BY DEF LockInv, TypeOK, Locks
  <2>2. Overwritten(data[l.blk], l.mem) \in Data
    BY <2>1, DataType DEF LockInv, TypeOK
  <2> QED BY <2>2 DEF LockInv, TypeOK, Write
<1>2. TypeOK'
  BY <1>1, LocksUnchanged DEF LockInv, TypeOK, Write
<1>3. CountsMatchLocks' /\ FiniteCounts'
  BY CountsUnchanged DEF Write, NoLockGranted, SameCounts
<1>4. OneCallEach' /\ Exclusion' /\ NoLostWakeup'
  BY LocksUnchanged DEF LockInv, Write, OneCallEach, Exclusion, NoLostWakeup, Busy,
         SourceBusy, TargetBusy
<1> QED BY <1>2, <1>3, <1>4 DEF LockInv

LEMMA ReleaseInv ==
  ASSUME LockInv, NEW l \in Held, ReleaseRead(l) \/ ReleaseWrite(l)
  PROVE  LockInv'
<1>0. /\ l.blk \in MemIds /\ l.mode \in LockModes
      /\ blocks[l.blk].read_count \in Nat /\ blocks[l.blk].write_count \in Nat
  BY DEF LockInv, TypeOK, Locks, Block
<1>1. /\ registered' = registered /\ data' = data /\ GiveUp(l)
      /\ waiting' = {[c EXCEPT !.woken = TRUE] : c \in waiting}
      /\ blocks' \in [MemIds -> Block]
      /\ SameCounts(MemIds \ {l.blk})
      /\ blocks'[l.blk].read_count = blocks[l.blk].read_count -
            IF l.mode = "read_only" THEN 1 ELSE 0
      /\ blocks'[l.blk].write_count = blocks[l.blk].write_count -
            IF l.mode = "read_only" THEN 0 ELSE 1
  <2>1. CASE ReleaseRead(l)
    <3>1. blocks[l.blk].read_count - 1 \in Nat
      BY <1>0, <2>1 DEF ReleaseRead
    <3> QED BY <1>0, <2>1, <3>1 DEF ReleaseRead, Broadcast, LockInv, TypeOK, Block, SameCounts
  <2>2. CASE ReleaseWrite(l)
    <3>1. blocks[l.blk].write_count - 1 \in Nat
      BY <1>0, <2>2 DEF ReleaseWrite
    <3> QED BY <1>0, <2>2, <3>1 DEF ReleaseWrite, Broadcast, LockInv, TypeOK, Block,
                                     SameCounts, WriteModes
  <2> QED BY <2>1, <2>2
<1>2. \A d \in waiting' : \E c \in waiting :
         d \in Calls /\ d.thr = c.thr /\ d.src = c.src /\ d.blk = c.blk /\ d.woken
  BY <1>1 DEF LockInv, TypeOK, Calls
<1>b. TypeOK /\ FiniteCounts /\ IsABag(held)
  BY DEF LockInv, TypeOK
<1>3. TypeOK' /\ FiniteCounts'
  BY <1>1, <1>2, <1>b, DropLock DEF TypeOK
<1>4. OneCallEach'
  <2>1. \A c, d \in waiting : c.thr = d.thr => c = d
    BY DEF LockInv, OneCallEach
  <2>2. \A c \in waiting : [c EXCEPT !.woken = TRUE].thr = c.thr
    BY DEF LockInv, TypeOK, Calls
  <2>3. ASSUME NEW c \in waiting', NEW d \in waiting', c.thr = d.thr
        PROVE  c = d
    <3>1. PICK e \in waiting : c = [e EXCEPT !.woken = TRUE]
      BY <1>1, <2>3
    <3>2. PICK f \in waiting : d = [f EXCEPT !.woken = TRUE]
      BY <1>1, <2>3
    <3>3. e.thr = f.thr
      BY <2>2, <2>3, <3>1, <3>2
    <3> QED BY <2>1, <3>1, <3>2, <3>3
  <2> QED BY <2>3 DEF OneCallEach
<1>5. NoLostWakeup'
  BY <1>1, <1>2 DEF LockInv, NoLostWakeup
<1>6. Exclusion'
  <2>1. Held' \subseteq Held /\ \A k : Times(k)' = Times(k) - IF k = l THEN 1 ELSE 0
    BY <1>1, <1>b, GiveUpBag
  <2>2. \A k : Times(k) \in Nat /\ (k \in Held' <=> Times(k)' # 0)
    <3>1. \A k : k \in Held' <=> Times(k)' # 0
      BY <1>3, BagFactsNext DEF TypeOK
    <3> QED BY <1>b, <3>1, BagFacts
  <2>3. \A k \in Held' : k.mode # "read_only" => Times(k)' = 1
    BY <2>1, <2>2 DEF LockInv, Exclusion
  <2> QED BY <1>1, <2>1, <2>3 DEF LockInv, Exclusion
<1>7. CountsMatchLocks'
  <2>1. ASSUME NEW b \in MemIds
        PROVE  /\ blocks'[b].read_count = Cardinality(ReadersOf(b)')
               /\ blocks'[b].write_count = Cardinality(WritersOf(b)')
    <3>1. /\ Cardinality(ReadersOf(b)') = Cardinality(ReadersOf(b)) -
                IF b = l.blk /\ l.mode = "read_only" THEN 1 ELSE 0
          /\ Cardinality(WritersOf(b)') = Cardinality(WritersOf(b)) -
                IF b = l.blk /\ l.mode # "read_only" THEN 1 ELSE 0
      BY <1>1, <1>b, DropLock
    <3>2. /\ blocks[b].read_count = Cardinality(ReadersOf(b))
          /\ blocks[b].write_count = Cardinality(WritersOf(b))
          /\ blocks[b].read_count \in Nat /\ blocks[b].write_count \in Nat
      BY DEF LockInv, CountsMatchLocks, TypeOK, Block
    <3>3. CASE b = l.blk
      BY <1>1, <3>1, <3>2, <3>3
    <3>4. CASE b # l.blk
      BY <1>1, <3>1, <3>2, <3>4 DEF SameCounts
    <3> QED BY <3>3, <3>4
  <2> QED BY <2>1 DEF CountsMatchLocks
<1> QED BY <1>3, <1>4, <1>5, <1>6, <1>7 DEF LockInv

LEMMA LockInvInit == Init => LockInv
<1> SUFFICES ASSUME Init PROVE LockInv
  OBVIOUS
<1>1. NewBlock \in Block /\ NewData \in Data
  BY DEF NewBlock, Block, NewData, Data, Memories
<1>e. IsABag(held) /\ Held = {}
  BY DEF Init, EmptyBag, SetToBag, IsABag, Held, BagToSet
<1>2. TypeOK
  BY <1>1, <1>e DEF Init, TypeOK
<1>3. \A b \in MemIds : ReadersOf(b) = {} /\ WritersOf(b) = {}
  BY <1>e DEF ReadersOf, WritersOf, Copies
<1>4. CountsMatchLocks
  BY <1>3, FS_EmptySet DEF Init, CountsMatchLocks, NewBlock
<1>5. FiniteCounts
  BY <1>3, FS_EmptySet DEF FiniteCounts
<1> QED BY <1>2, <1>e, <1>4, <1>5 DEF Init, LockInv, OneCallEach, Exclusion, NoLostWakeup

LEMMA LockInvNext == LockInv /\ [Next]_vars => LockInv'
<1> SUFFICES ASSUME LockInv, [Next]_vars PROVE LockInv'
  OBVIOUS
<1>1. CASE \E b \in MemIds : RegisterAddress(b) \/ RemoveAddress(b)
  BY <1>1, RegisterInv, RemoveInv
<1>2. CASE \E t \in Threads : Call(t) \/ Resume(t)
  BY <1>2, CallIsCallStep, CallStepInv
<1>3. CASE \E l \in Held : Write(l) \/ ReleaseRead(l) \/ ReleaseWrite(l)
  BY <1>3, WriteInv, ReleaseInv
<1>4. CASE UNCHANGED vars
  BY <1>4, LocksUnchanged DEF vars, LockInv, TypeOK, FiniteCounts, OneCallEach,
              CountsMatchLocks, Exclusion, NoLostWakeup, Busy, SourceBusy, TargetBusy
<1> QED BY <1>1, <1>2, <1>3, <1>4 DEF Next

LEMMA LockInvariant == Spec => []LockInv
  BY LockInvInit, LockInvNext, PTL DEF Spec

(* The variables keep the types of the members of MemoryArbiter. *)
THEOREM ArbiterTypeOK == Spec => []TypeOK
<1>1. LockInv => TypeOK
  BY DEF LockInv
<1> QED BY <1>1, LockInvariant, PTL

(* read_only, read_and_write, write_only and their releases never let a    *)
(* writer coexist with another lock holder on the same block, and no locked*)
(* block disappears, for any clients, blocks and memories.                 *)
THEOREM ArbiterExclusion == Spec => []Exclusion
<1>1. LockInv => Exclusion
  BY DEF LockInv
<1> QED BY <1>1, LockInvariant, PTL

(* The counters of a block are the numbers of locks out on it, also when a *)
(* thread has locked it for reading more than once, as the dot product of  *)
(* a vector with itself does.                                              *)
THEOREM ArbiterCounts == Spec => []CountsMatchLocks
<1>1. LockInv => CountsMatchLocks
  BY DEF LockInv
<1> QED BY <1>1, LockInvariant, PTL

(* Whoever sleeps in _access_finished->wait has a reason to: broadcasting  *)
(* in the two releases only is enough.                                     *)
THEOREM ArbiterNoLostWakeup == Spec => []NoLostWakeup
<1>1. LockInv => NoLostWakeup
  BY DEF LockInv
<1> QED BY <1>1, LockInvariant, PTL

-----------------------------------------------------------------------------
(* Every step of the arbiter is a step of AccessLock or leaves `held' and  *)
(* `registered' alone.                                                     *)

LEMMA CallStepRefines ==
  ASSUME LockInv, NEW c \in Calls, CallStep(c)
  PROVE  [Access!Next]_<<registered, held>>
<1>1. TypeOK /\ Proceed(c)
  BY DEF LockInv, CallStep
<1>2. ASSUME NEW phase, Asleep(c, phase)
      PROVE  UNCHANGED <<registered, held>>
  BY <1>2 DEF Asleep
<1>3. ASSUME ~TargetBusy(c), registered' = registered, Perform(c)
      PROVE  [Access!Next]_<<registered, held>>
  <2>1. CASE LockGranted(c)
    <3>1. GrantsLock(c)
      BY <1>3, <2>1, GrantIsExclusive
    <3>2. Access!Grant(LockOf(c))
      BY <1>3, <3>1 DEF GrantsLock, LockGranted, LockOf, Take, Held, IsRead,
                        SetToBag, BagToSet, (+), Access!Grant, Access!Compatible,
                        Access!Held, Access!SetToBag, Access!BagToSet, Access!(+)
    <3> QED BY <3>1, <3>2 DEF GrantsLock, Access!Next
  <2>2. CASE NoLockGranted
    BY <1>3, <2>2 DEF NoLockGranted
  <2> QED BY <1>1, <1>3, <2>1, <2>2, PerformEffect
<1> QED BY <1>1, <1>2, <1>3, ProceedCases

LEMMA StepRefines == LockInv /\ [Next]_vars => [Access!Next]_<<registered, held>>
<1> SUFFICES ASSUME LockInv, [Next]_vars PROVE [Access!Next]_<<registered, held>>
  OBVIOUS
<1>1. ASSUME NEW b \in MemIds, RegisterAddress(b)
      PROVE  Access!Next
  BY <1>1 DEF RegisterAddress, Access!Next, Access!Register
<1>2. ASSUME NEW b \in MemIds, RemoveAddress(b)
      PROVE  Access!Next
  <2>1. \A l \in Held : l.blk # b
    BY <1>2, ZeroCounts DEF RemoveAddress
  <2> QED BY <1>2, <2>1 
          DEF RemoveAddress, Held, BagToSet, Access!Next, Access!Remove, Access!Held, Access!BagToSet
<1>3. CASE \E t \in Threads : Call(t) \/ Resume(t)
  BY <1>3, CallIsCallStep, CallStepRefines
<1>4. ASSUME NEW l \in Held, Write(l)
      PROVE  UNCHANGED <<registered, held>>
  BY <1>4 DEF Write
<1>5. ASSUME NEW l \in Held, ReleaseRead(l) \/ ReleaseWrite(l)
      PROVE  Access!Next
  BY <1>5 DEF ReleaseRead, ReleaseWrite, GiveUp, Held, LockInv, TypeOK,
              SetToBag, BagToSet, (-), Access!Next, Access!Release, Access!Held,
              Access!SetToBag, Access!BagToSet, Access!(-)
<1>6. CASE UNCHANGED vars
  BY <1>6 DEF vars
<1> QED BY <1>1, <1>2, <1>3, <1>4, <1>5, <1>6 DEF Next

(* The counters, the wait loops and the directory together implement the   *)
(* plain readers-writer locks of AccessLock.                               *)
THEOREM ArbiterImplementsAccessLock == Spec => ImplementsAccessLock
<1>1. Init => Access!Init
  BY DEF Init, EmptyBag, SetToBag, Access!Init, Access!EmptyBag, Access!SetToBag
<1> QED BY <1>1, LockInvariant, StepRefines, PTL DEF Spec, ImplementsAccessLock, Access!Spec

-----------------------------------------------------------------------------
(* Coherence, for clients that take no write lock on the source of a copy  *)
(* that is waiting.  The directory alone is not inductive: a holder's      *)
(* store is covered only while the holder is on record as the writer, and  *)
(* CopyThroughMain strikes the source's writer off, so the source must be  *)
(* free of write locks from the moment the copy has stopped looking at it. *)

HoldersAreReaders == \A l \in Held : l.mem \in blocks[l.blk].readers

WriterIsOnRecord ==
    \A l \in Held : l.mode # "read_only" => blocks[l.blk].writer = l.mem

SourcesStayQuiet ==
    \A c \in waiting : c.op = "copy" /\ c.phase = "target" => blocks[c.src].write_count = 0

NoWriterOfSource ==
    \A c, d \in waiting : c.op = "copy" /\ d.op \in WriteModes => d.blk # c.src

CoherenceInv == /\ LockInv
                /\ DirectoryIsCoherent
                /\ HoldersAreReaders
                /\ WriterIsOnRecord
                /\ SourcesStayQuiet
                /\ NoWriterOfSource
                /\ NoTornCopies

(* What QuietSources adds to a call step. *)
QuietStep(c) ==
    /\ CallStep(c)
    /\ c.op = "copy" /\ c.phase = "target" => blocks[c.src].write_count = 0
    /\ \A w \in waiting : /\ c.op = "copy" /\ w.op \in WriteModes => w.blk # c.src
                          /\ w.op = "copy" /\ c.op \in WriteModes => c.blk # w.src

LEMMA CallIsQuietStep ==
  ASSUME QuietSources, CoherenceInv, NEW t \in Threads, Call(t) \/ Resume(t)
  PROVE  \E c \in Calls : QuietStep(c)
<1>1. CASE Call(t)
  <2>1. PICK c \in NewCalls : c.thr = t /\ Disciplined(c) /\ Proceed(c)
    BY <1>1 DEF Call
  <2>2. CallStep(c) /\ c \in Calls
    BY <2>1 DEF CallStep, Disciplined, InCall, NewCalls
  <2> QED BY <2>1, <2>2 DEF QuietStep, Disciplined, NewCalls, TakesWriteLockOn, CopiesFrom
<1>2. CASE Resume(t)
  <2>1. PICK c \in waiting : c.thr = t /\ c.woken /\ Proceed(c)
    BY <1>2 DEF Resume
  <2>2. CallStep(c) /\ c \in Calls
    BY <2>1 DEF CallStep, CoherenceInv, LockInv, OneCallEach, TypeOK
  <2> QED BY <2>1, <2>2 DEF QuietStep, CoherenceInv, SourcesStayQuiet, NoWriterOfSource
<1> QED BY <1>1, <1>2

(* The directory entry and the data of one block, after each operation. *)
LEMMA CoherentOwned ==
  ASSUME NEW d \in Data, NEW m \in Memories,
         NEW b \in Block, Coherent(b, d),
         NEW n \in Block, n.readers = {m}, n.writer = m
  PROVE  /\ Coherent(n, Overwritten(Allocated(Freed(d, b.readers \ {m}), m), m))
         /\ Coherent(n, Uploaded(Overwritten(Freed(d, b.readers), CPU), m))
BY MemoryAssumption
   DEF Coherent, Data, Block, Memories, Overwritten, Allocated, Freed, Uploaded

LEMMA CoherentDownloaded ==
  ASSUME NEW b \in Block, NEW d \in Data, Coherent(b, d), b.writer # None
  PROVE  /\ Downloaded(d, b.writer).chunks = d.chunks
         /\ Downloaded(d, b.writer).current = d.current \cup {CPU}
         /\ Downloaded(d, b.writer).torn = d.torn
BY DEF Coherent, Data, Block, Downloaded

LEMMA CoherentTakenOver ==
  ASSUME NEW b \in Block, NEW d \in Data, NEW m \in Memories, Coherent(b, d),
         NEW n \in Block, n.readers = {m}, n.writer = m
  PROVE  LET w == IF b.writer \notin {None, m} THEN Downloaded(d, b.writer) ELSE d
         IN  Coherent(n, Uploaded(Freed(w, b.readers \ {m}), m))
<1>1. CASE b.writer \in {None, m}
  BY <1>1, MemoryAssumption DEF Coherent, Data, Block, Memories, Freed, Uploaded
<1>2. CASE b.writer \notin {None, m}
  <2> DEFINE w == Downloaded(d, b.writer)
  <2>1. /\ w.chunks = d.chunks /\ w.current = d.current \cup {CPU} /\ w \in Data
    BY <1>2, CoherentDownloaded, DataType DEF Block
  <2> HIDE DEF w
  <2>2. Coherent(n, Uploaded(Freed(w, b.readers \ {m}), m))
    BY <1>2, <2>1, MemoryAssumption DEF Coherent, Data, Block, Memories, Freed, Uploaded
  <2> QED BY <1>2, <2>2 DEF w
<1> QED BY <1>1, <1>2

LEMMA CoherentRead ==
  ASSUME NEW b \in Block, NEW d \in Data, NEW m \in Memories, Coherent(b, d),
         NEW n \in Block, n.readers = b.readers \cup {m},
         n.writer = IF b.writer \notin {None, m} THEN None ELSE b.writer
  PROVE  LET w == IF b.writer \notin {None, m} THEN Downloaded(d, b.writer) ELSE d
         IN  Coherent(n, Uploaded(w, m))
<1>1. CASE b.writer \in {None, m}
  BY <1>1, MemoryAssumption DEF Coherent, Data, Block, Memories, Uploaded
<1>2. CASE b.writer \notin {None, m}
  <2> DEFINE w == Downloaded(d, b.writer)
  <2>1. /\ w.chunks = d.chunks /\ w.current = d.current \cup {CPU} /\ w \in Data
    BY <1>2, CoherentDownloaded, DataType DEF Block
  <2> HIDE DEF w
  <2>2. Coherent(n, Uploaded(w, m))
    BY <1>2, <2>1, MemoryAssumption DEF Coherent, Data, Block, Memories, Uploaded
  <2> QED BY <1>2, <2>2 DEF w
<1> QED BY <1>1, <1>2

(* The torn flag only changes where content is replaced. *)
LEMMA TornKept ==
  ASSUME NEW d \in Data, NEW m \in Memories, NEW M \in SUBSET Memories
  PROVE  /\ Freed(d, M).torn = d.torn
         /\ Uploaded(d, m).torn = d.torn
         /\ Downloaded(d, m).torn = d.torn
         /\ Overwritten(d, m).torn = d.torn
BY DEF Data, Freed, Uploaded, Downloaded, Overwritten

(* A call that gets past its waits leaves every block coherent and intact. *)
LEMMA PerformCoherence ==
  ASSUME CoherenceInv, NEW c \in Calls, QuietStep(c), Perform(c), registered' = registered,
         ~SourceBusy(c)
  PROVE  DirectoryIsCoherent' /\ NoTornCopies'
<1>0. /\ blocks \in [MemIds -> Block] /\ data \in [MemIds -> Data]
      /\ blocks' \in [MemIds -> Block] /\ data' \in [MemIds -> Data]
      /\ c.mem \in Memories /\ c.blk \in MemIds /\ c.src \in MemIds
  BY PerformType DEF CoherenceInv, LockInv, TypeOK, Calls
<1> DEFINE B == blocks[c.blk]
           D == data[c.blk]
           N == blocks'[c.blk]
<1>b. B \in Block /\ D \in Data /\ N \in Block /\ Coherent(B, D) /\ ~D.torn
      /\ B.readers \in SUBSET Memories /\ B.readers \ {c.mem} \in SUBSET Memories
      /\ CPU \in Memories /\ (B.writer # None => B.writer \in Memories)
  BY <1>0 DEF CoherenceInv, DirectoryIsCoherent, NoTornCopies, Block, Memories
<1>c. ASSUME NEW b \in MemIds, b \in registered, Coherent(blocks'[b], data'[b]), ~data'[b].torn,
             \A a \in MemIds \ {b} : blocks'[a] = blocks[a] /\ data'[a] = data[a]
      PROVE  DirectoryIsCoherent' /\ NoTornCopies'
  BY <1>c DEF CoherenceInv, DirectoryIsCoherent, NoTornCopies
<1>1. CASE NotFound(c)
  <2>1. blocks' = blocks /\ data' = data
    BY <1>1 DEF NotFound
  <2> QED BY <2>1 DEF CoherenceInv, DirectoryIsCoherent, NoTornCopies, Coherent
<1>2. CASE c.blk \in registered /\ ReadOnly(c)
  <2> DEFINE w == IF B.writer \notin {None, c.mem} THEN Downloaded(D, B.writer) ELSE D
  <2>1. N.readers = B.readers \cup {c.mem}
        /\ N.writer = IF B.writer \notin {None, c.mem} THEN None ELSE B.writer
    BY <1>0, <1>2, ReadOnlyBlocks
  <2>2. data' = [data EXCEPT ![c.blk] = Uploaded(w, c.mem)]
    BY <1>2 DEF ReadOnly, WrittenElsewhere
  <2>3. Coherent(N, Uploaded(w, c.mem))
    BY <1>0, <1>b, <2>1, CoherentRead
  <2>4. w \in Data /\ ~w.torn
    BY <1>b, DataType, TornKept
  <2>5. ~Uploaded(w, c.mem).torn
    <3> HIDE DEF w
    <3> QED BY <2>4, <1>0, <1>b, TornKept
  <2>6. \A a \in MemIds \ {c.blk} : blocks'[a] = blocks[a] /\ data'[a] = data[a]
    BY <1>0, <1>2, <2>2 DEF ReadOnly
  <2> HIDE DEF w, N
  <2>7. data'[c.blk] = Uploaded(w, c.mem)
    BY <1>0, <2>2
  <2> QED BY <1>0, <1>2, <1>c, <2>3, <2>5, <2>6, <2>7 DEF N
<1>3. CASE c.blk \in registered /\ ReadAndWrite(c)
  <2> DEFINE w == IF B.writer \notin {None, c.mem} THEN Downloaded(D, B.writer) ELSE D
             f == Freed(w, B.readers \ {c.mem})
  <2>1. N.readers = {c.mem} /\ N.writer = c.mem
    BY <1>0, <1>3 DEF ReadAndWrite, Owned, Block
  <2>2. data' = [data EXCEPT ![c.blk] = Uploaded(f, c.mem)]
    BY <1>3 DEF ReadAndWrite, WrittenElsewhere
  <2>3. Coherent(N, Uploaded(f, c.mem))
    BY <1>0, <1>b, <2>1, CoherentTakenOver
  <2>4. w \in Data /\ ~w.torn
    BY <1>b, DataType, TornKept
  <2> HIDE DEF w
  <2>5. f \in Data /\ ~f.torn
    BY <2>4, <1>0, <1>b, DataType, TornKept
  <2> HIDE DEF f, N
  <2>6. ~Uploaded(f, c.mem).torn
    BY <2>5, <1>0, TornKept
  <2>7. \A a \in MemIds \ {c.blk} : blocks'[a] = blocks[a] /\ data'[a] = data[a]
    BY <1>0, <1>3, <2>2 DEF ReadAndWrite
  <2>8. data'[c.blk] = Uploaded(f, c.mem)
    BY <1>0, <2>2
  <2> QED BY <1>0, <1>3, <1>c, <2>3, <2>6, <2>7, <2>8 DEF N
<1>r. ASSUME N.readers = {c.mem}, N.writer = c.mem
      PROVE  Coherent(N, Replaced(c)) /\ ~Replaced(c).torn /\ Replaced(c) \in Data
  <2> DEFINE o == Overwritten(Allocated(Freed(D, B.readers \ {c.mem}), c.mem), c.mem)
  <2>1. o \in Data /\ Coherent(N, o)
    BY <1>0, <1>b, <1>r, CoherentOwned, DataType
  <2>2. Replaced(c) = [o EXCEPT !.torn = FALSE]
    BY DEF Replaced
  <2> HIDE DEF o, N
  <2> QED BY <2>1, <2>2 DEF Coherent, Data
<1>4. CASE c.blk \in registered /\ (WriteOnly(c) \/ Fill(c))
  <2>1. N.readers = {c.mem} /\ N.writer = c.mem
    <3>1. CASE WriteOnly(c)
      BY <1>0, <3>1 DEF WriteOnly, Owned, Block
    <3>2. CASE Fill(c)
      BY <1>0, <3>2 DEF Fill, Owned, Block
    <3> QED BY <1>4, <3>1, <3>2
  <2>2. data' = [data EXCEPT ![c.blk] = Replaced(c)]
        /\ \A a \in MemIds \ {c.blk} : blocks'[a] = blocks[a]
    BY <1>0, <1>4 DEF WriteOnly, Fill
  <2> QED BY <1>0, <1>4, <1>c, <1>r, <2>1, <2>2
<1>s. ASSUME c.op = "copy", c.src \in registered
      PROVE  blocks[c.src].write_count = 0 /\ ~data[c.src].torn
             /\ Coherent(blocks[c.src], data[c.src])
  BY <1>s, <1>0 DEF QuietStep, SourceBusy, Calls, CoherenceInv, NoTornCopies, DirectoryIsCoherent
<1>5. CASE {c.src, c.blk} \subseteq registered /\ CopyLocally(c)
  <2>1. N.readers = {c.mem} /\ N.writer = c.mem
    BY <1>0, <1>5 DEF CopyLocally, Owned, Block
  <2>2. ~ReadsTorn(data[c.src], c.src, c.mem)
    BY <1>0, <1>5, <1>s DEF ReadsTorn, CopyLocally, CanCopyLocally, WrittenElsewhere, Knows,
                            Coherent, Block, Data
  <2>3. PICK refused \in BOOLEAN :
           data' = [data EXCEPT ![c.blk] = [Replaced(c) EXCEPT
                      !.torn = ~refused /\ ReadsTorn(data[c.src], c.src, c.mem)]]
    BY <1>5 DEF CopyLocally
  <2> DEFINE r == [Replaced(c) EXCEPT
                      !.torn = ~refused /\ ReadsTorn(data[c.src], c.src, c.mem)]
  <2>4. Coherent(N, r) /\ ~r.torn
    <3> HIDE DEF N
    <3> QED BY <1>r, <2>1, <2>2 DEF Coherent, Data, N
  <2>5. data' = [data EXCEPT ![c.blk] = r]
        /\ \A a \in MemIds \ {c.blk} : blocks'[a] = blocks[a]
    BY <1>0, <1>5, <2>3 DEF CopyLocally
  <2> HIDE DEF r
  <2> QED BY <1>0, <1>5, <1>c, <2>4, <2>5
<1>6. CASE {c.src, c.blk} \subseteq registered /\ CopyThroughMain(c)
  <2> DEFINE S == blocks[c.src]
             s == IF S.writer = None THEN data[c.src] ELSE Downloaded(data[c.src], S.writer)
             d == Overwritten(Freed(D, B.readers), CPU)
             u == [Uploaded(d, c.mem) EXCEPT !.torn = ReadsTorn(s, c.src, CPU)]
  <2>0. c.src # c.blk \/ c.src = c.blk
    OBVIOUS
  <2>1. S \in Block /\ data[c.src] \in Data
    BY <1>0
  <2>2. /\ s \in Data /\ s.chunks = data[c.src].chunks /\ ~s.torn
        /\ s.current = IF S.writer = None THEN data[c.src].current
                       ELSE data[c.src].current \cup {CPU}
    <3>1. ~data[c.src].torn /\ Coherent(S, data[c.src])
      BY <1>6, <1>s DEF CopyThroughMain
    <3>2. CASE S.writer = None
      BY <2>1, <3>1, <3>2
    <3>3. CASE S.writer # None
      BY <2>1, <3>1, <3>3, CoherentDownloaded, DataType DEF Block
    <3> QED BY <3>2, <3>3
  <2>3. CPU \in s.current
    BY <2>2, <1>6, <1>s DEF CopyThroughMain, Coherent
  <2>4. ~ReadsTorn(s, c.src, CPU)
    BY <1>6, <1>s, <2>2, <2>3 DEF CopyThroughMain, ReadsTorn
  <2>5. N.readers = {c.mem} /\ N.writer = c.mem
    BY <1>0, <1>6 DEF CopyThroughMain, Owned, Block
  <2>6. Uploaded(d, c.mem) \in Data /\ Coherent(N, Uploaded(d, c.mem))
    BY <1>0, <1>b, <2>5, CoherentOwned, DataType
  <2>7. Coherent(N, u) /\ ~u.torn
    <3> HIDE DEF N, d, s
    <3> QED BY <2>4, <2>6 DEF Coherent, Data
  <2>8. data' = [data EXCEPT ![c.src] = s, ![c.blk] = u]
        /\ blocks' = [blocks EXCEPT ![c.src].writer = None, ![c.blk] = Owned(c.blk, c.mem)]
    BY <1>6 DEF CopyThroughMain
  <2> HIDE DEF s, d, u
  <2>9. ASSUME c.src # c.blk
        PROVE  Coherent(blocks'[c.src], data'[c.src]) /\ ~data'[c.src].torn
    <3>1. data'[c.src] = s /\ blocks'[c.src] = [S EXCEPT !.writer = None]
      BY <1>0, <2>8, <2>9
    <3>2. blocks'[c.src].writer = None /\ blocks'[c.src].readers = S.readers
      BY <2>1, <3>1 DEF Block
    <3>3. Coherent(S, data[c.src])
      BY <1>6, <1>s DEF CopyThroughMain
    <3> HIDE DEF S
    <3>4. Coherent(blocks'[c.src], s)
      BY <2>2, <2>3, <3>2, <3>3 DEF Coherent
    <3> QED BY <2>2, <3>1, <3>4
  <2>10. data'[c.blk] = u
    BY <1>0, <2>8
  <2>11. ASSUME NEW a \in MemIds, a # c.src, a # c.blk
         PROVE  blocks'[a] = blocks[a] /\ data'[a] = data[a]
    BY <1>0, <2>8, <2>11
  <2> HIDE DEF N
  <2>12. \A b \in MemIds : Coherent(blocks'[b], data'[b]) /\ ~data'[b].torn
    BY <2>7, <2>9, <2>10, <2>11 DEF CoherenceInv, DirectoryIsCoherent, NoTornCopies, N
  <2>13. \A b \in MemIds : b \notin registered => blocks'[b] = NewBlock
    BY <1>6, <2>11 DEF CoherenceInv, DirectoryIsCoherent
  <2> QED BY <2>12, <2>13 DEF DirectoryIsCoherent, NoTornCopies
<1> HIDE DEF B, D, N
<1> QED BY <1>1, <1>2, <1>3, <1>4, <1>5, <1>6 DEF Perform

(* The holders stay on record: readers as readers, a writer as the writer. *)
LEMMA PerformHolders ==
  ASSUME CoherenceInv, NEW c \in Calls, QuietStep(c), Perform(c), ~TargetBusy(c), ~SourceBusy(c)
  PROVE  HoldersAreReaders' /\ WriterIsOnRecord'
<1>0. /\ blocks \in [MemIds -> Block] /\ Held \subseteq Locks
      /\ c.mem \in Memories /\ c.blk \in MemIds /\ c.src \in MemIds
      /\ \A l \in Held : l.blk \in MemIds
      /\ blocks[c.blk] \in Block /\ blocks[c.src] \in Block
  BY DEF CoherenceInv, LockInv, TypeOK, Calls, Locks
<1>h. /\ LockOf(c).blk = c.blk /\ LockOf(c).mem = c.mem /\ LockOf(c).mode = c.op
  BY DEF LockOf
<1>o. /\ Owned(c.blk, c.mem).readers = {c.mem} /\ Owned(c.blk, c.mem).writer = c.mem
      /\ [Owned(c.blk, c.mem) EXCEPT !.write_count = @ + 1].readers = {c.mem}
      /\ [Owned(c.blk, c.mem) EXCEPT !.write_count = @ + 1].writer = c.mem
  BY <1>0 DEF Owned, Block
<1>w. c.blk \in registered => \A l \in Held : l.blk = c.blk => l.mode = "read_only"
  BY <1>0, ZeroCounts DEF TargetBusy, CoherenceInv
<1>n. c.blk \in registered /\ c.op # "read_only" => \A l \in Held : l.blk # c.blk
  BY <1>0, ZeroCounts DEF TargetBusy, CoherenceInv
<1>t. Take(LockOf(c)) => Held' = Held \cup {LockOf(c)}
  BY TakeBag DEF CoherenceInv, LockInv, TypeOK
<1>1. CASE NotFound(c)
  BY <1>1, LocksUnchanged DEF NotFound, CoherenceInv, HoldersAreReaders, WriterIsOnRecord
<1>2. CASE c.blk \in registered /\ ReadOnly(c)
  <2>1. /\ blocks'[c.blk].readers = blocks[c.blk].readers \cup {c.mem}
        /\ \A b \in MemIds \ {c.blk} : blocks'[b] = blocks[b]
        /\ Take(LockOf(c)) /\ c.op = "read_only"
    BY <1>0, <1>2, ReadOnlyBlocks DEF ReadOnly
  <2> QED BY <1>0, <1>2, <1>h, <1>t, <1>w, <2>1
          DEF CoherenceInv, HoldersAreReaders, WriterIsOnRecord
<1>3. CASE c.blk \in registered /\ (ReadAndWrite(c) \/ WriteOnly(c))
  <2>1. /\ blocks'[c.blk].readers = {c.mem} /\ blocks'[c.blk].writer = c.mem
        /\ \A b \in MemIds \ {c.blk} : blocks'[b] = blocks[b]
        /\ Take(LockOf(c)) /\ c.op # "read_only"
    <3>1. CASE ReadAndWrite(c)
      BY <1>0, <1>o, <3>1 DEF ReadAndWrite
    <3>2. CASE WriteOnly(c)
      BY <1>0, <1>o, <3>2 DEF WriteOnly
    <3> QED BY <1>3, <3>1, <3>2
  <2> QED BY <1>0, <1>3, <1>h, <1>t, <1>n, <2>1
          DEF CoherenceInv, HoldersAreReaders, WriterIsOnRecord
<1>4. CASE c.blk \in registered /\ (Fill(c) \/ CopyLocally(c))
  <2>1. /\ \A b \in MemIds \ {c.blk} : blocks'[b] = blocks[b]
        /\ held' = held /\ c.op # "read_only"
    BY <1>0, <1>4 DEF Fill, CopyLocally
  <2> QED BY <1>0, <1>4, <1>n, <2>1, LocksUnchanged
          DEF CoherenceInv, HoldersAreReaders, WriterIsOnRecord
<1>5. CASE {c.src, c.blk} \subseteq registered /\ CopyThroughMain(c)
  <2>1. \A l \in Held : l.blk = c.src => l.mode = "read_only"
    <3>1. blocks[c.src].write_count = 0
      BY <1>5 DEF QuietStep, SourceBusy, Calls, CopyThroughMain
    <3> QED BY <1>0, <3>1, ZeroCounts DEF CoherenceInv
  <2>2. /\ \A b \in MemIds \ {c.blk, c.src} : blocks'[b] = blocks[b]
        /\ c.src # c.blk => blocks'[c.src] = [blocks[c.src] EXCEPT !.writer = None]
        /\ held' = held /\ c.op # "read_only"
    BY <1>0, <1>5 DEF CopyThroughMain
  <2>3. \A b \in MemIds \ {c.blk} : blocks'[b].readers = blocks[b].readers
    BY <1>0, <2>2 DEF Block
  <2> QED BY <1>0, <1>5, <1>n, <2>1, <2>2, <2>3, LocksUnchanged
          DEF CoherenceInv, HoldersAreReaders, WriterIsOnRecord
<1> QED BY <1>1, <1>2, <1>3, <1>4, <1>5 DEF Perform

LEMMA QuietStepInv ==
  ASSUME CoherenceInv, NEW c \in Calls, QuietStep(c)
  PROVE  CoherenceInv'
<1>0. TypeOK /\ LockInv /\ CallStep(c) /\ Proceed(c)
  BY DEF CoherenceInv, LockInv, QuietStep, CallStep
<1>1. LockInv'
  BY <1>0, CallStepInv
<1>2. ASSUME NEW phase \in {"source", "target"}, Asleep(c, phase),
             phase = "target" /\ c.op = "copy" => blocks[c.src].write_count = 0
      PROVE  CoherenceInv'
  <2> DEFINE s == [c EXCEPT !.phase = phase, !.woken = FALSE]
  <2>1. s \in Calls /\ s.op = c.op /\ s.src = c.src /\ s.blk = c.blk /\ s.phase = phase
    BY DEF Calls
  <2>2. waiting' = (waiting \ {c}) \cup {s} /\ UNCHANGED <<registered, blocks, data, held>>
    BY <1>2 DEF Asleep
  <2> HIDE DEF s
  <2>3. DirectoryIsCoherent' /\ HoldersAreReaders' /\ WriterIsOnRecord' /\ NoTornCopies'
    BY <2>2, LocksUnchanged DEF CoherenceInv, DirectoryIsCoherent, HoldersAreReaders,
                WriterIsOnRecord, NoTornCopies
  <2>4. SourcesStayQuiet'
    BY <1>2, <2>1, <2>2 DEF CoherenceInv, SourcesStayQuiet
  <2>5. NoWriterOfSource'
    <3>1. \A w \in waiting \ {c} : /\ c.op = "copy" /\ w.op \in WriteModes => w.blk # c.src
                                   /\ w.op = "copy" /\ c.op \in WriteModes => c.blk # w.src
      BY DEF QuietStep
    <3> QED BY <2>1, <2>2, <3>1 DEF CoherenceInv, NoWriterOfSource, WriteModes
  <2> QED BY <1>1, <2>3, <2>4, <2>5 DEF CoherenceInv
<1>3. ASSUME ~TargetBusy(c), ~SourceBusy(c), registered' = registered,
             waiting' = waiting \ {c}, Perform(c)
      PROVE  CoherenceInv'
  <2>1. DirectoryIsCoherent' /\ NoTornCopies' /\ HoldersAreReaders' /\ WriterIsOnRecord'
    BY <1>3, PerformCoherence, PerformHolders
  <2>2. NoWriterOfSource'
    BY <1>3 DEF CoherenceInv, NoWriterOfSource
  <2>3. SourcesStayQuiet'
    <3>1. LockGranted(c) \/ NoLockGranted
      BY <1>0, <1>3, PerformEffect
    <3>2. ASSUME NEW d \in waiting, d.op = "copy", d.phase = "target"
          PROVE  blocks'[d.src].write_count = 0
      <4>1. blocks[d.src].write_count = 0 /\ d.src \in MemIds
        BY <3>2, <1>0 DEF CoherenceInv, SourcesStayQuiet, TypeOK, Calls
      <4>2. CASE NoLockGranted
        BY <4>1, <4>2 DEF NoLockGranted, SameCounts
      <4>3. CASE LockGranted(c) /\ d.src # c.blk
        BY <4>1, <4>3 DEF LockGranted, SameCounts
      <4>4. CASE LockGranted(c) /\ d.src = c.blk
        <5>1. c.op = "read_only"
          BY <3>2, <4>4 DEF QuietStep, LockGranted, LockModes
        <5> QED BY <4>1, <4>4, <5>1 DEF LockGranted
      <4> QED BY <3>1, <4>2, <4>3, <4>4
    <3> QED BY <1>3, <3>2 DEF SourcesStayQuiet
  <2> QED BY <1>1, <2>1, <2>2, <2>3 DEF CoherenceInv
<1>4. ASSUME ~SourceBusy(c), c.op = "copy"
      PROVE  blocks[c.src].write_count = 0
  <2>1. CASE c.src \in registered
    BY <1>4, <2>1 DEF QuietStep, SourceBusy, Calls
  <2>2. CASE c.src \notin registered
    <3>1. c.src \in MemIds
      BY DEF Calls
    <3> QED BY <2>2, <3>1 DEF CoherenceInv, DirectoryIsCoherent, NewBlock
  <2> QED BY <2>1, <2>2
<1>5. CASE SourceBusy(c) /\ Sleep(c, "source")
  BY <1>0, <1>2, <1>5 DEF Proceed, Asleep, Sleep, Busy, SourceBusy, Calls
<1>6. CASE ~SourceBusy(c) /\ TargetBusy(c) /\ Sleep(c, "target")
  <2>1. Asleep(c, "target")
    BY <1>0, <1>6 DEF Proceed, Asleep, Sleep, Busy, TargetBusy, Calls
  <2> QED BY <1>2, <1>4, <1>6, <2>1
<1>7. CASE ~SourceBusy(c) /\ ~TargetBusy(c) /\ waiting' = waiting \ {c} /\ Perform(c)
  BY <1>0, <1>3, <1>7 DEF Proceed
<1> QED BY <1>0, <1>5, <1>6, <1>7 DEF Proceed

LEMMA CoherenceInvNext == QuietSources /\ CoherenceInv /\ [Next]_vars => CoherenceInv'
<1> SUFFICES ASSUME QuietSources, CoherenceInv, [Next]_vars PROVE CoherenceInv'
  OBVIOUS
<1>0. LockInv /\ LockInv' /\ TypeOK
  BY LockInvNext DEF CoherenceInv, LockInv
<1>1. ASSUME NEW b \in MemIds, RegisterAddress(b)
      PROVE  CoherenceInv'
  BY <1>0, <1>1, LocksUnchanged DEF RegisterAddress, CoherenceInv, DirectoryIsCoherent, HoldersAreReaders,
                    WriterIsOnRecord, SourcesStayQuiet, NoWriterOfSource, NoTornCopies
<1>2. ASSUME NEW b \in MemIds, RemoveAddress(b)
      PROVE  CoherenceInv'
  <2>0. data[b] \in Data /\ blocks[b] \in Block /\ Coherent(blocks[b], data[b])
    BY <1>0 DEF TypeOK, CoherenceInv, DirectoryIsCoherent
  <2> DEFINE d == [Freed(data[b], blocks[b].readers) EXCEPT !.current = {CPU}, !.torn = FALSE]
  <2>1. d.chunks = {} /\ d.current = {CPU} /\ ~d.torn
    BY <2>0 DEF Coherent, Freed, Data
  <2>2. Coherent(NewBlock, d)
    BY <2>1 DEF Coherent, NewBlock
  <2>3. /\ registered' = registered \ {b} /\ held' = held /\ waiting' = waiting
        /\ blocks' = [blocks EXCEPT ![b] = NewBlock] /\ data' = [data EXCEPT ![b] = d]
    BY <1>2 DEF RemoveAddress
  <2> HIDE DEF d
  <2>4. DirectoryIsCoherent' /\ NoTornCopies'
    BY <1>0, <2>1, <2>2, <2>3 DEF TypeOK, CoherenceInv, DirectoryIsCoherent, NoTornCopies
  <2>5. \A l \in Held : l.blk # b /\ l.blk \in MemIds
    BY <1>0, <1>2, ZeroCounts DEF RemoveAddress, TypeOK, Locks
  <2>6. HoldersAreReaders' /\ WriterIsOnRecord'
    BY <1>0, <2>3, <2>5, LocksUnchanged DEF TypeOK, CoherenceInv, HoldersAreReaders,
                                            WriterIsOnRecord
  <2>7. SourcesStayQuiet' /\ NoWriterOfSource'
    BY <1>0, <2>3 DEF TypeOK, CoherenceInv, SourcesStayQuiet, NoWriterOfSource, NewBlock, Calls
  <2> QED BY <1>0, <2>4, <2>6, <2>7 DEF CoherenceInv
<1>3. ASSUME NEW t \in Threads, Call(t) \/ Resume(t)
      PROVE  CoherenceInv'
  BY <1>3, CallIsQuietStep, QuietStepInv
<1>4. ASSUME NEW l \in Held, Write(l)
      PROVE  CoherenceInv'
  <2>0. l.blk \in MemIds /\ l.mem \in Memories /\ l.mode # "read_only"
    BY <1>0, <1>4 DEF TypeOK, Locks, Write, WriteModes
  <2>1. blocks[l.blk].writer = l.mem /\ l.mem # None /\ Coherent(blocks[l.blk], data[l.blk])
    BY <2>0, MemoryAssumption DEF Memories, CoherenceInv, WriterIsOnRecord, DirectoryIsCoherent
  <2> DEFINE d == Overwritten(data[l.blk], l.mem)
  <2>2. Coherent(blocks[l.blk], d) /\ ~d.torn
    BY <1>0, <2>0, <2>1 DEF Coherent, Overwritten, TypeOK, Data, CoherenceInv, NoTornCopies
  <2>3. data' = [data EXCEPT ![l.blk] = d] /\ UNCHANGED <<registered, blocks, held, waiting>>
    BY <1>4 DEF Write
  <2> HIDE DEF d
  <2>4. DirectoryIsCoherent' /\ NoTornCopies'
    BY <1>0, <2>0, <2>2, <2>3 DEF TypeOK, CoherenceInv, DirectoryIsCoherent, NoTornCopies
  <2> QED BY <1>0, <2>3, <2>4, LocksUnchanged DEF CoherenceInv, HoldersAreReaders, WriterIsOnRecord,
                                  SourcesStayQuiet, NoWriterOfSource
<1>5. ASSUME NEW l \in Held, ReleaseRead(l) \/ ReleaseWrite(l)
      PROVE  CoherenceInv'
  <2>0. l.blk \in MemIds
    BY <1>0 DEF TypeOK, Locks
  <2>1. /\ registered' = registered /\ data' = data /\ GiveUp(l)
        /\ waiting' = {[c EXCEPT !.woken = TRUE] : c \in waiting}
        /\ \A b \in MemIds : /\ blocks'[b].readers = blocks[b].readers
                             /\ blocks'[b].writer = blocks[b].writer
                             /\ b # l.blk => blocks'[b] = blocks[b]
                             /\ blocks[b].write_count = 0 => blocks'[b].write_count = 0
    <3>1. CASE ReleaseRead(l)
      BY <1>0, <2>0, <3>1 DEF ReleaseRead, Broadcast, TypeOK, Block
    <3>2. CASE ReleaseWrite(l)
      BY <1>0, <2>0, <3>2 DEF ReleaseWrite, Broadcast, TypeOK, Block
    <3> QED BY <1>5, <3>1, <3>2
  <2>2. l.blk \in registered
    BY <1>5 DEF ReleaseRead, ReleaseWrite
  <2>3. DirectoryIsCoherent' /\ NoTornCopies'
    BY <2>1, <2>2 DEF CoherenceInv, DirectoryIsCoherent, NoTornCopies, Coherent
  <2>4. HoldersAreReaders' /\ WriterIsOnRecord'
    <3>1. Held' \subseteq Held
      BY <1>0, <2>1, GiveUpBag DEF TypeOK
    <3> QED BY <1>0, <2>1, <3>1 DEF CoherenceInv, HoldersAreReaders, WriterIsOnRecord,
                                    TypeOK, Locks
  <2>5. \A d \in waiting' : \E c \in waiting :
           d.op = c.op /\ d.phase = c.phase /\ d.src = c.src /\ d.blk = c.blk /\ c.src \in MemIds
    BY <1>0, <2>1 DEF TypeOK, Calls
  <2>6. SourcesStayQuiet' /\ NoWriterOfSource'
    BY <2>1, <2>5 DEF CoherenceInv, SourcesStayQuiet, NoWriterOfSource
  <2> QED BY <1>0, <2>3, <2>4, <2>6 DEF CoherenceInv
<1>6. CASE UNCHANGED vars
  BY <1>0, <1>6, LocksUnchanged DEF vars, CoherenceInv, DirectoryIsCoherent, HoldersAreReaders,
                    WriterIsOnRecord, SourcesStayQuiet, NoWriterOfSource, NoTornCopies
<1> QED BY <1>1, <1>2, <1>3, <1>4, <1>5, <1>6 DEF Next

LEMMA CoherenceInvInit == Init => CoherenceInv
<1> SUFFICES ASSUME Init PROVE CoherenceInv
  OBVIOUS
<1>1. Coherent(NewBlock, NewData) /\ ~NewData.torn
  BY DEF Coherent, NewBlock, NewData
<1>2. Held = {}
  BY DEF Init, EmptyBag, SetToBag, Held, BagToSet
<1> QED BY <1>1, <1>2, LockInvInit DEF Init, CoherenceInv, DirectoryIsCoherent, HoldersAreReaders,
                                WriterIsOnRecord, SourcesStayQuiet, NoWriterOfSource, NoTornCopies

LEMMA CoherenceInvariant == QuietSources /\ Spec => []CoherenceInv
<1>1. CASE QuietSources
  <2>1. Init => CoherenceInv
    BY CoherenceInvInit
  <2>2. CoherenceInv /\ [Next]_vars => CoherenceInv'
    BY <1>1, CoherenceInvNext
  <2> QED BY <2>1, <2>2, PTL DEF Spec
<1>2. CASE ~QuietSources
  BY <1>2
<1> QED BY <1>1, <1>2

(* The directory of readers and writer is right about every memory and no  *)
(* stale buffer survives, as long as clients leave copy sources alone.     *)
THEOREM ArbiterDirectory == QuietSources /\ Spec => []DirectoryIsCoherent
<1>1. CoherenceInv => DirectoryIsCoherent
  BY DEF CoherenceInv
<1> QED BY <1>1, CoherenceInvariant, PTL

(* A lock holder always works on the block's current content, whichever    *)
(* memory it locked it in: lock downloads, uploads and frees enough.       *)
THEOREM ArbiterHoldersSeeCurrent == QuietSources /\ Spec => []HoldersSeeCurrent
<1>1. CoherenceInv => HoldersSeeCurrent
  <2> SUFFICES ASSUME CoherenceInv, NEW l \in Held PROVE l.mem \in data[l.blk].current
    BY DEF HoldersSeeCurrent
  <2>1. l.blk \in MemIds /\ l.mem \in blocks[l.blk].readers
    BY DEF CoherenceInv, LockInv, TypeOK, Locks, HoldersAreReaders
  <2>2. Coherent(blocks[l.blk], data[l.blk])
    BY <2>1 DEF CoherenceInv, DirectoryIsCoherent
  <2> QED BY <2>1, <2>2 DEF Coherent
<1> QED BY <1>1, CoherenceInvariant, PTL

(* Copies and conversions read whole, current sources. *)
THEOREM ArbiterNoTornCopies == QuietSources /\ Spec => []NoTornCopies
<1>1. CoherenceInv => NoTornCopies
  BY DEF CoherenceInv
<1> QED BY <1>1, CoherenceInvariant, PTL

=============================================================================
