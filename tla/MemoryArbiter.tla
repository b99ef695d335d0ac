--------------------------- MODULE MemoryArbiter ---------------------------
(***************************************************************************)
(* The memory arbiter of HONEI (honei/util/memory_arbiter-impl.hh): read   *)
(* and write locks on memory blocks, and the directory that decides which  *)
(* of main memory and the device memories holds a block's current content. *)
(*                                                                         *)
(* Every public operation runs under one mutex and leaves it only in       *)
(* _access_finished->wait, so a call is one step up to its first wait, and *)
(* one step per wake-up after that.  A call that never waits is one step   *)
(* and leaves no trace in `waiting'.  An exception thrown before anything  *)
(* was changed is a step that only ends the call.                          *)
(***************************************************************************)
EXTENDS Integers, FiniteSets, Bags

CONSTANTS
    Threads,      \* threads that call the arbiter
    MemIds,       \* keys of memory blocks: the addresses of their main memory
    Remote,       \* memories with buffers of their own (CUDA, OpenCL, ...)
    CPU,          \* tags::tv_cpu, whose backend works on main memory itself
    None,         \* tags::tv_none, the writer of a block clean in main memory
    QuietSources, \* clients take no write lock on the source of a pending copy
    SelfWaits,    \* clients may ask for a lock that they keep from themselves
    MaxLocks      \* bound: how many locks are held or asked for at once

ASSUME MemoryAssumption == CPU \notin Remote /\ None \notin Remote \cup {CPU}
ASSUME MemIdsAssumption == MemIds \subseteq Nat
ASSUME ClientAssumption == {QuietSources, SelfWaits} \subseteq BOOLEAN /\ MaxLocks \in Nat

VARIABLES
    registered,   \* the keys of _blocks
    blocks,       \* the values of _blocks; NewBlock outside `registered'
    data,         \* per block: device buffers, and where its content is
    held,         \* a bag: how often each lock is granted and not yet released
    waiting       \* the calls inside _access_finished->wait, or just woken

vars == <<registered, blocks, data, held, waiting>>

-----------------------------------------------------------------------------
Memories == Remote \cup {CPU}

WriteModes == {"write_only", "read_and_write"}
LockModes  == WriteModes \cup {"read_only"}

Block == [read_count : Nat, write_count : Nat,
          writer : Memories \cup {None}, readers : SUBSET Memories]

NewBlock == [read_count |-> 0, write_count |-> 0, writer |-> None, readers |-> {}]

(* chunks: the devices with a buffer for the block.  current: the memories *)
(* whose bytes are the block's content (CPU stands for main memory).       *)
(* torn: the content was copied out of bytes that were not the source's.   *)
Data == [chunks : SUBSET Remote, current : SUBSET Memories, torn : BOOLEAN]

NewData == [chunks |-> {}, current |-> {CPU}, torn |-> FALSE]

Locks == [thr : Threads, blk : MemIds, mem : Memories, mode : LockModes]

(* A call in progress.  op is a lock mode, "fill" or "copy" (copy and the  *)
(* two converts); only a copy has a source and starts in phase "source".   *)
Calls == [thr : Threads, op : LockModes \cup {"fill", "copy"}, mem : Memories,
          blk : MemIds, src : MemIds, phase : {"source", "target"}, woken : BOOLEAN]

NewCalls == {c \in Calls : /\ c.woken
                           /\ c.phase = IF c.op = "copy" THEN "source" ELSE "target"
                           /\ c.op = "copy" <=> c.src # c.blk}

LockOf(c) == [thr |-> c.thr, blk |-> c.blk, mem |-> c.mem, mode |-> c.op]

(* A thread may lock a block again that it has locked for reading: the     *)
(* dot product of a vector with itself does.                               *)
Held      == BagToSet(held)
Times(l)  == IF l \in Held THEN held[l] ELSE 0
Take(l)   == held' = held (+) SetToBag({l})
GiveUp(l) == held' = held (-) SetToBag({l})

(* The locks of a set, each as often as it is held, told apart by numbers. *)
Copies(S) == UNION {{l} \X (1..Times(l)) : l \in S}

Init == /\ registered = {}
        /\ blocks = [b \in MemIds |-> NewBlock]
        /\ data = [b \in MemIds |-> NewData]
        /\ held = EmptyBag
        /\ waiting = {}

-----------------------------------------------------------------------------
(* What the backends do to one block's data.  Upload and alloc find an     *)
(* existing buffer and leave its bytes alone; download copies the device's *)
(* bytes over main memory whatever they are.  The CPU backend does nothing.*)

Freed(d, M) == [d EXCEPT !.chunks = @ \ M, !.current = @ \ (M \ {CPU})]

Allocated(d, m) ==
    IF m = CPU \/ m \in d.chunks THEN d
    ELSE [d EXCEPT !.chunks = @ \cup {m}, !.current = @ \ {m}]

Uploaded(d, m) ==
    IF m = CPU \/ m \in d.chunks THEN d
    ELSE [d EXCEPT !.chunks = @ \cup {m},
                   !.current = IF CPU \in @ THEN @ \cup {m} ELSE @ \ {m}]

Downloaded(d, m) ==
    IF m \in d.current THEN [d EXCEPT !.current = @ \cup {CPU}]
                       ELSE [d EXCEPT !.current = @ \ {CPU}]

(* New content appears in memory m and nowhere else. *)
Overwritten(d, m) == [d EXCEPT !.current = {m}]

Knows(m, b) == m = CPU \/ m \in data[b].chunks

-----------------------------------------------------------------------------
(* The two wait conditions. *)

SourceBusy(c) == /\ c.phase = "source"
                 /\ c.src \in registered
                 /\ blocks[c.src].write_count # 0

(* Mutant: a writer does not wait for the readers. *)
TargetBusyForgetsReaders(c) == /\ c.blk \in registered
                               /\ blocks[c.blk].write_count # 0

TargetBusy(c) == /\ c.blk \in registered
                 /\ \/ blocks[c.blk].write_count # 0
                    \/ c.op # "read_only" /\ blocks[c.blk].read_count # 0

Busy(c) == IF c.phase = "source" THEN SourceBusy(c) ELSE TargetBusy(c)

(* The last memory that changed block b is not the one a call works in. *)
WrittenElsewhere(b, m) == blocks[b].writer \notin {None, m}

Owned(b, m) == [blocks[b] EXCEPT !.readers = {m}, !.writer = m]

(* Mutant: only the first reader in a memory is counted. *)
ReadOnlyCountsMemories(c) ==
    LET stale == WrittenElsewhere(c.blk, c.mem)
        d     == IF stale THEN Downloaded(data[c.blk], blocks[c.blk].writer)
                          ELSE data[c.blk]
        more  == IF c.mem \in blocks[c.blk].readers THEN 0 ELSE 1
    IN  /\ c.op = "read_only"
        /\ blocks' = [blocks EXCEPT
              ![c.blk].writer     = IF stale THEN None ELSE @,
              ![c.blk].read_count = @ + more,
              ![c.blk].readers    = @ \cup {c.mem}]
        /\ data' = [data EXCEPT ![c.blk] = Uploaded(d, c.mem)]
        /\ Take(LockOf(c))

(* Mutant: the writer stays on record after its block was written back. *)
ReadOnlyKeepsWriter(c) ==
    LET d == IF WrittenElsewhere(c.blk, c.mem)
             THEN Downloaded(data[c.blk], blocks[c.blk].writer) ELSE data[c.blk]
    IN  /\ c.op = "read_only"
        /\ blocks' = [blocks EXCEPT
              ![c.blk].read_count = @ + 1,
              ![c.blk].readers    = @ \cup {c.mem}]
        /\ data' = [data EXCEPT ![c.blk] = Uploaded(d, c.mem)]
        /\ Take(LockOf(c))

ReadOnly(c) ==
    LET stale == WrittenElsewhere(c.blk, c.mem)
        d     == IF stale THEN Downloaded(data[c.blk], blocks[c.blk].writer)
                          ELSE data[c.blk]
    IN  /\ c.op = "read_only"
        /\ blocks' = [blocks EXCEPT
              ![c.blk].writer     = IF stale THEN None ELSE @,
              ![c.blk].read_count = @ + 1,
              ![c.blk].readers    = @ \cup {c.mem}]
        /\ data' = [data EXCEPT ![c.blk] = Uploaded(d, c.mem)]
        /\ Take(LockOf(c))

(* Mutant: the buffers of the other readers are not freed. *)
ReadAndWriteLeavesChunks(c) ==
    LET d == IF WrittenElsewhere(c.blk, c.mem)
             THEN Downloaded(data[c.blk], blocks[c.blk].writer) ELSE data[c.blk]
    IN  /\ c.op = "read_and_write"
        /\ blocks' = [blocks EXCEPT ![c.blk] =
              [Owned(c.blk, c.mem) EXCEPT !.write_count = @ + 1]]
        /\ data' = [data EXCEPT ![c.blk] = Uploaded(d, c.mem)]
        /\ Take(LockOf(c))

ReadAndWrite(c) ==
    LET d == IF WrittenElsewhere(c.blk, c.mem)
             THEN Downloaded(data[c.blk], blocks[c.blk].writer) ELSE data[c.blk]
        others == blocks[c.blk].readers \ {c.mem}
    IN  /\ c.op = "read_and_write"
        /\ blocks' = [blocks EXCEPT ![c.blk] =
              [Owned(c.blk, c.mem) EXCEPT !.write_count = @ + 1]]
        /\ data' = [data EXCEPT ![c.blk] = Uploaded(Freed(d, others), c.mem)]
        /\ Take(LockOf(c))

(* A write_only lock and a fill abandon the old content: from here on the  *)
(* block's content is whatever its buffer in c.mem holds.                  *)
Replaced(c) ==
    LET others == blocks[c.blk].readers \ {c.mem}
        d      == Allocated(Freed(data[c.blk], others), c.mem)
    IN  [Overwritten(d, c.mem) EXCEPT !.torn = FALSE]

WriteOnly(c) ==
    /\ c.op = "write_only"
    /\ blocks' = [blocks EXCEPT ![c.blk] =
          [Owned(c.blk, c.mem) EXCEPT !.write_count = @ + 1]]
    /\ data' = [data EXCEPT ![c.blk] = Replaced(c)]
    /\ Take(LockOf(c))

Fill(c) ==
    /\ c.op = "fill"
    /\ blocks' = [blocks EXCEPT ![c.blk] = Owned(c.blk, c.mem)]
    /\ data' = [data EXCEPT ![c.blk] = Replaced(c)]
    /\ UNCHANGED held

(* Reading block b in memory m yields something else than its content: the *)
(* bytes there are old, or a write lock is out, or the content is torn.    *)
ReadsTorn(d, b, m) == m \notin d.current \/ blocks[b].write_count # 0 \/ d.torn

(* Within one memory: the source is clean or was last changed here, and    *)
(* the backend has a buffer for it.                                        *)
(* Mutant: whoever knows the source may copy it, current or not. *)
CanCopyWhatIsKnown(c) == Knows(c.mem, c.src)

CanCopyLocally(c) == ~WrittenElsewhere(c.src, c.mem) /\ Knows(c.mem, c.src)

(* The backend may refuse what it does not support (OpenCL converts        *)
(* nothing) after the arbiter has made the destination its own: it throws, *)
(* and the destination is left as a write_only lock or a fill leaves it.   *)
CopyLocally(c) ==
    /\ c.op = "copy" /\ CanCopyLocally(c)
    /\ blocks' = [blocks EXCEPT ![c.blk] = Owned(c.blk, c.mem)]
    /\ \E refused \in BOOLEAN :
          data' = [data EXCEPT ![c.blk] = [Replaced(c) EXCEPT
                      !.torn = ~refused /\ ReadsTorn(data[c.src], c.src, c.mem)]]
    /\ UNCHANGED held

(* Otherwise the source is written back, copied in main memory, and the    *)
(* destination is uploaded.  The source's writer is reset in any case.     *)
CopyThroughMain(c) ==
    LET w == blocks[c.src].writer
        s == IF w = None THEN data[c.src] ELSE Downloaded(data[c.src], w)
        d == Overwritten(Freed(data[c.blk], blocks[c.blk].readers), CPU)
    IN  /\ c.op = "copy" /\ ~CanCopyLocally(c)
        /\ blocks' = [blocks EXCEPT ![c.src].writer = None,
                                    ![c.blk] = Owned(c.blk, c.mem)]
        /\ data' = [data EXCEPT
              ![c.src] = s,
              ![c.blk] = [Uploaded(d, c.mem) EXCEPT !.torn = ReadsTorn(s, c.src, CPU)]]
        /\ UNCHANGED held

(* "Memory Block not found!" is thrown before anything is changed. *)
NotFound(c) == /\ {c.src, c.blk} \ registered # {}
               /\ UNCHANGED <<blocks, data, held>>

Perform(c) ==
    \/ NotFound(c)
    \/ /\ {c.src, c.blk} \subseteq registered
       /\ \/ ReadOnly(c)
          \/ ReadAndWrite(c)
          \/ WriteOnly(c)
          \/ Fill(c)
          \/ CopyLocally(c)
          \/ CopyThroughMain(c)

Sleep(c, phase) ==
    /\ waiting' = (waiting \ {c}) \cup {[c EXCEPT !.phase = phase, !.woken = FALSE]}
    /\ UNCHANGED <<blocks, data, held>>

(* A call runs until it has to wait or is done.  The source loop comes     *)
(* first and is not entered again once the call waits for its target.      *)
Proceed(c) ==
    /\ UNCHANGED registered
    /\ \/ SourceBusy(c) /\ Sleep(c, "source")
       \/ ~SourceBusy(c) /\ TargetBusy(c) /\ Sleep(c, "target")
       \/ ~SourceBusy(c) /\ ~TargetBusy(c) /\ waiting' = waiting \ {c} /\ Perform(c)

-----------------------------------------------------------------------------
(* Operations. *)

RegisterAddress(b) ==
    /\ b \notin registered
    /\ registered' = registered \cup {b}
    /\ UNCHANGED <<blocks, data, held, waiting>>

(* The two ASSERTs of remove_address demand that no lock is out.  Clients  *)
(* do not destroy the source of a copy that is running: it would find a    *)
(* dangling iterator.  The next block at this address starts with whatever *)
(* bytes main memory holds, and with the buffers that were not freed.      *)
(* Mutant: a block may be removed while it is read. *)
RemoveAddressUnderRead(b) ==
    /\ b \in registered
    /\ blocks[b].write_count = 0
    /\ ~ \E c \in waiting : c.op = "copy" /\ c.phase = "target" /\ c.src = b
    /\ registered' = registered \ {b}
    /\ blocks' = [blocks EXCEPT ![b] = NewBlock]
    /\ data' = [data EXCEPT ![b] =
          [Freed(@, blocks[b].readers) EXCEPT !.current = {CPU}, !.torn = FALSE]]
    /\ UNCHANGED <<held, waiting>>

RemoveAddress(b) ==
    /\ b \in registered
    /\ blocks[b].read_count = 0 /\ blocks[b].write_count = 0
    /\ ~ \E c \in waiting : c.op = "copy" /\ c.phase = "target" /\ c.src = b
    /\ registered' = registered \ {b}
    /\ blocks' = [blocks EXCEPT ![b] = NewBlock]
    /\ data' = [data EXCEPT ![b] =
          [Freed(@, blocks[b].readers) EXCEPT !.current = {CPU}, !.torn = FALSE]]
    /\ UNCHANGED <<held, waiting>>

InCall(t) == \E c \in waiting : c.thr = t

(* What the callers of the arbiter keep to: one call at a time.  They may  *)
(* lock a block again that they hold for reading, and, if SelfWaits, also  *)
(* ask for what they would wait for themselves to release.  With           *)
(* QuietSources they take no write lock on the source of a pending copy.   *)
TakesWriteLockOn(b) == \E w \in waiting : w.op \in WriteModes /\ w.blk = b
CopiesFrom(b)       == \E w \in waiting : w.op = "copy" /\ w.src = b

WaitsForItself(c)   ==
    \E l \in Held : /\ l.thr = c.thr
                    /\ \/ l.mode # "read_only" /\ l.blk \in {c.src, c.blk}
                       \/ c.op # "read_only" /\ l.blk = c.blk
Asking              == {w \in waiting : w.op \in LockModes}

Disciplined(c) ==
    /\ ~InCall(c.thr)
    /\ ~SelfWaits => ~WaitsForItself(c)
    /\ c.op \in LockModes => Cardinality(Copies(Held)) + Cardinality(Asking) < MaxLocks
    /\ QuietSources => /\ c.op = "copy" => ~TakesWriteLockOn(c.src)
                       /\ c.op \in WriteModes => ~CopiesFrom(c.blk)

Call(t) == \E c \in NewCalls : c.thr = t /\ Disciplined(c) /\ Proceed(c)

Resume(t) == \E c \in waiting : c.thr = t /\ c.woken /\ Proceed(c)

(* The holder of a write lock stores into the buffer it was given. *)
Write(l) ==
    /\ l.mode \in WriteModes
    /\ ~InCall(l.thr)
    /\ data' = [data EXCEPT ![l.blk] = Overwritten(@, l.mem)]
    /\ UNCHANGED <<registered, blocks, held, waiting>>

(* Mutant: signal instead of broadcast, one waiter is woken. *)
SignalOne ==
    \/ waiting = {} /\ waiting' = {}
    \/ \E c \in waiting : waiting' = (waiting \ {c}) \cup {[c EXCEPT !.woken = TRUE]}

Broadcast == waiting' = {[c EXCEPT !.woken = TRUE] : c \in waiting}

(* Mutant: only releasing a write lock wakes anybody. *)
ReleaseReadQuietly(l) ==
    /\ l.mode = "read_only"
    /\ ~InCall(l.thr)
    /\ l.blk \in registered /\ blocks[l.blk].read_count # 0
    /\ blocks' = [blocks EXCEPT ![l.blk].read_count = @ - 1]
    /\ GiveUp(l)
    /\ UNCHANGED <<registered, data, waiting>>

ReleaseRead(l) ==
    /\ l.mode = "read_only"
    /\ ~InCall(l.thr)
    /\ l.blk \in registered /\ blocks[l.blk].read_count # 0
    /\ blocks' = [blocks EXCEPT ![l.blk].read_count = @ - 1]
    /\ GiveUp(l)
    /\ Broadcast
    /\ UNCHANGED <<registered, data>>

(* Mutant: release_write decrements the wrong counter. *)
ReleaseWriteOfReader(l) ==
    /\ l.mode \in WriteModes
    /\ ~InCall(l.thr)
    /\ l.blk \in registered /\ blocks[l.blk].write_count # 0
    /\ blocks' = [blocks EXCEPT ![l.blk].read_count = @ - 1]
    /\ GiveUp(l)
    /\ Broadcast
    /\ UNCHANGED <<registered, data>>

ReleaseWrite(l) ==
    /\ l.mode \in WriteModes
    /\ ~InCall(l.thr)
    /\ l.blk \in registered /\ blocks[l.blk].write_count # 0
    /\ blocks' = [blocks EXCEPT ![l.blk].write_count = @ - 1]
    /\ GiveUp(l)
    /\ Broadcast
    /\ UNCHANGED <<registered, data>>

Next == \/ \E b \in MemIds : RegisterAddress(b) \/ RemoveAddress(b)
        \/ \E t \in Threads : Call(t) \/ Resume(t)
        \/ \E l \in Held : Write(l) \/ ReleaseRead(l) \/ ReleaseWrite(l)

Spec == Init /\ [][Next]_vars

(* A woken thread gets the mutex again: the host's scheduler is fair, and  *)
(* no operation keeps the mutex.  Nothing is assumed about clients.        *)
FairSpec == Spec /\ \A t \in Threads : WF_vars(Resume(t))

-----------------------------------------------------------------------------
(* Properties. *)

(* The variables have the types of the code's members. *)
TypeOK == /\ registered \subseteq MemIds
          /\ blocks \in [MemIds -> Block]
          /\ data \in [MemIds -> Data]
          /\ IsABag(held) /\ Held \subseteq Locks
          /\ waiting \subseteq Calls

ReadersOf(b) == Copies({l \in Held : l.blk = b /\ l.mode = "read_only"})
WritersOf(b) == Copies({l \in Held : l.blk = b /\ l.mode \in WriteModes})

(* read_count and write_count, which no client can see, always equal the   *)
(* number of locks that clients really hold, one thread's repeated locks   *)
(* on one block included: no path of lock, unlock, remove_address or a     *)
(* re-registration of the address loses or invents one.                    *)
CountsMatchLocks ==
    \A b \in MemIds : /\ blocks[b].read_count = Cardinality(ReadersOf(b))
                      /\ blocks[b].write_count = Cardinality(WritersOf(b))

(* While a client holds a write lock on a block nobody holds another lock  *)
(* on it, in whatever memory, and not even the client itself; and a locked *)
(* block stays registered.                                                 *)
Exclusion ==
    /\ \A l \in Held : l.blk \in registered /\ (l.mode # "read_only" => Times(l) = 1)
    /\ \A k, l \in Held : k.blk = l.blk /\ k # l => k.mode = "read_only" /\ l.mode = "read_only"

(* A thread inside _access_finished->wait is there because its condition   *)
(* is true now: no release is missed, even though lock, copy, fill and     *)
(* remove_address change the blocks without a broadcast.                   *)
NoLostWakeup == \A c \in waiting : ~c.woken => Busy(c)

(* The directory is right: a block with a writer is current in that memory *)
(* and readable nowhere else; one without is current in main memory and in *)
(* every reader.  No device keeps a buffer the directory has forgotten, not*)
(* even for an address that was removed: upload would trust its old bytes. *)
Coherent(b, d) ==
    /\ d.chunks \subseteq b.readers
    /\ b.readers \ {CPU} \subseteq d.chunks
    /\ b.writer = None => b.readers \cup {CPU} \subseteq d.current
    /\ b.writer # None => b.readers = {b.writer} /\ b.writer \in d.current

DirectoryIsCoherent ==
    \A b \in MemIds : /\ Coherent(blocks[b], data[b])
                      /\ b \notin registered => blocks[b] = NewBlock

(* What a lock promises its holder: the memory it was granted in holds the *)
(* block's current content for as long as the lock is held.                *)
HoldersSeeCurrent == \A l \in Held : l.mem \in data[l.blk].current

(* No block's content was ever copied out of stale bytes, or out of a block*)
(* that a write lock was out on ("Wait until no one writes on our src      *)
(* memory block").                                                         *)
NoTornCopies == \A b \in MemIds : ~data[b].torn

(* Clients that ask for a block below one they hold may wait for each other*)
(* in a circle, and one that asks to write a block it holds waits for      *)
(* itself.  In a state where no pending call does, some thread is awake,   *)
(* whatever happened before: there are no other deadlocks.                 *)
Ascending(c) == \A l \in Held : l.thr = c.thr => l.blk < c.src /\ l.blk < c.blk

SomebodyIsAwake ==
    (\A c \in waiting : Ascending(c)) => \E t \in Threads : \A c \in waiting : c.thr = t => c.woken

(* The counters, the wait loops and the directory implement plain locks.   *)
IsRead(l) == l.mode = "read_only"
Access == INSTANCE AccessLock WITH Reads <- IsRead
ImplementsAccessLock == Access!Spec

(* No waiter is left behind: it is not possible that from some time on all *)
(* threads sleep, or that a call could go ahead and still never returns,   *)
(* while nothing but the waiter itself has to act.                         *)
NobodyLeftBehind ==
    \A t \in Threads : []<>(SomebodyIsAwake /\ ~ \E c \in waiting : c.thr = t /\ ~Busy(c))

=============================================================================
