----------------------------- MODULE AccessLock -----------------------------
(***************************************************************************)
(* What the memory arbiter promises the code that calls lock and unlock:   *)
(* on every registered block any number of read locks or one write lock,   *)
(* no matter in which memory each holder works.  Nothing is said here of   *)
(* counters, directories, buffers or waiting.                              *)
(***************************************************************************)
EXTENDS Bags

CONSTANTS
    MemIds,   \* keys of memory blocks
    Locks,    \* what can be granted: records with at least a block, blk
    Reads(_)  \* is this lock a read lock?

VARIABLES
    registered,  \* blocks that exist
    held         \* a bag: how often each lock is granted

Init == registered = {} /\ held = EmptyBag

Held == BagToSet(held)

Compatible(k, l) == k.blk = l.blk => Reads(k) /\ Reads(l)

(* A write lock is not compatible with itself; a read lock is, and its     *)
(* holder may be granted it again.                                         *)
Grant(l) == /\ l.blk \in registered
            /\ \A k \in Held : Compatible(k, l)
            /\ held' = held (+) SetToBag({l})
            /\ UNCHANGED registered

Release(l) == /\ l \in Held
              /\ held' = held (-) SetToBag({l})
              /\ UNCHANGED registered

Register(b) == registered' = registered \cup {b} /\ UNCHANGED held

Remove(b) == /\ \A l \in Held : l.blk # b
             /\ registered' = registered \ {b}
             /\ UNCHANGED held

Next == \/ \E l \in Locks : Grant(l) \/ Release(l)
        \/ \E b \in MemIds : Register(b) \/ Remove(b)

Spec == Init /\ [][Next]_<<registered, held>>
=============================================================================
