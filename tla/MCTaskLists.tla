----------------------------- MODULE MCTaskLists ----------------------------
(* Instances of TaskLists for TLC. *)
EXTENDS TaskLists, TLC

CONSTANTS p1, p2, p3

Of(l, a, b, c) == [list |-> l, may |-> p1 :> a @@ p2 :> b @@ p3 :> c]

All == Operations
Queue == {"push_back", "pop_front"}

(* A list behind mutexes in any use; a CASDeque in any use by two threads, *)
(* or as a queue, as the pool's shared list is used: several clients push  *)
(* and several workers pop at the front.                                   *)
Proper == {Of("mutex", All, All, All), Of("cas", All, All, {}),
           Of("cas", Queue, {"push_back"}, {"pop_front"}),
           Of("cas", Queue, {"pop_front"}, {"pop_front"})}

(* A worker's own list: an enqueuer, the worker and a thief.               *)
Stealing == {Of("cas", {"push_back"}, {"pop_front"}, {"pop_back"})}
=============================================================================
