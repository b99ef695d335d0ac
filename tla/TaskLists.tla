------------------------------ MODULE TaskLists -----------------------------
(***************************************************************************)
(* Enqueuers, the owner of a list and thieves call the operations of one   *)
(* concurrent list: a CASDeque or a ConcurrentDeque.  Both are shown to    *)
(* be linearizable: they implement Deque.                                  *)
(***************************************************************************)
EXTENDS DequeMemory

Lockfree == INSTANCE CASDeque
Locked   == INSTANCE ConcurrentDeque

(* The steps of a call once it has begun.                                  *)
Step(p) == \/ use.list = "cas" /\ Lockfree!Step(p)
           \/ use.list = "mutex" /\ Locked!Step(p)
           \/ Return(p)

Next == \E p \in Threads : CallPush(p) \/ CallPop(p) \/ Step(p)

Spec == Init /\ [][Next]_vars

(* Threads in a call go on with it.                                        *)
FairSpec == Spec /\ \A p \in Threads : WF_vars(Step(p))

-----------------------------------------------------------------------------
(* The elements from the head, by way of the successors, up to the tail:   *)
(* where one is after k hops, and all of them.                             *)
Hops[k \in 0..NumNodes] ==
    IF k = 0 THEN (IF tail.elem = Null THEN Null ELSE head.elem)
    ELSE IF Hops[k - 1] \in {Null, tail.elem} THEN Null ELSE node[Hops[k - 1]].next

Chain == LET hops == Hops
         IN  [i \in 1..Cardinality({k \in 0..NumNodes : hops[k] # Null}) |-> hops[i - 1]]

Quiet == lock["head"] = Nobody /\ lock["tail"] = Nobody

(* A call has taken effect: a push with the write to tail.elem, a pop with *)
(* its first write, or when it has seen both ends empty.                   *)
Done(p) == LET at == thread[p].at  o == thread[p].op
           IN  \/ at \in {"unlock", "done"}
               \/ o = "push_back" /\ thread[p].case = "more" /\ at \in {"load", "write3"}
               \/ o # "push_back" /\ at \in {"write2", "load", "write3"}
               \/ o # "push_back" /\ at = "zero"

(* When nobody has an end, the list is what its users take it for: it ends *)
(* at the tail, and the members that CASDeque keeps at the ends for the    *)
(* unlocked looks, and the way back that pop_back takes, agree with the    *)
(* way forward.                                                            *)
QuietListIsLinked ==
    LET chain == Chain
        n == Len(chain)
        At(i) == IF i \in 1..n THEN chain[i] ELSE Null
    IN  Quiet => /\ head.elem = At(1) /\ tail.elem = At(n)
                 /\ n > 0 => node[At(n)].next = Null
                 /\ \A i \in 2..n : node[At(i)].prev = At(i - 1)
                 /\ use.list = "cas" => head.next = At(2) /\ tail.prev = At(n - 1)

(* Every allocated element is in the list or with one thread, that adds it *)
(* or has taken it: none is leaked, deleted twice, or deleted while it is  *)
(* reachable from an end.                                                  *)
ElementsHaveOneOwner ==
    LET chain == Chain
        List == {chain[i] : i \in 1..Len(chain)}
        With(p) == IF thread[p].op = "push_back" /\ Done(p) THEN {} ELSE {thread[p].node} \ {Null}
    IN  /\ heap = List \cup UNION {With(p) : p \in Threads}
        /\ {head.elem, tail.elem} \subseteq heap \cup {Null}
        /\ \A p, q \in Threads : /\ With(p) \cap List = {}
                                 /\ p # q => With(p) \cap With(q) = {}

-----------------------------------------------------------------------------
(* What a user sees of the list and of the calls.                          *)
Contents == LET chain == Chain IN [i \in 1..Len(chain) |-> node[chain[i]].data]

CallsSeen == [p \in Threads |-> [op |-> thread[p].op, task |-> thread[p].task, done |-> Done(p)]]

Abstract == INSTANCE Deque WITH contents <- Contents, call <- CallsSeen

(* Whatever the interleaving, both lists behave like one whose operations  *)
(* are atomic.                                                             *)
ImplementsDeque == Abstract!Spec

(* Liveness: a call returns; neither the mutexes nor the retries of the    *)
(* compare-and-swap keep a thread for ever.                                *)
EveryCallReturns == \A p \in Threads : Busy(p) ~> ~Busy(p)
=============================================================================
