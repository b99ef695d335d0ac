-------------------------- MODULE ConcurrentDeque ---------------------------
(***************************************************************************)
(* The list with a mutex per end                                           *)
(* (honei/backends/multicore/concurrent_deque-impl.hh).  Every call takes  *)
(* both, _front first, and looks how many elements there are.  With few of *)
(* them it does its work under both mutexes, in one step: no call accesses *)
(* an end or an element without a mutex.  With more it gives one mutex     *)
(* back first, and each of its accesses is a step.                         *)
(***************************************************************************)
EXTENDS DequeMemory

Lock(p, end, from, to) ==
    /\ thread[p].at = from
    /\ lock[end] = Nobody
    /\ lock' = [lock EXCEPT ![end] = p]
    /\ Goes(p, to)
    /\ UNCHANGED <<use, head, tail, node, heap, calls>>

LockFront(p) == Lock(p, "head", "called", "back")
LockBack(p)  == Lock(p, "tail", "back", "look")

None == head.elem = Null
One  == head.elem # Null /\ node[head.elem].next = Null
Two  == head.elem # Null /\ node[head.elem].next = tail.elem /\ ~One

\* Mutant: retval is not initialised.
FindGarbage(p) ==
    /\ thread[p].at = "look" /\ thread[p].op # "push_back" /\ None
    /\ thread' = [thread EXCEPT ![p].at = "unlock", ![p].task = NumTasks + 1]
    /\ UNCHANGED <<use, memory, calls>>

(* The calls that need both mutexes to the end.                            *)
FindNothing(p) ==
    /\ thread[p].at = "look" /\ thread[p].op # "push_back" /\ None
    /\ Goes(p, "unlock")
    /\ UNCHANGED <<use, memory, calls>>

PushToNone(p) ==
    LET e == thread[p].node
    IN  /\ thread[p].at = "look" /\ thread[p].op = "push_back" /\ None
        /\ Put(p, [head EXCEPT !.elem = e], [tail EXCEPT !.elem = e], node, "unlock")

PushToOne(p) ==
    LET e == thread[p].node
    IN  /\ thread[p].at = "look" /\ thread[p].op = "push_back" /\ One
        /\ Put(p, head, [tail EXCEPT !.elem = e],
                  [node EXCEPT ![e].prev = head.elem, ![head.elem].next = e], "unlock")

\* Mutant: _tail keeps the element that is about to be deleted.
PopOneKeepsTail(p) ==
    /\ thread[p].at = "look" /\ thread[p].op # "push_back" /\ One
    /\ PutTaking(p, [head EXCEPT !.elem = Null], tail, node, "unlock", head.elem)

PopOne(p) ==
    /\ thread[p].at = "look" /\ thread[p].op # "push_back" /\ One
    /\ PutTaking(p, [head EXCEPT !.elem = Null], [tail EXCEPT !.elem = Null], node, "unlock", head.elem)

\* Mutant: the remaining element keeps its successor.
PopBackTwoKeepsNext(p) ==
    /\ thread[p].at = "look" /\ thread[p].op = "pop_back" /\ Two
    /\ PutTaking(p, head, [tail EXCEPT !.elem = head.elem], node, "unlock", tail.elem)

PopBackTwo(p) ==
    /\ thread[p].at = "look" /\ thread[p].op = "pop_back" /\ Two
    /\ PutTaking(p, head, [tail EXCEPT !.elem = head.elem],
                    [node EXCEPT ![head.elem].next = Null], "unlock", tail.elem)

(* The others give back the mutex of the other end.                        *)
GiveBack(p) ==
    /\ thread[p].at = "look" /\ ~None /\ ~One
    /\ thread[p].op = "pop_back" => ~Two
    /\ Unlock(p, IF thread[p].op = "pop_front" THEN "tail" ELSE "head")
    /\ Goes(p, "write")
    /\ UNCHANGED <<use, head, tail, node, heap, calls>>

Write(p) ==
    LET e == thread[p].node
        o == thread[p].op
        at == thread[p].at
        last == tail.elem
    IN  \/ /\ at = "write" /\ o = "push_back"
           /\ Put(p, head, tail, [node EXCEPT ![e].prev = last], "write2")
        \/ /\ at = "write2" /\ o = "push_back"
           /\ Put(p, head, tail, [node EXCEPT ![last].next = e], "write3")
        \/ /\ at = "write3" /\ o = "push_back"
           /\ Put(p, head, [tail EXCEPT !.elem = e], node, "unlock")
        \/ /\ at = "write" /\ o = "pop_front"
           /\ PutTaking(p, [head EXCEPT !.elem = node[head.elem].next], tail, node, "unlock", head.elem)
        \/ /\ at = "write" /\ o = "pop_back"
           /\ PutTaking(p, head, [tail EXCEPT !.elem = node[last].prev], node, "write2", last)
        \/ /\ at = "write2" /\ o = "pop_back"
           /\ Put(p, head, tail, [node EXCEPT ![last].next = Null], "unlock")

\* Mutant: the mutex _front is forgotten on the way out.
ReleaseBackOnly(p) ==
    /\ thread[p].at = "unlock"
    /\ IF lock["tail"] = p THEN Unlock(p, "tail") ELSE Unlock(p, "head")
    /\ Goes(p, "done")
    /\ UNCHANGED <<use, head, tail, node, heap, calls>>

(* _back is given back before _front.                                      *)
Release(p) ==
    /\ thread[p].at = "unlock"
    /\ IF lock["tail"] = p THEN Unlock(p, "tail") ELSE Unlock(p, "head")
    /\ IF lock["tail"] = p /\ lock["head"] = p THEN UNCHANGED thread ELSE Goes(p, "done")
    /\ UNCHANGED <<use, head, tail, node, heap, calls>>

Step(p) == \/ LockFront(p) \/ LockBack(p)
           \/ FindNothing(p) \/ PushToNone(p) \/ PushToOne(p) \/ PopOne(p) \/ PopBackTwo(p)
           \/ GiveBack(p) \/ Write(p) \/ Release(p)
=============================================================================
