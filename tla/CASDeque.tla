------------------------------ MODULE CASDeque ------------------------------
(***************************************************************************)
(* The list without mutexes (honei/backends/multicore/cas_deque-impl.hh).  *)
(* A call looks at the ends without any flag to guess how many elements    *)
(* there are, takes by compare-and-swap the flags this case asks for, tail *)
(* first, looks again, and starts over if a flag is taken or the guess was *)
(* wrong.                                                                   *)
(*                                                                         *)
(* Each access to a member that another thread may read or write at that   *)
(* time is a step of its own, in the order of the program.  An end is      *)
(* written by the owner of its flag only, who reads it in the step that    *)
(* needs the value; with both flags nobody else can get at an element, and *)
(* a call writes elements together with its next write to an end.          *)
(***************************************************************************)
EXTENDS DequeMemory

At(p, o, c, at) == thread[p].op = o /\ thread[p].case = c /\ thread[p].at = at

Compare(p, x, y, same, other) ==
    /\ thread' = [thread EXCEPT ![p].at = IF x = y THEN same ELSE other, ![p].reg = Null]
    /\ UNCHANGED <<use, memory, calls>>

Read(p, x, at) ==
    /\ thread' = [thread EXCEPT ![p].at = at, ![p].reg = x]
    /\ UNCHANGED <<use, memory, calls>>

(* The guess.  The operands of == and && are read from left to right.      *)
Guess(p) ==
    LET at == thread[p].at
        r  == thread[p].reg
        severalOf == IF thread[p].op = "push_back" THEN "more?" ELSE "two?"
    IN  \/ at = "called" /\ Compare(p, head.elem, Null, "zero?", "one?")
        \/ at = "zero?"  /\ Compare(p, tail.elem, Null, "zero", "one?")
        \/ at = "one?"   /\ Compare(p, head.next, Null, "one??", severalOf)
        \/ at = "one??"  /\ Compare(p, tail.prev, Null, "one", severalOf)
        \/ at = "more?"  /\ Compare(p, tail.prev, Null, "called", "more??")
        \/ at = "more??" /\ Compare(p, head.next, Null, "called", "more")
        \/ at = "two?"   /\ Read(p, head.next, "two??")
        \/ at = "two??"  /\ Compare(p, tail.elem, r, "two???", "three?")
        \/ at = "two???" /\ Read(p, tail.prev, "two????")
        \/ at = "two????" /\ Compare(p, head.elem, r, "two", "three?")
        \/ at = "three?" /\ Read(p, head.next, "three??")
        \/ at = "three??" /\ Compare(p, tail.prev, r, "three", "more")

(* pop_front of more than three looks at the tail before it asks for the   *)
(* head, and never takes the tail.                                         *)
GuessAgain(p) ==
    /\ thread[p].op = "pop_front"
    /\ \/ thread[p].at = "more"  /\ Compare(p, tail.elem, Null, "called", "more!")
       \/ thread[p].at = "more!" /\ Compare(p, tail.prev, Null, "called", "more!!")
       \/ /\ thread[p].at = "more!!"
          /\ thread' = [thread EXCEPT ![p].at = "head", ![p].case = "more"]
          /\ UNCHANGED <<use, memory, calls>>

(* A pop of an empty list is over: "or should we check???"                 *)
FindNothing(p) == /\ thread[p].op # "push_back"
                  /\ thread[p].at = "zero"
                  /\ Goes(p, "done")
                  /\ UNCHANGED <<use, memory, calls>>

-----------------------------------------------------------------------------
TailFits(c) == CASE c = "zero"  -> tail.elem = Null
                 [] c = "one"   -> tail.elem # Null /\ tail.prev = Null
                 [] c = "two"   -> tail.elem # Null
                 [] c = "three" -> tail.prev # Null
                 [] c = "more"  -> tail.elem # Null /\ tail.prev # Null

(* tailCAS() and the look at the tail.                                     *)
TakeTail(p) ==
    LET c == thread[p].at
    IN  /\ \/ c \in {"one", "two", "three"}
           \/ c = "zero" /\ thread[p].op = "push_back"
           \/ c = "more" /\ thread[p].op # "pop_front"
        /\ IF lock["tail"] # Nobody THEN Goes(p, "called") /\ UNCHANGED lock
           ELSE /\ lock' = [lock EXCEPT !["tail"] = p]
                /\ thread' = [thread EXCEPT ![p].case = c,
                                ![p].at = IF ~TailFits(c) THEN "retreat"
                                          ELSE IF c = "more" THEN "check" ELSE "head"]
        /\ UNCHANGED <<use, head, tail, node, heap, calls>>

\* Mutant: no second look at the head for two elements.
HeadFitsBlindly(c) == CASE c = "zero"  -> head.elem = Null
                        [] c = "one"   -> head.elem = tail.elem /\ head.next = Null
                        [] c = "two"   -> TRUE
                        [] c = "three" -> head.next = tail.prev
                        [] c = "more"  -> head.elem # Null

HeadFits(c) == CASE c = "zero"  -> head.elem = Null
                 [] c = "one"   -> head.elem = tail.elem /\ head.next = Null
                 [] c = "two"   -> head.elem = tail.prev /\ head.next = tail.elem
                 [] c = "three" -> head.next = tail.prev
                 [] c = "more"  -> head.elem # Null

(* headCAS() and the look at the head.                                     *)
TakeHead(p) ==
    LET c == thread[p].case
    IN  /\ thread[p].at = "head"
        /\ IF lock["head"] # Nobody
           THEN Goes(p, IF c = "more" THEN "called" ELSE "retreat") /\ UNCHANGED lock
           ELSE /\ lock' = [lock EXCEPT !["head"] = p]
                /\ Goes(p, IF ~HeadFits(c) THEN "retreat"
                           ELSE IF c = "more" THEN "check" ELSE "write")
        /\ UNCHANGED <<use, head, tail, node, heap, calls>>

(* With more elements a call owns one end, and compares it with the other. *)
Check(p) ==
    \/ At(p, "push_back", "more", "check")   /\ Compare(p, head.elem, Null, "retreat", "check2")
    \/ At(p, "push_back", "more", "check2")  /\ Compare(p, head.elem, tail.elem, "retreat", "check3")
    \/ At(p, "push_back", "more", "check3")  /\ Compare(p, head.next, Null, "retreat", "write")
    \/ At(p, "pop_front", "more", "check")   /\ Compare(p, head.next, tail.elem, "retreat", "check2")
    \/ At(p, "pop_front", "more", "check2")  /\ Compare(p, head.next, tail.prev, "retreat", "fetch")
    \/ At(p, "pop_back", "more", "check")    /\ Compare(p, head.elem, Null, "retreat", "check2")
    \/ At(p, "pop_back", "more", "check2")   /\ Compare(p, head.next, tail.elem, "retreat", "check3")
    \/ At(p, "pop_back", "more", "check3")   /\ Compare(p, head.next, tail.prev, "retreat", "fetch")

-----------------------------------------------------------------------------
PushWrites(p) ==
    LET e == thread[p].node
        last == tail.elem
    IN  \/ /\ At(p, "push_back", "zero", "write")
           /\ Put(p, [elem |-> e, next |-> Null], [tail EXCEPT !.prev = Null], node, "write2")
        \/ /\ At(p, "push_back", "zero", "write2")
           /\ Put(p, head, [tail EXCEPT !.elem = e], node, "unlock")
        \/ /\ At(p, "push_back", "one", "write")
           /\ Put(p, [head EXCEPT !.next = e], tail,
                     [node EXCEPT ![e].prev = last, ![head.elem].next = e], "write2")
        \/ /\ At(p, "push_back", "one", "write2")
           /\ Put(p, head, [tail EXCEPT !.prev = head.elem], node, "write3")
        \/ /\ At(p, "push_back", "one", "write3")
           /\ Put(p, head, [tail EXCEPT !.elem = e], node, "unlock")
        \/ /\ At(p, "push_back", "more", "write")
           /\ Put(p, head, tail, [node EXCEPT ![last].next = e], "link")
        \/ /\ At(p, "push_back", "more", "link")
           /\ Put(p, head, tail, [node EXCEPT ![e].prev = last], "write2")
        \/ /\ At(p, "push_back", "more", "write2")
           /\ Put(p, head, [tail EXCEPT !.elem = e], node, "load")
        \/ At(p, "push_back", "more", "load") /\ Read(p, node[e].prev, "write3")
        \/ /\ At(p, "push_back", "more", "write3")
           /\ Put(p, head, [tail EXCEPT !.prev = thread[p].reg], node, "unlock")

PopFrontWrites(p) ==
    LET first == head.elem
    IN  \/ /\ At(p, "pop_front", "one", "write")
           /\ PutTaking(p, [head EXCEPT !.elem = Null], tail, node, "write2", first)
        \/ /\ At(p, "pop_front", "one", "write2")
           /\ Put(p, head, [tail EXCEPT !.elem = Null], node, "unlock")
        \/ /\ At(p, "pop_front", "two", "write")
           /\ PutTaking(p, [head EXCEPT !.elem = tail.elem], tail, node, "write2", first)
        \/ /\ At(p, "pop_front", "two", "write2")
           /\ Put(p, [head EXCEPT !.next = Null], tail,
                     [node EXCEPT ![first].next = Null, ![tail.elem].prev = Null], "write3")
        \/ /\ At(p, "pop_front", "two", "write3")
           /\ Put(p, head, [tail EXCEPT !.prev = Null], node, "unlock")
        \/ /\ At(p, "pop_front", "three", "write")
           /\ PutTaking(p, [head EXCEPT !.elem = head.next], tail, node, "write2", first)
        \/ At(p, "pop_front", "more", "fetch") /\ Read(p, node[first].next, "write")
        \/ /\ At(p, "pop_front", "more", "write")
           /\ PutTaking(p, [head EXCEPT !.elem = thread[p].reg], tail, node, "write2", first)
        \/ /\ \E c \in {"three", "more"} : At(p, "pop_front", c, "write2")
           /\ Put(p, head, tail, [node EXCEPT ![first].prev = Null], "load")
        \/ /\ \E c \in {"three", "more"} : At(p, "pop_front", c, "load")
           /\ Read(p, node[first].next, "write3")
        \/ /\ \E c \in {"three", "more"} : At(p, "pop_front", c, "write3")
           /\ Put(p, [head EXCEPT !.next = thread[p].reg], tail, node, "unlock")

PopBackWrites(p) ==
    LET last == tail.elem
    IN  \/ /\ At(p, "pop_back", "one", "write")
           /\ PutTaking(p, [head EXCEPT !.elem = Null], tail, node, "write2", head.elem)
        \/ /\ At(p, "pop_back", "one", "write2")
           /\ Put(p, head, [tail EXCEPT !.elem = Null], node, "unlock")
        \/ /\ At(p, "pop_back", "two", "write")
           /\ PutTaking(p, head, [tail EXCEPT !.elem = head.elem], node, "write2", last)
        \/ /\ At(p, "pop_back", "two", "write2")
           /\ Put(p, [head EXCEPT !.next = Null], tail,
                     [node EXCEPT ![last].prev = Null, ![head.elem].next = Null], "write3")
        \/ /\ At(p, "pop_back", "two", "write3")
           /\ Put(p, head, [tail EXCEPT !.prev = Null], node, "unlock")
        \/ /\ At(p, "pop_back", "three", "write")
           /\ PutTaking(p, head, [tail EXCEPT !.elem = tail.prev], node, "write2", last)
        \/ At(p, "pop_back", "more", "fetch") /\ Read(p, node[last].prev, "write")
        \/ /\ At(p, "pop_back", "more", "write")
           /\ PutTaking(p, head, [tail EXCEPT !.elem = thread[p].reg], node, "write2", last)
        \/ /\ \E c \in {"three", "more"} : At(p, "pop_back", c, "write2")
           /\ Put(p, head, tail, [node EXCEPT ![last].next = Null], "load")
        \/ /\ \E c \in {"three", "more"} : At(p, "pop_back", c, "load")
           /\ Read(p, node[last].prev, "write3")
        \/ /\ \E c \in {"three", "more"} : At(p, "pop_back", c, "write3")
           /\ Put(p, head, [tail EXCEPT !.prev = thread[p].reg], node, "unlock")

-----------------------------------------------------------------------------
(* The flags are cleared head first; a call that retreats starts over.     *)
Release(p) ==
    LET end == IF lock["head"] = p THEN "head" ELSE "tail"
        held == {d \in {"head", "tail"} : lock[d] = p}
    IN  /\ thread[p].at \in {"unlock", "retreat"}
        /\ Unlock(p, end)
        /\ thread' = IF held # {end} THEN thread
                     ELSE [thread EXCEPT ![p].case = "none",
                             ![p].at = IF thread[p].at = "unlock" THEN "done" ELSE "called"]
        /\ UNCHANGED <<use, head, tail, node, heap, calls>>

Step(p) == \/ Guess(p) \/ GuessAgain(p) \/ FindNothing(p)
           \/ TakeTail(p) \/ TakeHead(p) \/ Check(p)
           \/ PushWrites(p) \/ PopFrontWrites(p) \/ PopBackWrites(p)
           \/ Release(p)
=============================================================================
