-------------------------------- MODULE Deque -------------------------------
(***************************************************************************)
(* What a concurrent task list promises: push_back, pop_front and pop_back *)
(* each take effect at once, some time between the call and the return,    *)
(* and a pop finds nothing (retval(0)) only if the list is empty then.     *)
(***************************************************************************)
EXTENDS Naturals, Sequences

CONSTANTS Threads, Tasks, NoTask

VARIABLES
    contents,  \* the tasks in the list, front first
    call       \* per thread: the call it is in, its argument or its result

vars == <<contents, call>>

Operations == {"push_back", "pop_front", "pop_back"}

Idle == [op |-> "none", task |-> NoTask, done |-> FALSE]

Init == /\ contents \in Seq(Tasks)
        /\ call = [p \in Threads |-> Idle]

Call(p) ==
    /\ call[p] = Idle
    /\ \E o \in Operations, t \in Tasks \cup {NoTask} :
         /\ t = NoTask <=> o # "push_back"
         /\ call' = [call EXCEPT ![p] = [op |-> o, task |-> t, done |-> FALSE]]
    /\ UNCHANGED contents

Answer(p, t) == call' = [call EXCEPT ![p].task = t, ![p].done = TRUE]

Push(p) == /\ contents' = Append(contents, call[p].task)
           /\ Answer(p, call[p].task)

PopFront(p) == /\ contents # <<>>
               /\ contents' = Tail(contents)
               /\ Answer(p, Head(contents))

PopBack(p) == LET n == Len(contents)
              IN  /\ n > 0
                  /\ contents' = SubSeq(contents, 1, n - 1)
                  /\ Answer(p, contents[n])

FindNothing(p) == /\ contents = <<>>
                  /\ Answer(p, NoTask)
                  /\ UNCHANGED contents

Effect(p) ==
    /\ ~call[p].done
    /\ \/ call[p].op = "push_back" /\ Push(p)
       \/ call[p].op = "pop_front" /\ (PopFront(p) \/ FindNothing(p))
       \/ call[p].op = "pop_back"  /\ (PopBack(p) \/ FindNothing(p))

Return(p) == /\ call[p].done
             /\ call' = [call EXCEPT ![p] = Idle]
             /\ UNCHANGED contents

Next == \E p \in Threads : Call(p) \/ Effect(p) \/ Return(p)

Spec == Init /\ [][Next]_vars
=============================================================================
