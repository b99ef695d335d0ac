------------------------------ MODULE Executor ------------------------------
(***************************************************************************)
(* What a pool promises its clients, whatever its task lists look like:    *)
(* a task that was enqueued is taken once, its functor ends once, then its *)
(* ticket is marked, and a wait for the ticket returns only after that.    *)
(* Neither task lists, nor threads, nor wake-ups.                          *)
(***************************************************************************)
CONSTANTS Tasks, Faulty

VARIABLES
    status,     \* how far each task is
    awaited     \* the tasks whose client has come back from wait()

vars == <<status, awaited>>

States == {"new", "queued", "running", "executed", "done", "lost"}

TypeOK == /\ status \in [Tasks -> States]
          /\ awaited \subseteq Tasks

Init == /\ status = [t \in Tasks |-> "new"]
        /\ awaited = {}

Move(t, from, to) == /\ status[t] = from
                     /\ status' = [status EXCEPT ![t] = to]
                     /\ UNCHANGED awaited

Enqueue(t) == Move(t, "new", "queued")
Take(t)    == Move(t, "queued", "running")
Finish(t)  == t \notin Faulty /\ Move(t, "running", "executed")
Throw(t)   == t \in Faulty /\ Move(t, "running", "lost")
Mark(t)    == Move(t, "executed", "done")

Return(t) == /\ status[t] = "done"
             /\ awaited' = awaited \cup {t}
             /\ UNCHANGED status

Next == \E t \in Tasks : \/ Enqueue(t) \/ Take(t) \/ Finish(t)
                         \/ Throw(t)   \/ Mark(t) \/ Return(t)

Spec == Init /\ [][Next]_vars
=============================================================================
