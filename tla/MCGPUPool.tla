----------------------------- MODULE MCGPUPool -----------------------------
(* An instance of GPUPool for TLC. *)
EXTENDS GPUPool, TLC

CONSTANTS c1, c2, t1, t2, s1, s2

\* One client on its own, which may restart the pool, or two at a time.
AloneOrTogether == {{c1}, {c1, c2}}

SynchTasks == (<<c1, 1>> :> s1) @@ (<<c1, 2>> :> s2)
=============================================================================
