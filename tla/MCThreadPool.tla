---------------------------- MODULE MCThreadPool ----------------------------
EXTENDS ThreadPool, TLC

CONSTANTS c1, c2, t1, t2, t3

\* t1 may run anywhere, t2 on the first worker only, t3 on all others.
OnCores == [t \in Tasks |-> CASE t = t1 -> Workers [] t = t2 -> {1} [] t = t3 -> Workers \ {1}]
=============================================================================
