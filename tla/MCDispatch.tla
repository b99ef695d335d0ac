----------------------------- MODULE MCDispatch -----------------------------
EXTENDS Dispatch, TLC

CONSTANTS c1

\* Four units, numbered socket by socket.
Blocked == (0 :> 0) @@ (1 :> 0) @@ (2 :> 1) @@ (3 :> 1)
=============================================================================
