--------------------------- MODULE MCWorkStealing ---------------------------
EXTENDS WorkStealing

CONSTANTS c1, c2, t1, t2, t3, t4
=============================================================================
