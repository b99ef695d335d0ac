---------------------------- MODULE MCSPEKernel ----------------------------
(* Instances of SPEKernel for TLC. *)
EXTENDS SPEKernel, TLC

CONSTANTS c1, c2, i1, i2, i3, i4, k1, k2, k3

\* Two opcodes, that of i1, i2 and i3 and that of i4, on kernels that know
\* one of them or both.
Opcodes == (k1 :> {i1, i2, i3}) @@ (k2 :> {i4}) @@ (k3 :> Instrs)

Queues == {<<i1, i2>>, <<i1, i2, i3>>}
=============================================================================
