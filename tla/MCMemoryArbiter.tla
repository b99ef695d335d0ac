-------------------------- MODULE MCMemoryArbiter --------------------------
(* Instances of MemoryArbiter for TLC. *)
EXTENDS MemoryArbiter, TLC

(* Threads and device memories are interchangeable; addresses are not.     *)
Symmetry == Permutations(Threads) \cup Permutations(Remote)
=============================================================================
