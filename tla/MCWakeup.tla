------------------------------ MODULE MCWakeup ------------------------------
(* Wakeup for TLC. *)
EXTENDS Wakeup, TLC

Symmetry == Permutations(Contracts)
=============================================================================
