---------------------------- MODULE MCLeaseStore ----------------------------
(* LeaseStore for TLC. *)
EXTENDS LeaseStore, TLC

Symmetry == Permutations(Attempts) \cup Permutations(Schedulers)
=============================================================================
