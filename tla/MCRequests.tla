----------------------------- MODULE MCRequests -----------------------------
(* Requests on a small instance.                                            *)
EXTENDS Requests, TLC

(* Many openings with few commands, or few openings with many commands.     *)
Bound == openings <= 2 \/ sends <= 2

Symmetry == Permutations(Processes)
=============================================================================
