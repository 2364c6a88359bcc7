--------------------------- MODULE MCDaemonProcess ---------------------------
(* DaemonProcess on a small instance. *)
EXTENDS DaemonProcess, TLC

Symmetry == Permutations(Calls) \cup Permutations(Daemons)
=============================================================================
