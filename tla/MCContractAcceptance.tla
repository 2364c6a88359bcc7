------------------------ MODULE MCContractAcceptance ------------------------
(* ContractAcceptance on small instances. *)
EXTENDS ContractAcceptance, TLC

CONSTANTS c1, c2, first, second

\* Clients are interchangeable; so are contents where all of them, or none,
\* are judged by the user.
Symmetry == Permutations(Clients)

\* Bound: two handlers overlap only when both patch or confirm, before the
\* deadline and with no verification requested; a handler that moves the
\* contract overlaps with the daemon and the attempts alone.
FewOverlaps ==
    \A c, d \in Clients : c # d /\ rpc[c] # NoCall /\ rpc[d] # NoCall =>
        /\ {rpc[c].op, rpc[d].op} \cap {"move", "verify"} = {}
        /\ ~overdue /\ ~requested
=============================================================================
