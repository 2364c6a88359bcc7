---------------------------- MODULE AttemptAxis ----------------------------
(***************************************************************************)
(* The attempt axis: what the life of one attempts row promises to every   *)
(* reader of the table (dispatch budget, capacity count, reconcile, the    *)
(* verifier's guards).  A row is admitted once, moves along the legal      *)
(* transitions of the attempt state machine, and a terminal row, orphaned  *)
(* included, never moves again.                                            *)
(*                                                                         *)
(* The runner and the reconciler write rows without asking this table, so  *)
(* that they follow it is the refinement that AttemptLifecycle checks.     *)
(***************************************************************************)
CONSTANT Attempts        \* attempt identifiers

VARIABLE row             \* row[a]: the state column of a's row, or "absent"

RowStates == {"absent", "admitted", "starting", "running", "waiting",
              "succeeded", "failed", "cancelled", "stale", "orphaned"}

Terminal == {"succeeded", "failed", "cancelled", "stale", "orphaned"}
Unsuccessful == Terminal \ {"succeeded"}

(* A row is inserted as "admitted"; a reader that looks at it after the     *)
(* spawn only finds it "running" already.                                   *)
LegalTransitions ==
    [s \in RowStates |->
        CASE s = "absent"   -> {"admitted", "running"}
          [] s = "admitted" -> {"starting", "running"} \union Unsuccessful
          [] s = "starting" -> {"running"} \union Unsuccessful
          [] s = "running"  -> {"waiting"} \union Terminal
          [] s = "waiting"  -> {"running"} \union Terminal
          [] OTHER          -> {}]

Init == row = [a \in Attempts |-> "absent"]

Move(a, s) ==
    /\ s \in LegalTransitions[row[a]]
    /\ row' = [row EXCEPT ![a] = s]

Next == \E a \in Attempts : \E s \in RowStates : Move(a, s)

Spec == Init /\ [][Next]_row
=============================================================================
