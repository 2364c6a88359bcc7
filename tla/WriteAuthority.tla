--------------------------- MODULE WriteAuthority ---------------------------
(***************************************************************************)
(* What a work lease promises to the ledger it protects, with no mention   *)
(* of generations, heartbeats or rows: authority to write is issued in     *)
(* numbered terms, at most one term is in force, and only the term in      *)
(* force can write.                                                        *)
(***************************************************************************)
EXTENDS Naturals

VARIABLES
    issued,      \* number of terms issued so far
    current,     \* the term in force, 0 when nobody may write
    lastWriter   \* the term of the latest accepted write, 0 before the first

vars == <<issued, current, lastWriter>>

Init == issued = 0 /\ current = 0 /\ lastWriter = 0

\* A new term supersedes whatever was in force.
Grant == /\ issued' = issued + 1
         /\ current' = issued'
         /\ UNCHANGED lastWriter

Revoke == /\ current # 0
          /\ current' = 0
          /\ UNCHANGED <<issued, lastWriter>>

Write == /\ current # 0
         /\ lastWriter' = current
         /\ UNCHANGED <<issued, current>>

Next == Grant \/ Revoke \/ Write

Spec == Init /\ [][Next]_vars

=============================================================================
