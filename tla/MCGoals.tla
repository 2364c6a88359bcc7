------------------------------ MODULE MCGoals -------------------------------
EXTENDS Goals, TLC

CONSTANTS read, write

(* One action, another one, everything, and a grant switched off. *)
MCGrants ==
    { [enabled |-> TRUE, actions |-> {read}, wildcard |-> FALSE],
      [enabled |-> TRUE, actions |-> {write}, wildcard |-> FALSE],
      [enabled |-> TRUE, actions |-> {}, wildcard |-> TRUE],
      [enabled |-> FALSE, actions |-> {read}, wildcard |-> FALSE] }

MCScopes == {{read}}

MCActions == {read, write}

(* The stages: both of them and both contracts, while it is enough that a   *)
(* grant promotes everything or nothing.                                    *)
AboutStages ==
    /\ goal.grant.wildcard \/ ~goal.grant.enabled
    /\ op["client"].step \notin {"check", "record"}
    /\ \A c \in Contracts : approval[c] = NoApproval /\ claim[c] = {}

(* The grant: one stage and one contract under way, with every grant, claim *)
(* and plan.                                                                *)
AboutTheGrant ==
    /\ goal.completed = {}
    /\ \A s \in Stages : s > 1 => goal.bound[s] = None
    /\ \E c \in Contracts : state[c] # "complete" /\ \A d \in Contracts \ {c} : state[d] = "free"

Bound == AboutStages \/ AboutTheGrant

(* Of the two updates the first is about the grant, the second any.         *)
FirstUpdate == updates = 0 /\ updates' = 1 => AboutTheGrant'

Symmetry == Permutations(Contracts)
=============================================================================
