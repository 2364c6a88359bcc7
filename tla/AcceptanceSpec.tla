--------------------------- MODULE AcceptanceSpec ---------------------------
(***************************************************************************)
(* The structured acceptance of a contract: machine and user criteria under *)
(* all / any, and the verdict composed from the outcomes of the checks.     *)
(*                                                                          *)
(* A specification is two combinators deep, the deepest the repository's    *)
(* documents and tests write; "one" stands for a criterion or a group that  *)
(* no combinator wraps.  Lists are sets: neither order nor repetition of    *)
(* the children changes an outcome.                                         *)
(***************************************************************************)

CONSTANTS
    Checks,          \* identities "<kind>:<target>" of machine criteria
    User             \* the user criterion

ASSUME UserAssumption == User \notin Checks

Leaves == Checks \cup {User}
Combinators == {"one", "all", "any"}

(* What the validation of a specification accepts: no combinator is empty. *)
Groups ==
    {g \in [comb : Combinators, leaves : SUBSET Leaves] :
        /\ g.leaves # {}
        /\ g.comb = "one" => \E l \in Leaves : g.leaves = {l}}

Specs ==
    {s \in [comb : Combinators, groups : SUBSET Groups] :
        /\ s.groups # {}
        /\ s.comb = "one" => \E g \in Groups : s.groups = {g}}

(* A criterion nobody has an outcome for is pending; a user criterion always *)
(* is, whatever the verifier reported.                                       *)
LeafOutcome(leaf, results) ==
    IF leaf \in DOMAIN results /\ leaf # User THEN results[leaf] ELSE "pending"

\* Mutant: one pending member of "any" is outweighed by a failed one.
ComposeAnyFails(comb, outcomes) ==
    CASE comb = "one" -> CHOOSE o \in outcomes : TRUE
      [] comb = "all" -> IF "fail" \in outcomes THEN "fail"
                         ELSE IF "pending" \in outcomes THEN "pending" ELSE "pass"
      [] comb = "any" -> IF "pass" \in outcomes THEN "pass"
                         ELSE IF "fail" \in outcomes THEN "fail" ELSE "pending"

(* The outcome of a combinator.  An outcome that is none of the three it     *)
(* knows counts as passed under "all" and as failed under "any".             *)
Compose(comb, outcomes) ==
    CASE comb = "one" -> CHOOSE o \in outcomes : TRUE
      [] comb = "all" -> IF "fail" \in outcomes THEN "fail"
                         ELSE IF "pending" \in outcomes THEN "pending" ELSE "pass"
      [] comb = "any" -> IF "pass" \in outcomes THEN "pass"
                         ELSE IF "pending" \in outcomes THEN "pending" ELSE "fail"

GroupOutcome(group, results) ==
    Compose(group.comb, {LeafOutcome(leaf, results) : leaf \in group.leaves})

SpecOutcome(spec, results) ==
    Compose(spec.comb, {GroupOutcome(group, results) : group \in spec.groups})

(* What the specification means, with no third value: whether it holds when  *)
(* exactly the criteria in "met" are met.                                    *)
GroupHolds(group, met) ==
    IF group.comb = "any" THEN group.leaves \cap met # {} ELSE group.leaves \subseteq met

SpecHolds(spec, met) ==
    IF spec.comb = "any" THEN \E g \in spec.groups : GroupHolds(g, met)
                         ELSE \A g \in spec.groups : GroupHolds(g, met)
=============================================================================
