------------------------- MODULE VerificationProofs -------------------------
(***************************************************************************)
(* The invariants of Verification, for every pool of executors, every set   *)
(* of contracts and every report a verifier may print.                      *)
(***************************************************************************)
EXTENDS Verification, TLAPS

USE DEF Roles, Combinators

(* What the criteria of a specification come out as. *)
Values == Outcomes \cup {"pending"}
ResultsOK(results) == \A c \in DOMAIN results : results[c] \in Outcomes

(***************************************************************************)
(* Two outcomes of "all" and "any" over outcomes that are none but pass,    *)
(* fail and pending.                                                        *)
(***************************************************************************)
LEMMA ComposeIsExact ==
    ASSUME NEW comb \in Combinators, NEW outcomes, outcomes # {},
           \A o \in outcomes : o \in {"pass", "fail", "pending"},
           comb = "one" => \E o : outcomes = {o}
    PROVE  /\ Compose(comb, outcomes) = "pass" <=>
                IF comb = "any" THEN "pass" \in outcomes ELSE outcomes \subseteq {"pass"}
           /\ Compose(comb, outcomes) = "fail" <=>
                IF comb = "any" THEN outcomes \subseteq {"fail"} ELSE "fail" \in outcomes
           /\ Compose(comb, outcomes) \in {"pass", "fail", "pending"}
<1>1. CASE comb = "one"
  <2>1. PICK o : outcomes = {o}
    BY <1>1
  <2>2. (CHOOSE p \in outcomes : TRUE) = o
    BY <2>1
  <2> QED BY <1>1, <2>1, <2>2 DEF Compose
<1>2. CASE comb = "all"
  BY <1>2 DEF Compose
<1>3. CASE comb = "any"
  BY <1>3 DEF Compose
<1> QED BY <1>1, <1>2, <1>3

LEMMA ComposeIsTyped ==
    ASSUME NEW comb \in Combinators, NEW outcomes, outcomes # {}, outcomes \subseteq Values
    PROVE  Compose(comb, outcomes) \in Values
<1>1. (CHOOSE o \in outcomes : TRUE) \in Values
  OBVIOUS
<1> QED BY <1>1 DEF Compose, Values, Outcomes

LEMMA LeafIsTyped ==
    ASSUME NEW leaf, NEW results, ResultsOK(results)
    PROVE  LeafOutcome(leaf, results) \in Values
BY DEF LeafOutcome, ResultsOK, Values

LEMMA SpecIsTyped ==
    ASSUME NEW spec \in Specs, NEW results, ResultsOK(results)
    PROVE  SpecOutcome(spec, results) \in Values
<1>1. ASSUME NEW g \in spec.groups PROVE GroupOutcome(g, results) \in Values
  <2>1. g.comb \in Combinators /\ g.leaves # {}
    BY DEF Specs, Groups
  <2>2. {LeafOutcome(leaf, results) : leaf \in g.leaves} \subseteq Values
    BY LeafIsTyped
  <2>3. {LeafOutcome(leaf, results) : leaf \in g.leaves} # {}
    BY <2>1
  <2> QED BY <2>1, <2>2, <2>3, ComposeIsTyped DEF GroupOutcome
<1>2. spec.comb \in Combinators /\ spec.groups # {}
  BY DEF Specs
<1>3. {GroupOutcome(g, results) : g \in spec.groups} # {}
  BY <1>2
<1>4. {GroupOutcome(g, results) : g \in spec.groups} \subseteq Values
  BY <1>1
<1> QED BY <1>2, <1>3, <1>4, ComposeIsTyped DEF SpecOutcome

(* The criteria reported with an outcome. *)
Among(results, outcome) == {c \in DOMAIN results : results[c] = outcome}

LEMMA LeafIsExact ==
    ASSUME NEW leaf \in Leaves, NEW results, ResultsOK(results),
           DOMAIN results \subseteq Checks,
           leaf \notin Among(results, "undetermined")
    PROVE  /\ LeafOutcome(leaf, results) \in {"pass", "fail", "pending"}
           /\ LeafOutcome(leaf, results) = "pass" <=> leaf \in Among(results, "pass")
           /\ LeafOutcome(leaf, results) = "fail" <=> leaf \in Among(results, "fail")
BY UserAssumption DEF LeafOutcome, ResultsOK, Among, Outcomes

LEMMA GroupIsExact ==
    ASSUME NEW group \in Groups, NEW results, ResultsOK(results),
           DOMAIN results \subseteq Checks,
           group.leaves \cap Among(results, "undetermined") = {}
    PROVE  /\ GroupOutcome(group, results) \in {"pass", "fail", "pending"}
           /\ GroupOutcome(group, results) = "pass" <=>
                GroupHolds(group, Among(results, "pass"))
           /\ GroupOutcome(group, results) = "fail" <=>
                ~GroupHolds(group, Leaves \ Among(results, "fail"))
<1> DEFINE outs == {LeafOutcome(leaf, results) : leaf \in group.leaves}
<1>1. /\ group.comb \in Combinators /\ group.leaves # {} /\ group.leaves \subseteq Leaves
      /\ group.comb = "one" => \E l \in Leaves : group.leaves = {l}
  BY DEF Groups
<1>2. \A l \in group.leaves :
        /\ LeafOutcome(l, results) \in {"pass", "fail", "pending"}
        /\ LeafOutcome(l, results) = "pass" <=> l \in Among(results, "pass")
        /\ LeafOutcome(l, results) = "fail" <=> l \in Among(results, "fail")
  BY <1>1, LeafIsExact
<1>3. outs # {} /\ \A o \in outs : o \in {"pass", "fail", "pending"}
  BY <1>1, <1>2
<1>4. ASSUME group.comb = "one" PROVE \E o : outs = {o}
  <2>1. PICK l \in Leaves : group.leaves = {l}
    BY <1>1, <1>4
  <2>2. outs = {LeafOutcome(l, results)}
    BY <2>1
  <2> QED BY <2>2
<1>5. /\ Compose(group.comb, outs) = "pass" <=>
            IF group.comb = "any" THEN "pass" \in outs ELSE outs \subseteq {"pass"}
      /\ Compose(group.comb, outs) = "fail" <=>
            IF group.comb = "any" THEN outs \subseteq {"fail"} ELSE "fail" \in outs
      /\ Compose(group.comb, outs) \in {"pass", "fail", "pending"}
  <2> HIDE DEF outs
  <2> QED BY <1>1, <1>3, <1>4, ComposeIsExact
<1>6. /\ "pass" \in outs <=> group.leaves \cap Among(results, "pass") # {}
      /\ outs \subseteq {"pass"} <=> group.leaves \subseteq Among(results, "pass")
      /\ "fail" \in outs <=> ~(group.leaves \subseteq Leaves \ Among(results, "fail"))
      /\ outs \subseteq {"fail"} <=> group.leaves \cap (Leaves \ Among(results, "fail")) = {}
  BY <1>1, <1>2
<1> QED BY <1>5, <1>6 DEF GroupOutcome, GroupHolds

(***************************************************************************)
(* compose_verdict against the meaning of the specification, for every      *)
(* specification and every report without an undetermined criterion.        *)
(***************************************************************************)
THEOREM SpecIsExact ==
    ASSUME NEW spec \in Specs, NEW results, ResultsOK(results),
           DOMAIN results \subseteq Checks,
           \A g \in spec.groups : g.leaves \cap Among(results, "undetermined") = {}
    PROVE  /\ SpecOutcome(spec, results) \in {"pass", "fail", "pending"}
           /\ SpecOutcome(spec, results) = "pass" <=> SpecHolds(spec, Among(results, "pass"))
           /\ SpecOutcome(spec, results) = "fail" <=>
                ~SpecHolds(spec, Leaves \ Among(results, "fail"))
<1> DEFINE outs == {GroupOutcome(g, results) : g \in spec.groups}
<1>1. /\ spec.comb \in Combinators /\ spec.groups # {} /\ spec.groups \subseteq Groups
      /\ spec.comb = "one" => \E g \in Groups : spec.groups = {g}
  BY DEF Specs
<1>2. \A g \in spec.groups :
        /\ GroupOutcome(g, results) \in {"pass", "fail", "pending"}
        /\ GroupOutcome(g, results) = "pass" <=> GroupHolds(g, Among(results, "pass"))
        /\ GroupOutcome(g, results) = "fail" <=>
             ~GroupHolds(g, Leaves \ Among(results, "fail"))
  BY <1>1, GroupIsExact
<1>3. outs # {} /\ \A o \in outs : o \in {"pass", "fail", "pending"}
  BY <1>1, <1>2
<1>4. ASSUME spec.comb = "one" PROVE \E o : outs = {o}
  <2>1. PICK g \in Groups : spec.groups = {g}
    BY <1>1, <1>4
  <2>2. outs = {GroupOutcome(g, results)}
    BY <2>1
  <2> QED BY <2>2
<1>5. /\ Compose(spec.comb, outs) = "pass" <=>
            IF spec.comb = "any" THEN "pass" \in outs ELSE outs \subseteq {"pass"}
      /\ Compose(spec.comb, outs) = "fail" <=>
            IF spec.comb = "any" THEN outs \subseteq {"fail"} ELSE "fail" \in outs
      /\ Compose(spec.comb, outs) \in {"pass", "fail", "pending"}
  <2> HIDE DEF outs
  <2> QED BY <1>1, <1>3, <1>4, ComposeIsExact
<1>6. /\ "pass" \in outs <=> \E g \in spec.groups : GroupHolds(g, Among(results, "pass"))
      /\ outs \subseteq {"pass"} <=> \A g \in spec.groups : GroupHolds(g, Among(results, "pass"))
      /\ "fail" \in outs <=>
            \E g \in spec.groups : ~GroupHolds(g, Leaves \ Among(results, "fail"))
      /\ outs \subseteq {"fail"} <=>
            \A g \in spec.groups : ~GroupHolds(g, Leaves \ Among(results, "fail"))
  BY <1>2
<1> QED BY <1>5, <1>6 DEF SpecOutcome, SpecHolds
-----------------------------------------------------------------------------
(***************************************************************************)
(* The process and its reader.                                              *)
(***************************************************************************)
ReaderOK(r) ==
    r \in [event : {"succeeded", "failed", None}, block : Reports \cup {None},
          room : 0..Room, cut : BOOLEAN]

LEMMA FreshOK == ReaderOK(Fresh)
BY RoomAssumption DEF ReaderOK, Fresh

LEMMA ScanOK ==
    ASSUME NEW r, ReaderOK(r), NEW line \in Lines
    PROVE  ReaderOK(Scan(r, line))
BY RoomAssumption DEF ReaderOK, Scan, Lines

LEMMA DrainedOK ==
    ASSUME ReaderOK(reader), pipe \in Seq(Lines)
    PROVE  /\ ReaderOK(Drained)
           /\ reader.event # None => Drained.event # None
<1>1. \A i \in Claims : pipe[i].event \in {"succeeded", "failed"}
  BY NoReportAssumption DEF Claims, Lines
<1>2. \A i \in Blocks : pipe[i].block \in Reports
  BY DEF Blocks, Lines
<1>3. /\ Drained.event \in {"succeeded", "failed", None}
      /\ reader.event # None => Drained.event # None
  BY <1>1, NoReportAssumption DEF Drained, ReaderOK
<1>4. Drained.block \in Reports \cup {None}
  BY <1>2 DEF Drained, ReaderOK
<1>5. Drained.room \in 0..Room /\ Drained.cut \in BOOLEAN
  BY RoomAssumption DEF Drained, ReaderOK
<1>6. Drained = [event |-> Drained.event, block |-> Drained.block,
                 room |-> Drained.room, cut |-> Drained.cut]
  BY DEF Drained
<1> QED BY <1>3, <1>4, <1>5, <1>6 DEF ReaderOK

LEMMA ObservedOK ==
    ASSUME ReaderOK(reader) PROVE Observed \in {"succeeded", "failed", "running"}
BY DEF Observed, ReaderOK

(***************************************************************************)
(* The evidence a verification is settled with.                             *)
(***************************************************************************)
LEMMA EvaluateOK ==
    ASSUME NEW kind \in Kinds, NEW fact \in Facts
    PROVE  Evaluate(kind, fact) \in Outcomes \cup {"raises"}
BY DEF Evaluate, Kinds, Facts, Outcomes, FileKinds

LEMMA EvidenceOK ==
    ASSUME NEW checks, \A c \in DOMAIN checks : checks[c].kind \in Kinds,
           NEW met \in [DOMAIN checks -> Facts], NEW report, NEW workspace
    PROVE  /\ DOMAIN EvidenceOf(checks, met, report, workspace) \subseteq DOMAIN checks
           /\ ResultsOK(EvidenceOf(checks, met, report, workspace))
<1>1. CASE Synthesised(checks, met, workspace)
  <2>1. ASSUME NEW c \in DOMAIN checks
        PROVE  Merge(Evaluate(checks[c].kind, met[c]), Word(report, c)) \in Outcomes
    <3>1. Evaluate(checks[c].kind, met[c]) \in Outcomes
      BY <1>1, EvaluateOK DEF Synthesised, Raises
    <3> QED BY <3>1 DEF Merge, Outcomes
  <2> QED BY <1>1, <2>1 DEF EvidenceOf, ResultsOK
<1>2. CASE ~Synthesised(checks, met, workspace)
  BY <1>2 DEF EvidenceOf, ResultsOK
<1> QED BY <1>1, <1>2

(* A mandatory check that came out passed is backed, whatever the verifier   *)
(* reported.                                                                 *)
LEMMA PassIsBacked ==
    ASSUME NEW kind \in Kinds, NEW fact \in FactsOf(kind), NEW word,
           Evaluate(kind, fact) # "raises", Merge(Evaluate(kind, fact), word) = "pass"
    PROVE  Backed(kind, fact, word)
BY DEF Kinds, FileKinds, Facts, FactsOf, Evaluate, Merge, Backed, Undecided

LEMMA SuccessIsBacked ==
    ASSUME NEW checks, \A c \in DOMAIN checks : checks[c].kind \in Kinds,
           NEW met \in [DOMAIN checks -> Facts],
           \A c \in DOMAIN checks : met[c] \in FactsOf(checks[c].kind),
           NEW observed, NEW informed, NEW report, NEW workspace,
           Settled(observed, informed, checks, met, report, workspace) = "succeeded"
    PROVE  IF DOMAIN checks # {} /\ workspace
           THEN \A c \in DOMAIN checks :
                  checks[c].mandatory => Backed(checks[c].kind, met[c], Word(report, c))
           ELSE informed
<1>1. CASE DOMAIN checks # {} /\ workspace
  <2>1. SUFFICES ASSUME NEW c \in DOMAIN checks, checks[c].mandatory
                 PROVE  Backed(checks[c].kind, met[c], Word(report, c))
    BY <1>1
  <2>2. ~Raises(checks, met) /\ EvidenceOf(checks, met, report, workspace)[c] = "pass"
    BY <1>1, <2>1 DEF Settled
  <2>3. Synthesised(checks, met, workspace)
    BY <1>1, <2>2 DEF Synthesised
  <2>4. Merge(Evaluate(checks[c].kind, met[c]), Word(report, c)) = "pass"
    BY <2>2, <2>3 DEF EvidenceOf
  <2>5. Evaluate(checks[c].kind, met[c]) # "raises"
    BY <2>2 DEF Raises
  <2> QED BY <2>4, <2>5, PassIsBacked
<1>2. CASE ~(DOMAIN checks # {} /\ workspace)
  BY <1>2 DEF Settled
<1> QED BY <1>1, <1>2
-----------------------------------------------------------------------------
(***************************************************************************)
(* Type correctness.                                                        *)
(***************************************************************************)
LEMMA TermOK ==
    ASSUME terms \in Terms
    PROVE  /\ terms.spec \in Specs \cup {NoSpec}
           /\ DOMAIN terms.checks \subseteq Checks
           /\ \A c \in DOMAIN terms.checks : terms.checks[c].kind \in Kinds
BY TermsAssumption

LEMMA SwitchedOK ==
    ASSUME registry \in [Executors -> Entries], NEW e \in Executors, NEW on \in BOOLEAN
    PROVE  SetEnabled(registry, e, on) \in [Executors -> Entries]
<1>1. [registry[e] EXCEPT !.enabled = on] \in Entries
  BY DEF Entries
<1> QED BY <1>1 DEF SetEnabled

LEMMA ReaderTyped ==
    ASSUME TypeOK PROVE ReaderOK(reader) /\ ReaderOK(Drained) /\ ReaderOK(Fresh)
BY DrainedOK, FreshOK DEF TypeOK, ReaderOK

LEMMA VerdictTyped ==
    ASSUME TypeOK, NEW results, ResultsOK(results)
    PROVE  ContractVerdict(results) \in Outcomes \cup {"pending", "none"}
<1>1. terms.spec \in Specs \cup {NoSpec}
  BY TermOK DEF TypeOK
<1> QED BY <1>1, SpecIsTyped DEF ContractVerdict, Values

LEMMA ReportOK ==
    ASSUME NEW report \in Reports PROVE DOMAIN report \subseteq Checks /\ ResultsOK(report)
BY ReportsAssumption DEF ResultsOK

LEMMA DispatchTypeOK ==
    ASSUME TypeOK, NEW others \in SUBSET Executors, DispatchVerifier(others),
           phase \in {"produced", "ready", "held", "user"}
    PROVE  TypeOK'
<1>1. /\ checker' \in Executors \cup {None}
      /\ \/ phase' \in {"ready", "held", "failed"} /\ UNCHANGED process
         \/ phase' = "verifying" /\ Spawned
  BY DEF DispatchVerifier, Preferred, TypeOK
<1>2. /\ written' = None /\ facts' = <<>> /\ evidence' = <<>> /\ verdict' = "none"
      /\ UNCHANGED <<terms, registry, running, toggles, offer, worker, rounds>>
  BY DEF DispatchVerifier, Unjudged, pool
<1>3. CASE phase' \in {"ready", "held", "failed"} /\ UNCHANGED process
  BY <1>1, <1>2, <1>3 DEF TypeOK, process
<1>4. CASE phase' = "verifying" /\ Spawned
  BY <1>1, <1>2, <1>4, FreshOK DEF TypeOK, Spawned, ReaderOK
<1> QED BY <1>1, <1>3, <1>4

LEMMA InitTypeOK == Init => TypeOK
<1> SUFFICES ASSUME Init PROVE TypeOK
  OBVIOUS
<1>1. registry \in [Executors -> Entries] /\ running \in [Executors -> Nat]
  BY CatalogAssumption DEF Init
<1>2. reader \in [event : {"succeeded", "failed", None}, block : Reports \cup {None},
                   room : 0..Room, cut : BOOLEAN]
  BY FreshOK DEF Init, ProcessInit, ReaderOK
<1>3. pipe \in Seq(Lines)
  BY DEF Init, ProcessInit
<1> QED BY <1>1, <1>2, <1>3, RoundsAssumption DEF Init, ProcessInit, TypeOK

LEMMA NextTypeOK == TypeOK /\ [Next]_vars => TypeOK'
<1> SUFFICES ASSUME TypeOK, [Next]_vars PROVE TypeOK'
  OBVIOUS
<1> USE RoundsAssumption
<1>t. DOMAIN terms.checks \subseteq Checks /\ terms.spec \in Specs \cup {NoSpec}
  BY TermOK DEF TypeOK
<1>0. CASE UNCHANGED vars
  BY <1>0 DEF TypeOK, vars
<1>1. ASSUME NEW e \in Executors, Switch(e) PROVE TypeOK'
  <2>1. registry' \in [Executors -> Entries]
    <3>1. (~registry[e].enabled) \in BOOLEAN
      BY Zenon
    <3> QED BY <1>1, <3>1, SwitchedOK DEF Switch, TypeOK
  <2> QED BY <1>1, <2>1 DEF Switch, TypeOK, judged, process
<1>2. ASSUME NEW e \in Executors, Load(e) PROVE TypeOK'
  <2>1. registry[e].slots \in Nat
    BY DEF TypeOK, Entries
  <2>2. running' \in [Executors -> Nat]
    BY <1>2, <2>1 DEF Load, TypeOK
  <2> QED BY <1>2, <2>2 DEF Load, TypeOK, judged, process
<1>3. CASE Prepare
  BY <1>3 DEF Prepare, Offered, TypeOK, pool, judged, process
<1>4. CASE StartExecutor
  <2>1. PICK e \in Preferred(registry, running, Pool("executor")) :
          /\ worker' = e /\ rounds' = rounds + 1
          /\ \/ phase' = "executing" /\ Spawned
             \/ phase' = "ready" /\ UNCHANGED process
    BY <1>4 DEF StartExecutor
  <2>2. e \in Executors
    BY DEF Preferred, Pool, Candidates
  <2>3. rounds' \in 0..MaxRounds
    BY <1>4, <2>1 DEF StartExecutor, TypeOK
  <2>4. CASE Spawned
    BY <1>4, <2>1, <2>2, <2>3, <2>4, FreshOK
       DEF StartExecutor, TypeOK, pool, judged, Spawned, process, ReaderOK
  <2>5. CASE UNCHANGED process
    BY <1>4, <2>1, <2>2, <2>3, <2>5 DEF StartExecutor, TypeOK, pool, judged, process
  <2> QED BY <2>1, <2>4, <2>5
<1>5. CASE HandOver
  BY <1>5 DEF HandOver, TypeOK, pool, judged, process
<1>6. CASE FinishExecutor
  BY <1>6, ReaderTyped DEF FinishExecutor, LetGo, TypeOK, pool, judged, ReaderOK
<1>7. CASE StartVerifier \/ RequestedVerifier
  BY <1>7, DispatchTypeOK DEF StartVerifier, RequestedVerifier, Pool, Candidates
<1>8. CASE FinishVerifier
  <2> DEFINE report == IF Drained.block = None THEN <<>> ELSE Drained.block
  <2>1. PICK met \in [DOMAIN terms.checks -> Facts] :
          evidence' = EvidenceOf(terms.checks, met, report, terms.workspace)
    BY <1>8 DEF FinishVerifier, Looks
  <2>2. /\ DOMAIN evidence' \subseteq DOMAIN terms.checks
        /\ ResultsOK(evidence')
    BY <2>1, TermOK, EvidenceOK DEF TypeOK
  <2>3. phase' \in {"passed", "failed"}
    BY <1>8 DEF FinishVerifier
  <2> QED BY <1>t, <1>8, <2>2, <2>3, ReaderTyped
          DEF FinishVerifier, LetGo, TypeOK, pool, ReaderOK, ResultsOK
<1>9. CASE TimeLimit
  BY <1>9, ReaderTyped DEF TimeLimit, LetGo, Unjudged, TypeOK, pool, ReaderOK
<1>10. CASE Judge
  <2>1. verdict' \in Outcomes \cup {"pending", "none"}
    <3>1. ResultsOK(evidence)
      BY DEF TypeOK, ResultsOK
    <3> QED BY <1>10, <3>1, VerdictTyped DEF Judge
  <2>2. phase' \in {"rejected", "held", "completed"}
    BY <1>10, <2>1 DEF Judge, Outcomes
  <2> QED BY <1>10, <2>1, <2>2 DEF Judge, TypeOK, pool, process
<1>11. CASE Repair
  BY <1>11, ReaderTyped DEF Repair, LetGo, Unjudged, TypeOK, pool, ReaderOK
<1>12. ASSUME NEW state \in {"succeeded", "failed"}, NEW report \in Reports,
              WriteBack(state, report)
       PROVE  TypeOK'
  <2>1. written' \in [state : {"succeeded"}, report : Reports]
                    \cup [state : {"failed"}, report : {<<>>}]
    BY <1>12 DEF WriteBack
  <2>2. /\ phase' \in {"verifying", "vouched"} /\ verdict' \in {verdict, "none"}
        /\ UNCHANGED <<terms, registry, running, toggles, offer, worker, checker, rounds,
                       facts, evidence, child, pipe, printed, reader>>
    BY <1>12 DEF WriteBack, pool, process
  <2> QED BY <2>1, <2>2 DEF TypeOK
<1>13. CASE FinishLate
  BY <1>13, ReaderTyped DEF FinishLate, LetGo, TypeOK, pool, ReaderOK
<1>14. CASE JudgeWritten
  <2>1. written.report \in Reports
    BY <1>14 DEF JudgeWritten, TypeOK
  <2>2. DOMAIN evidence' \subseteq Checks /\ ResultsOK(evidence')
    BY <1>14, <2>1, ReportOK DEF JudgeWritten
  <2>3. verdict' \in Outcomes \cup {"pending", "none"}
    BY <1>14, <2>1, ReportOK, VerdictTyped DEF JudgeWritten
  <2>4. phase' \in {"verifying", "vouched"} /\ phase = "verifying"
    BY <1>14 DEF JudgeWritten
  <2> QED BY <1>14, <2>2, <2>3, <2>4 DEF JudgeWritten, TypeOK, ResultsOK, pool, process
<1>15. CASE Runs /\ UNCHANGED <<terms, pool, phase, offer, worker, checker, rounds,
                               written, judged>>
  <2> USE <1>15 DEF TypeOK, pool, judged
  <2>1. ASSUME NEW line \in Lines, Prints(line) PROVE TypeOK'
    BY <2>1 DEF Prints
  <2>2. ASSUME NEW code \in {"clean", "dirty"}, Exits(code) PROVE TypeOK'
    BY <2>2 DEF Exits
  <2>3. CASE Reads
    <3>1. Head(pipe) \in Lines /\ Tail(pipe) \in Seq(Lines)
      BY <2>3 DEF Reads
    <3>2. ReaderOK(reader')
      BY <2>3, <3>1, ScanOK, ReaderTyped DEF Reads
    <3> QED BY <2>3, <3>1, <3>2 DEF Reads, ReaderOK
  <2> QED BY <2>1, <2>2, <2>3 DEF Runs
<1> QED
  BY <1>0, <1>1, <1>2, <1>3, <1>4, <1>5, <1>6, <1>7, <1>8, <1>9, <1>10, <1>11, <1>12,
     <1>13, <1>14, <1>15 DEF Next

(* Every variable of the pipeline keeps its type. *)
THEOREM TypeCorrect == Spec => []TypeOK
<1> QED BY InitTypeOK, NextTypeOK, PTL DEF Spec
-----------------------------------------------------------------------------
(***************************************************************************)
(* Who runs.  The switches leave what the file declares alone.              *)
(***************************************************************************)
Declared ==
    \A e \in Executors :
        /\ registry[e].models = Catalog[e].models
        /\ registry[e].offers = Catalog[e].offers
        /\ registry[e].files = Catalog[e].files
        /\ registry[e].network = Catalog[e].network
        /\ registry[e].process = Catalog[e].process

(* Both definitions of what a grant allows, the offer's and the dispatch's,  *)
(* stay within what it says.                                                 *)
LEMMA OfferIsPermitted ==
    ASSUME NEW grant, NEW e \in Executors, NEW entry, NEW role,
           grant.policy \in {"closed", "explicit_allow"},
           entry.models = Catalog[e].models, OfferAllows(grant, e, entry, role)
    PROVE  Permits(grant, e, role)
BY DEF OfferAllows, Permits, Guarded, IsFirstBinding, Tried

LEMMA DispatchIsPermitted ==
    ASSUME NEW grant, NEW e \in Executors, NEW entry, NEW role,
           grant.policy \in {"closed", "explicit_allow"},
           entry.models = Catalog[e].models, DispatchAllows(grant, e, entry, role)
    PROVE  Permits(grant, e, role)
<1>1. CASE Guarded(grant)
  <2>1. PICK i \in DOMAIN grant.bindings :
          /\ grant.bindings[i].executor = e
          /\ role \in grant.bindings[i].roles
          /\ ModelsOverlap(grant.bindings[i].models, Catalog[e].models)
    BY <1>1 DEF DispatchAllows, IsLastBinding
  <2>2. \E m \in grant.bindings[i].models :
          m = AnyModel \/ AnyModel \in Catalog[e].models \/ m \in Catalog[e].models
    BY <2>1 DEF ModelsOverlap
  <2> QED BY <2>1, <2>2 DEF Permits
<1>2. CASE ~Guarded(grant)
  BY <1>2 DEF Guarded, Permits
<1> QED BY <1>1, <1>2

(* An executor offered at preparation is a candidate of the dispatch as long *)
(* as the registry and the load stay what they are, provided that no         *)
(* executor is bound twice; bound twice, the two take different bindings.    *)
THEOREM OfferedIsCandidate ==
    ASSUME NEW reg \in [Executors -> Entries], NEW load, NEW grant, NEW demand,
           \A i, j \in DOMAIN grant.bindings :
              grant.bindings[i].executor = grant.bindings[j].executor => i = j,
           NEW e \in Offered(reg, load, grant, demand)
    PROVE  e \in Candidates(reg, load, grant, demand, "executor")
<1>1. /\ e \in Executors /\ reg[e].enabled /\ CapabilityMatch(reg[e], demand)
      /\ load[e] < reg[e].slots /\ OfferAllows(grant, e, reg[e], "executor")
  BY DEF Offered
<1>2. ASSUME Guarded(grant)
      PROVE  \E i \in DOMAIN grant.bindings :
                /\ IsLastBinding(grant, e, i)
                /\ "executor" \in grant.bindings[i].roles
                /\ ModelsOverlap(grant.bindings[i].models, reg[e].models)
  <2>1. PICK i \in DOMAIN grant.bindings :
          /\ IsFirstBinding(grant, e, i)
          /\ "executor" \in grant.bindings[i].roles
          /\ \E m \in Tried(grant.bindings[i], reg[e]) :
                AnyModel \in grant.bindings[i].models \/ m \in grant.bindings[i].models
    BY <1>1, <1>2 DEF OfferAllows
  <2>2. IsLastBinding(grant, e, i)
    <3>1. i <= i
      BY <2>1 DEF IsFirstBinding
    <3> QED BY <2>1, <3>1 DEF IsFirstBinding, IsLastBinding
  <2>3. ModelsOverlap(grant.bindings[i].models, reg[e].models)
    BY <2>1 DEF Tried, ModelsOverlap
  <2> QED BY <2>1, <2>2, <2>3
<1>3. DispatchAllows(grant, e, reg[e], "executor")
  BY <1>2 DEF DispatchAllows
<1> QED BY <1>1, <1>3 DEF Candidates

GrantOK == terms.grant.policy \in {"closed", "explicit_allow"}

WorkInv == TypeOK /\ Declared /\ WorkStaysInsideTheGrant

LEMMA CandidateOK ==
    ASSUME WorkInv, NEW role, NEW e \in Pool(role)
    PROVE  /\ e \in Executors
           /\ Permits(terms.grant, e, role)
           /\ CapabilityMatch(Catalog[e], terms.demand)
<1>1. /\ e \in Executors
      /\ DispatchAllows(terms.grant, e, registry[e], role)
      /\ CapabilityMatch(registry[e], terms.demand)
  BY DEF Pool, Candidates
<1>2. GrantOK
  BY TermsAssumption DEF WorkInv, TypeOK, GrantOK
<1>3. Permits(terms.grant, e, role)
  BY <1>1, <1>2, DispatchIsPermitted DEF WorkInv, Declared, GrantOK
<1>4. CapabilityMatch(Catalog[e], terms.demand)
  BY <1>1 DEF WorkInv, Declared, CapabilityMatch
<1> QED BY <1>1, <1>3, <1>4

LEMMA NextWorkInv == WorkInv /\ [Next]_vars => WorkInv'
<1> SUFFICES ASSUME WorkInv, [Next]_vars PROVE WorkInv'
  OBVIOUS
<1>t. TypeOK'
  BY NextTypeOK DEF WorkInv
<1>s. ASSUME UNCHANGED <<terms, registry, offer, worker, checker>>
      PROVE  WorkInv'
  BY <1>s, <1>t DEF WorkInv, Declared, WorkStaysInsideTheGrant, Permits, CapabilityMatch
<1>0. CASE UNCHANGED vars
  BY <1>0, <1>s DEF vars
<1>1. ASSUME NEW e \in Executors, Switch(e) PROVE WorkInv'
  <2>1. Declared'
    BY <1>1 DEF Switch, SetEnabled, WorkInv, TypeOK, Entries, Declared
  <2>2. WorkStaysInsideTheGrant'
    BY <1>1 DEF Switch, WorkInv, WorkStaysInsideTheGrant, Permits, CapabilityMatch
  <2> QED BY <1>t, <2>1, <2>2 DEF WorkInv
<1>2. ASSUME NEW e \in Executors, Load(e) PROVE WorkInv'
  BY <1>2, <1>s DEF Load
<1>3. CASE Prepare
  <2>1. GrantOK
    BY TermsAssumption DEF WorkInv, TypeOK, GrantOK
  <2>2. ASSUME NEW e \in offer' PROVE Permits(terms.grant, e, "executor")
    <3>1. /\ e \in Executors
          /\ OfferAllows(terms.grant, e, registry[e], "executor")
      BY <1>3, <2>2 DEF Prepare, Offered
    <3> QED BY <2>1, <3>1, OfferIsPermitted DEF WorkInv, Declared, GrantOK
  <2>3. UNCHANGED <<terms, registry, worker, checker>>
    BY <1>3 DEF Prepare, pool
  <2> QED BY <1>t, <2>2, <2>3 DEF WorkInv, Declared, WorkStaysInsideTheGrant,
                                 Permits, CapabilityMatch
<1>4. CASE StartExecutor
  <2>1. PICK e \in Pool("executor") : worker' = e
    BY <1>4 DEF StartExecutor, Preferred
  <2>2. /\ UNCHANGED <<terms, registry, offer>> /\ checker' = None
    BY <1>4 DEF StartExecutor, pool
  <2>3. /\ Permits(terms.grant, e, "executor") /\ CapabilityMatch(Catalog[e], terms.demand)
    BY <2>1, CandidateOK
  <2> QED BY <1>t, <2>1, <2>2, <2>3 DEF WorkInv, Declared, WorkStaysInsideTheGrant,
                                       Permits, CapabilityMatch
<1>5. CASE StartVerifier \/ RequestedVerifier
  <2>0. PICK others \in SUBSET Pool("verifier") : DispatchVerifier(others)
    BY <1>5 DEF StartVerifier, RequestedVerifier
  <2>1. UNCHANGED <<terms, registry, offer, worker>>
    BY <2>0 DEF DispatchVerifier, pool
  <2>2. CASE checker' = checker
    BY <2>1, <2>2, <1>s
  <2>3. CASE \E e \in Pool("verifier") : checker' = e
    <3>1. PICK e \in Pool("verifier") : checker' = e
      BY <2>3
    <3>2. /\ Permits(terms.grant, e, "verifier")
          /\ CapabilityMatch(Catalog[e], terms.demand)
      BY <3>1, CandidateOK
    <3> QED BY <1>t, <2>1, <3>1, <3>2 DEF WorkInv, Declared, WorkStaysInsideTheGrant,
                                         Permits, CapabilityMatch
  <2> QED BY <2>0, <2>2, <2>3 DEF DispatchVerifier, Preferred
<1>6. CASE \/ HandOver \/ FinishExecutor \/ FinishVerifier \/ FinishLate \/ TimeLimit
           \/ Judge \/ JudgeWritten \/ Repair
  BY <1>6, <1>s DEF HandOver, FinishExecutor, FinishVerifier, FinishLate, TimeLimit,
                    Judge, JudgeWritten, Repair, pool
<1>7. CASE \/ Runs /\ UNCHANGED <<terms, pool, phase, offer, worker, checker, rounds,
                                  written, judged>>
           \/ \E state \in {"succeeded", "failed"}, report \in Reports :
                 WriteBack(state, report)
  BY <1>7, <1>s DEF WriteBack, pool
<1> QED BY <1>0, <1>1, <1>2, <1>3, <1>4, <1>5, <1>6, <1>7 DEF Next

(* Executors offered, and those that work and verify, be it upon a success   *)
(* or at the user's request, are within the grant of the contract and meet   *)
(* its demands, for every registry and every authority.                      *)
THEOREM WorkIsPermitted == Spec => []WorkStaysInsideTheGrant
<1>1. Init => WorkInv
  BY InitTypeOK DEF Init, WorkInv, Declared, WorkStaysInsideTheGrant
<1>2. WorkInv => WorkStaysInsideTheGrant
  BY DEF WorkInv
<1> QED BY <1>1, <1>2, NextWorkInv, PTL DEF Spec
-----------------------------------------------------------------------------
(***************************************************************************)
(* What completes.  From the settlement of a successful verification to the *)
(* next spawn, the facts found, the evidence made of them, the block read   *)
(* and what was written back stay as they were; a judgement and the         *)
(* evidence it was made of stay together, until either is given up.         *)
(***************************************************************************)
SuccessBacked ==
    phase \in {"passed", "completed"} =>
        IF DOMAIN terms.checks # {} /\ terms.workspace
        THEN \A c \in DOMAIN terms.checks :
                terms.checks[c].mandatory =>
                    Backed(terms.checks[c].kind, facts[c],
                           IF reader.block = None THEN "absent" ELSE Word(reader.block, c))
        ELSE reader.block # None \/ reader.event # None \/ written # None

JudgedBySpec ==
    terms.spec # NoSpec /\ verdict # "none" =>
        /\ verdict = SpecOutcome(terms.spec, evidence)
        /\ phase \in {"completed", "vouched"} <=> verdict \notin {"fail", "pending"}

SettledInv == TypeOK /\ SuccessBacked /\ JudgedBySpec

LEMMA NextSettledInv == SettledInv /\ [Next]_vars => SettledInv'
<1> SUFFICES ASSUME SettledInv, [Next]_vars PROVE SettledInv'
  OBVIOUS
<1>t. TypeOK'
  BY NextTypeOK DEF SettledInv
<1>s. ASSUME UNCHANGED <<terms, phase, facts, evidence, verdict, reader, written>>
      PROVE  SettledInv'
  BY <1>s, <1>t DEF SettledInv, SuccessBacked, JudgedBySpec
<1>u. ASSUME phase' \notin {"passed", "completed"}, JudgedBySpec'
      PROVE  SettledInv'
  BY <1>u, <1>t DEF SettledInv, SuccessBacked
<1>j. ASSUME verdict' = "none" PROVE JudgedBySpec'
  BY <1>j DEF JudgedBySpec
<1>k. ASSUME UNCHANGED <<terms, evidence, verdict>>,
             phase \in {"completed", "vouched"} <=> phase' \in {"completed", "vouched"}
      PROVE  JudgedBySpec'
  BY <1>k DEF SettledInv, JudgedBySpec
<1>0. CASE UNCHANGED vars
  BY <1>0, <1>s DEF vars
<1>1. ASSUME NEW e \in Executors, Switch(e) \/ Load(e) PROVE SettledInv'
  BY <1>1, <1>s DEF Switch, Load, judged, process
<1>2. CASE Prepare \/ StartExecutor \/ HandOver \/ FinishExecutor \/ FinishLate
  <2>1. /\ UNCHANGED <<terms, evidence, verdict>>
        /\ phase' \notin {"passed", "completed"}
        /\ phase \in {"completed", "vouched"} <=> phase' \in {"completed", "vouched"}
    BY <1>2 DEF Prepare, StartExecutor, HandOver, FinishExecutor, FinishLate, judged
  <2> QED BY <2>1, <1>k, <1>u
<1>3. CASE StartVerifier \/ RequestedVerifier \/ TimeLimit \/ Repair
  <2>1. verdict' = "none" /\ phase' \notin {"passed", "completed"}
    BY <1>3 DEF StartVerifier, RequestedVerifier, DispatchVerifier, TimeLimit, Repair, Unjudged
  <2> QED BY <2>1, <1>j, <1>u
<1>4. CASE FinishVerifier
  <2>1. PICK met \in [DOMAIN terms.checks -> Facts], seen \in {reader, Drained} :
          /\ \A c \in DOMAIN terms.checks : met[c] \in FactsOf(terms.checks[c].kind)
          /\ phase' = IF Settled(Observed,
                                 seen.event # None \/ Drained.block # None \/ written # None,
                                 terms.checks, met,
                                 IF Drained.block = None THEN <<>> ELSE Drained.block,
                                 terms.workspace) = "succeeded"
                      THEN "passed" ELSE "failed"
          /\ facts' = met
    BY <1>4 DEF FinishVerifier, Looks
  <2>j. JudgedBySpec'
    BY <1>4, <1>j DEF FinishVerifier
  <2>2. CASE phase' = "failed"
    BY <2>2, <2>j, <1>u
  <2>3. CASE phase' = "passed"
    <3> DEFINE report == IF Drained.block = None THEN <<>> ELSE Drained.block
               informed == seen.event # None \/ Drained.block # None \/ written # None
    <3>1. Settled(Observed, informed, terms.checks, met, report, terms.workspace) = "succeeded"
      BY <2>1, <2>3
    <3>2. IF DOMAIN terms.checks # {} /\ terms.workspace
          THEN \A c \in DOMAIN terms.checks :
                 terms.checks[c].mandatory =>
                    Backed(terms.checks[c].kind, met[c], Word(report, c))
          ELSE informed
      <4>1. \A c \in DOMAIN terms.checks : terms.checks[c].kind \in Kinds
        BY TermOK DEF SettledInv, TypeOK
      <4> HIDE DEF report, informed
      <4> QED BY <2>1, <3>1, <4>1, SuccessIsBacked
    <3>3. reader' = Drained /\ terms' = terms /\ written' = written
      BY <1>4 DEF FinishVerifier, LetGo
    <3>4. informed => Drained.event # None \/ Drained.block # None \/ written # None
      BY <2>1, DrainedOK, ReaderTyped DEF SettledInv, TypeOK
    <3>5. \A c : Word(report, c) =
                   IF Drained.block = None THEN "absent" ELSE Word(Drained.block, c)
      BY DEF Word
    <3>6. SuccessBacked'
      <4> HIDE DEF report, informed
      <4> QED BY <2>1, <3>2, <3>3, <3>4, <3>5 DEF SuccessBacked
    <3> QED BY <1>t, <2>j, <3>6 DEF SettledInv
  <2> QED BY <2>1, <2>2, <2>3
<1>5. CASE Judge
  <2>1. UNCHANGED <<terms, facts, evidence, reader, written>> /\ phase = "passed"
    BY <1>5 DEF Judge, process
  <2>2. SuccessBacked'
    BY <2>1 DEF SettledInv, SuccessBacked
  <2>3. JudgedBySpec'
    BY <1>5, <2>1 DEF Judge, ContractVerdict, JudgedBySpec
  <2> QED BY <1>t, <2>2, <2>3 DEF SettledInv
<1>6. CASE JudgeWritten
  <2>1. JudgedBySpec'
    BY <1>6 DEF JudgeWritten, ContractVerdict, JudgedBySpec
  <2> QED BY <1>6, <2>1, <1>u DEF JudgeWritten
<1>7. ASSUME NEW state, NEW report, WriteBack(state, report) PROVE SettledInv'
  <2>1. CASE UNCHANGED <<phase, verdict>>
    BY <1>7, <2>1, <1>k, <1>u DEF WriteBack
  <2>2. CASE phase' = "vouched" /\ verdict' = "none"
    BY <2>2, <1>j, <1>u
  <2> QED BY <1>7, <2>1, <2>2 DEF WriteBack
<1>8. CASE Runs /\ UNCHANGED <<terms, pool, phase, offer, worker, checker, rounds,
                              written, judged>>
  <2>1. CASE phase \in {"executing", "verifying", "vouched"}
    BY <1>8, <2>1, <1>k, <1>u DEF judged
  <2>2. CASE phase \notin {"executing", "verifying", "vouched"}
    <3>1. child = "none"
      BY <2>2 DEF SettledInv, TypeOK
    <3>2. UNCHANGED <<terms, phase, facts, evidence, verdict, written>>
      BY <1>8 DEF judged
    <3>3. CASE UNCHANGED reader
      BY <3>2, <3>3, <1>s
    <3>4. CASE Reads
      BY <2>2, <3>4 DEF Reads, SettledInv, TypeOK
    <3> QED BY <1>8, <3>3, <3>4 DEF Runs, Prints, Exits
  <2> QED BY <2>1, <2>2
<1> QED BY <1>0, <1>1, <1>2, <1>3, <1>4, <1>5, <1>8, <1>6, <1>7 DEF Next

(* A contract completed by the settlement of a verification has every        *)
(* mandatory check met, or left open by the runtime and passed by the        *)
(* verifier's block; without typed checks its verifier said something.       *)
THEOREM CompletionBacked == Spec => []CompletionIsBacked
<1>1. Init => SettledInv
  BY InitTypeOK DEF Init, SettledInv, SuccessBacked, JudgedBySpec
<1>2. SettledInv => CompletionIsBacked
  BY DEF SettledInv, SuccessBacked, CompletionIsBacked
<1> QED BY <1>1, <1>2, NextSettledInv, PTL DEF Spec

(* The judgement is exact where nothing is undetermined, for every           *)
(* specification two combinators deep and all evidence, of a settled attempt *)
(* or written back.                                                          *)
THEOREM VerdictExact == Spec => []VerdictIsExact
<1>1. Init => SettledInv
  BY InitTypeOK DEF Init, SettledInv, SuccessBacked, JudgedBySpec
<1>2. SettledInv => VerdictIsExact
  <2> SUFFICES ASSUME SettledInv, terms.spec # NoSpec, verdict # "none",
                      Criteria \cap Reported("undetermined") = {}
               PROVE  /\ phase \in {"completed", "vouched"} <=>
                            SpecHolds(terms.spec, Reported("pass"))
                      /\ verdict = "fail" <=>
                            ~SpecHolds(terms.spec, Leaves \ Reported("fail"))
    BY DEF VerdictIsExact
  <2>1. /\ terms.spec \in Specs /\ ResultsOK(evidence) /\ DOMAIN evidence \subseteq Checks
    BY TermOK DEF SettledInv, TypeOK, ResultsOK
  <2>2. \A o : Reported(o) = Among(evidence, o)
    BY DEF Reported, Among
  <2>3. \A g \in terms.spec.groups : g.leaves \cap Among(evidence, "undetermined") = {}
    BY <2>2 DEF Criteria
  <2>4. /\ SpecOutcome(terms.spec, evidence) \in {"pass", "fail", "pending"}
        /\ SpecOutcome(terms.spec, evidence) = "pass" <=>
              SpecHolds(terms.spec, Reported("pass"))
        /\ SpecOutcome(terms.spec, evidence) = "fail" <=>
              ~SpecHolds(terms.spec, Leaves \ Reported("fail"))
    BY <2>1, <2>2, <2>3, SpecIsExact
  <2> QED BY <2>4 DEF SettledInv, JudgedBySpec
<1> QED BY <1>1, <1>2, NextSettledInv, PTL DEF Spec
=============================================================================
