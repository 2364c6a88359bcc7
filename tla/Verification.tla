---------------------------- MODULE Verification ----------------------------
(***************************************************************************)
(* One contract from the offer made at its preparation to the verdict on    *)
(* its work: an executor is chosen and run, a verifier is chosen and run,   *)
(* after its success or at the user's request, its attempt is settled from  *)
(* the checks and its report, and the tick judges it by the contract's      *)
(* specification.  While it runs a verifier may write its findings back     *)
(* itself, and the tick judges these as well.                               *)
(*                                                                          *)
(* The registry's switches and the load other contracts put on the          *)
(* executors change underneath.  Leases, budgets of verification, restarts  *)
(* and the users' calls are the business of the other modules.              *)
(***************************************************************************)
EXTENDS Registry, AcceptanceSpec, Evidence, ChildProcess

CONSTANTS
    Catalog,         \* the registry as its file declares it
    Terms,           \* what contracts say: grant, demand, checks, spec, workspace
    NoSpec,
    MaxRounds,       \* budget.max_dispatches
    MaxToggles       \* bound: changes of switches and of load

ASSUME CatalogAssumption ==
    /\ Catalog \in [Executors -> Entries]
    /\ \A e \in Executors : WellFormed(Catalog[e])
ASSUME NobodyAssumption == None \notin Executors
ASSUME NoSpecAssumption == NoSpec \notin Specs
ASSUME TermsAssumption ==
    \A t \in Terms :
        /\ t.spec \in Specs \cup {NoSpec}
        /\ t.grant.policy \in {"closed", "explicit_allow"}
        /\ DOMAIN t.checks \subseteq Checks
        /\ \A c \in DOMAIN t.checks : t.checks[c].kind \in Kinds
ASSUME ReportsAssumption ==
    \A r \in Reports : /\ DOMAIN r # {} /\ DOMAIN r \subseteq Checks
                       /\ \A c \in DOMAIN r : r[c] \in Outcomes
ASSUME RoundsAssumption == MaxRounds \in Nat /\ MaxToggles \in Nat

VARIABLES
    terms,           \* the contract's
    registry,
    running,         \* attempts of other contracts on each executor
    toggles,
    phase,
    offer,           \* executors offered when the contract was prepared
    worker,          \* executor of the current round
    checker,         \* verifier of the current round
    rounds,          \* executor attempts so far
    written,         \* what the running verifier has written back, or None
    facts,           \* what evaluating the checks met
    evidence,        \* outcomes the verification carries that is judged
    verdict          \* what the specification was judged to be

pool == <<registry, running, toggles>>
judged == <<facts, evidence, verdict>>
vars == <<terms, registry, running, toggles, phase, offer, worker, checker, rounds,
          written, facts, evidence, verdict, child, pipe, printed, reader>>

TypeOK ==
    /\ terms \in Terms
    /\ registry \in [Executors -> Entries]
    /\ running \in [Executors -> Nat]
    /\ toggles \in 0..MaxToggles
    /\ phase \in {"draft", "ready", "executing", "produced", "verifying", "failed",
                  "passed", "completed", "vouched", "rejected", "held", "user"}
    /\ offer \subseteq Executors
    /\ worker \in Executors \cup {None} /\ checker \in Executors \cup {None}
    /\ rounds \in 0..MaxRounds
    /\ written \in [state : {"succeeded"}, report : Reports]
                  \cup [state : {"failed"}, report : {<<>>}] \cup {None}
    /\ DOMAIN evidence \subseteq Checks
    /\ \A c \in DOMAIN evidence : evidence[c] \in Outcomes
    /\ verdict \in Outcomes \cup {"pending", "none"}
    /\ child \in {"none", "running", "clean", "dirty"}
    /\ pipe # <<>> \/ child # "none" => phase \in {"executing", "verifying", "vouched"}
    /\ pipe \in Seq(Lines)
    /\ reader \in [event : {"succeeded", "failed", None}, block : Reports \cup {None},
                   room : 0..Room, cut : BOOLEAN]

Init ==
    /\ terms \in Terms
    /\ registry = Catalog
    /\ running = [e \in Executors |-> 0]
    /\ toggles = 0
    /\ phase = "draft"
    /\ offer = {}
    /\ worker = None /\ checker = None
    /\ rounds = 0
    /\ written = None /\ facts = <<>> /\ evidence = <<>> /\ verdict = "none"
    /\ ProcessInit
-----------------------------------------------------------------------------
Idle == phase \in {"draft", "ready", "produced", "held", "user"}

Switch(e) ==
    /\ Idle /\ toggles < MaxToggles
    /\ registry' = SetEnabled(registry, e, ~registry[e].enabled)
    /\ toggles' = toggles + 1
    /\ UNCHANGED <<terms, running, phase, offer, worker, checker, rounds, written, judged, process>>

Load(e) ==
    /\ Idle /\ toggles < MaxToggles
    /\ \E n \in 0..registry[e].slots : running' = [running EXCEPT ![e] = n]
    /\ toggles' = toggles + 1
    /\ UNCHANGED <<terms, registry, phase, offer, worker, checker, rounds, written, judged, process>>

Prepare ==
    /\ phase = "draft"
    /\ offer' = Offered(registry, running, terms.grant, terms.demand)
    /\ phase' = "ready"
    /\ UNCHANGED <<terms, pool, worker, checker, rounds, written, judged, process>>

(* The candidates of a role, and those of them a dispatch takes first. *)
Pool(role) == Candidates(registry, running, terms.grant, terms.demand, role)

StartExecutor ==
    /\ phase = "ready" /\ rounds < MaxRounds
    /\ \E e \in Preferred(registry, running, Pool("executor")) :
        /\ worker' = e
        /\ rounds' = rounds + 1
        /\ IF Translates(registry[e], terms.demand, terms.workspace)
           THEN phase' = "executing" /\ Spawned
           ELSE phase' = "ready" /\ UNCHANGED process
    /\ checker' = None
    /\ UNCHANGED <<terms, pool, offer, written, judged>>

(* No candidate blocks the contract until one is found; a spent budget hands *)
(* it to the user.                                                           *)
HandOver ==
    /\ phase = "ready" /\ rounds = MaxRounds
    /\ phase' = "user"
    /\ UNCHANGED <<terms, pool, offer, worker, checker, rounds, written, judged, process>>

FinishExecutor ==
    /\ phase = "executing" /\ Observed # "running"
    /\ phase' = IF Observed = "succeeded" THEN "produced" ELSE "ready"
    /\ LetGo(Fresh)
    /\ UNCHANGED <<terms, pool, offer, worker, checker, rounds, written, judged>>

(* What an earlier verification has left is of no more account. *)
Unjudged == written' = None /\ facts' = <<>> /\ evidence' = <<>> /\ verdict' = "none"

(* Without a candidate the escalation is recorded and the contract stays as  *)
(* it was: active, or waiting for the user's criteria.                       *)
DispatchVerifier(others) ==
    /\ IF others = {}
       THEN phase' = (IF phase = "held" THEN "held" ELSE "ready") /\ UNCHANGED <<checker, process>>
       ELSE \E e \in Preferred(registry, running, others) :
               /\ checker' = e
               /\ IF Translates(registry[e], terms.demand, terms.workspace)
                  THEN phase' = "verifying" /\ Spawned
                  ELSE phase' = "failed" /\ UNCHANGED process
    /\ Unjudged
    /\ UNCHANGED <<terms, pool, offer, worker, rounds>>

(* Upon an executor's success. *)
StartVerifier == phase = "produced" /\ DispatchVerifier(Pool("verifier") \ {worker})

(* At the user's request. The executor passed over is the goal's last one,   *)
(* of this contract or of another of the goal; none if there was none.       *)
RequestedVerifier ==
    /\ phase \in {"ready", "held", "user"}
    /\ \E last \in Executors \cup (IF worker = None THEN {None} ELSE {}) :
          DispatchVerifier(Pool("verifier") \ {last})

(* attempt/write-back of a verifier that runs. It may name the contract's    *)
(* completion as well, which no judgement precedes. "vouched" is a contract  *)
(* complete on what its verifier has written back.                           *)
WriteBack(state, report) ==
    /\ phase = "verifying" /\ child = "running"
    /\ written' = [state |-> state, report |-> IF state = "failed" THEN <<>> ELSE report]
    /\ \/ UNCHANGED <<phase, verdict>>
       \/ phase' = "vouched" /\ verdict' = "none"
    /\ UNCHANGED <<terms, pool, offer, worker, checker, rounds, facts, evidence, process>>

(* What evaluating the checks may meet. *)
Looks ==
    {met \in [DOMAIN terms.checks -> Facts] :
        \A c \in DOMAIN terms.checks : met[c] \in FactsOf(terms.checks[c].kind)}

(* The reader may catch up between the look at the process and the look for  *)
(* its event; the block is looked for when the pipe has been drained.        *)
FinishVerifier ==
    /\ phase = "verifying" /\ Observed # "running"
    /\ \E met \in Looks, seen \in {reader, Drained} :
        /\ LET report == IF Drained.block = None THEN <<>> ELSE Drained.block
               informed == seen.event # None \/ Drained.block # None \/ written # None
           IN /\ phase' = IF Settled(Observed, informed, terms.checks, met, report,
                                     terms.workspace) = "succeeded"
                          THEN "passed" ELSE "failed"
              /\ evidence' = EvidenceOf(terms.checks, met, report, terms.workspace)
        /\ facts' = met
    /\ verdict' = "none"
    /\ LetGo(Drained)
    /\ UNCHANGED <<terms, pool, offer, worker, checker, rounds, written>>

(* The verifier of a contract that its write-back has completed ends: the    *)
(* checks are evaluated, and nobody looks at what comes of it.               *)
FinishLate ==
    /\ phase = "vouched" /\ child # "none" /\ Observed # "running"
    /\ \E met \in Looks : facts' = met
    /\ LetGo(Drained)
    /\ UNCHANGED <<terms, pool, phase, offer, worker, checker, rounds, written, evidence, verdict>>

TimeLimit ==
    /\ phase \in {"executing", "verifying"}
    /\ phase' = IF phase = "executing" THEN "ready" ELSE "failed"
    /\ Unjudged
    /\ LetGo(Fresh)
    /\ UNCHANGED <<terms, pool, offer, worker, checker, rounds>>

(* The specification decides, and success alone when there is none. Of what  *)
(* an event carries the judge reads the outcomes of its evidence list: a     *)
(* settled attempt's block is in it as the bare names of its checks, and     *)
(* nobody writes outcomes in the third form the judge knows.                 *)
ContractVerdict(results) ==
    IF terms.spec = NoSpec THEN "none" ELSE SpecOutcome(terms.spec, results)

(* The tick, of a settled attempt. *)
Judge ==
    /\ phase = "passed"
    /\ verdict' = ContractVerdict(evidence)
    /\ phase' = CASE verdict' = "fail" -> "rejected"
                  [] verdict' = "pending" -> "held"
                  [] OTHER -> "completed"
    /\ UNCHANGED <<terms, pool, offer, worker, checker, rounds, written, facts, evidence, process>>

(* The tick, of a success written back. Rejected or held, the contract is    *)
(* judged again when the attempt ends.                                       *)
JudgeWritten ==
    /\ phase = "verifying" /\ written # None /\ written.state = "succeeded"
    /\ evidence' = written.report
    /\ verdict' = ContractVerdict(written.report)
    /\ phase' = IF verdict' \in {"fail", "pending"} THEN "verifying" ELSE "vouched"
    /\ UNCHANGED <<terms, pool, offer, worker, checker, rounds, written, facts, process>>

Repair ==
    /\ phase \in {"failed", "rejected"}
    /\ phase' = "ready"
    /\ Unjudged
    /\ LetGo(Fresh)
    /\ UNCHANGED <<terms, pool, offer, worker, checker, rounds>>

Runs ==
    \/ \E line \in Lines : Prints(line)
    \/ \E code \in {"clean", "dirty"} : Exits(code)
    \/ Reads

Next ==
    \/ \E e \in Executors : Switch(e) \/ Load(e)
    \/ Prepare \/ StartExecutor \/ HandOver \/ FinishExecutor
    \/ StartVerifier \/ RequestedVerifier \/ FinishVerifier \/ FinishLate \/ TimeLimit
    \/ Judge \/ JudgeWritten \/ Repair
    \/ \E state \in {"succeeded", "failed"}, report \in Reports : WriteBack(state, report)
    \/ Runs /\ UNCHANGED <<terms, pool, phase, offer, worker, checker, rounds, written, judged>>

Spec == Init /\ [][Next]_vars
-----------------------------------------------------------------------------
(* What the contract's authority says of an executor in a role, read off the *)
(* registry file: some binding gives it the role and a model it can run.     *)
Permits(grant, e, role) ==
    \/ grant.policy = "closed" /\ grant.bindings = <<>>
    \/ \E i \in DOMAIN grant.bindings :
          LET binding == grant.bindings[i] IN
          /\ binding.executor = e /\ role \in binding.roles
          /\ \E m \in binding.models :
                m = AnyModel \/ AnyModel \in Catalog[e].models \/ m \in Catalog[e].models

(* Whatever switches are thrown and however the load moves, the executors    *)
(* offered (goal.py, _build_admission_offer) and those that run              *)
(* (registry.py, match_candidates) are the contract's own to use in that     *)
(* role, and meet its demands.                                               *)
WorkStaysInsideTheGrant ==
    /\ \A e \in offer : Permits(terms.grant, e, "executor")
    /\ worker # None => Permits(terms.grant, worker, "executor")
    /\ checker # None => Permits(terms.grant, checker, "verifier")
    /\ \A e \in {worker, checker} \ {None} : CapabilityMatch(Catalog[e], terms.demand)

(* A contract completes (tick.py, the judge, over runner.py,                 *)
(* _finish_attempt) only when each mandatory check either holds in the       *)
(* workspace or could not be decided there and was passed by the verifier's  *)
(* block; a contract without typed checks only when the verifier's process   *)
(* left a block, a finished event or a write-back. A contract completed on   *)
(* the write-back itself is "vouched": see DeterministicResultStands.        *)
CompletionIsBacked ==
    phase = "completed" =>
        IF DOMAIN terms.checks # {} /\ terms.workspace
        THEN \A c \in DOMAIN terms.checks :
                terms.checks[c].mandatory =>
                    Backed(terms.checks[c].kind, facts[c],
                           IF reader.block = None THEN "absent" ELSE Word(reader.block, c))
        ELSE reader.block # None \/ reader.event # None \/ written # None

(* Without an undetermined criterion the verdict (spec.py, compose_verdict)  *)
(* on what the verification carries, settled or written back, is exact: the  *)
(* contract completes if and only if the specification holds whatever        *)
(* becomes of the pending criteria, it is rejected if and only if it fails   *)
(* whatever becomes of them, and held only when they do decide it.           *)
Criteria == UNION {g.leaves : g \in terms.spec.groups}
Reported(outcome) == {c \in DOMAIN evidence : evidence[c] = outcome}

VerdictIsExact ==
    /\ terms.spec # NoSpec /\ verdict # "none"
    /\ Criteria \cap Reported("undetermined") = {}
    => /\ phase \in {"completed", "vouched"} <=> SpecHolds(terms.spec, Reported("pass"))
       /\ verdict = "fail" <=> ~SpecHolds(terms.spec, Leaves \ Reported("fail"))

(* What the repository says and the code does not do.                        *)

(* "The candidate must not be the executor" (runner.py, _dispatch_verifier). *)
NobodyVerifiesItsOwnWork == checker # None => checker # worker

(* The block's outcomes reach the specification (tick.py,                    *)
(* _extract_verifier_check_results: the third form): a contract is not held  *)
(* for a machine criterion on which the settled attempt's block has spoken.  *)
BlockReachesTheJudge ==
    phase = "held" /\ reader.block # None =>
        DOMAIN reader.block \cap Criteria \subseteq DOMAIN evidence

(* "The deterministic result goes first: the model's observation must not    *)
(* override evidence a machine can reproduce" (LHGP-SPEC, 12.4): no contract *)
(* is complete whose mandatory check the runtime has found to fail.          *)
DeterministicResultStands ==
    phase \in {"completed", "vouched"} =>
        \A c \in DOMAIN facts :
            terms.checks[c].mandatory => Evaluate(terms.checks[c].kind, facts[c]) # "fail"
=============================================================================
