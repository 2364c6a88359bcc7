------------------------- MODULE ContractAcceptance -------------------------
(***************************************************************************)
(* One contract from draft to acceptance: its row (lifecycle state,        *)
(* revision, acceptance axis), its immutable revision snapshots, and the   *)
(* verdicts of its verifiers, with everybody who writes them:              *)
(*                                                                         *)
(*   - the daemon (cli/tick.py, cli/runner.py) judges verdicts, expires,   *)
(*     hands over to the user and dispatches verifiers, always on a        *)
(*     snapshot taken in an earlier transaction;                           *)
(*   - RPC handlers (rpc/handlers/contract.py) check a row they read       *)
(*     first and change it in a later transaction;                         *)
(*   - verifiers report through attempt/write-back while they run.         *)
(*                                                                         *)
(* The lease is LeaseStore's subject: here a write-back comes from its     *)
(* holder. "saw" is history: what the verifier was asked to check.         *)
(***************************************************************************)
EXTENDS Integers, Sequences

CONSTANTS
    Contents,     \* acceptance contents a contract can be patched to
    UserJudged,   \* those with a criterion only the user can resolve
    Clients,      \* concurrent RPC handlers
    Reserved,     \* budget.verification_attempts_reserved
    MaxRevision,  \* bound on revisions
    MaxVerdicts,  \* bound on verdicts
    NoContent     \* the fingerprint of evidence that carries none

ASSUME ContentsAssumption == UserJudged \subseteq Contents /\ NoContent \notin Contents
ASSUME BoundsAssumption == /\ Reserved \in Nat
                           /\ MaxRevision \in Nat \ {0}
                           /\ MaxVerdicts \in Nat

VARIABLES
    contract,   \* the row of table contracts
    snapshots,  \* contract_revisions: the acceptance at every revision
    verdicts,   \* terminal verifier events, in log order
    verifier,   \* the verifier in flight; NoVerifier when there is none
    used,       \* terminal rows of verifiers in table attempts
    requested,  \* a verification request waits for the daemon
    overdue,    \* the deadline has passed
    daemon,     \* what the daemon is in the middle of
    rpc         \* per handler: the call between its read and its write

vars == <<contract, snapshots, verdicts, verifier, used, requested, overdue,
          daemon, rpc>>

-----------------------------------------------------------------------------

Terminal == {"complete", "satisfied", "cancelled", "archived"}

States == Terminal \cup {"drafted", "active", "paused", "blocked", "expired"}

LegalTransitions ==
    [s \in States |->
        CASE s = "drafted" -> {"active", "cancelled"}
          [] s = "active"  -> {"paused", "blocked", "satisfied", "complete",
                               "expired", "cancelled"}
          [] s = "paused"  -> {"active", "cancelled"}
          [] s = "blocked" -> {"active", "satisfied", "complete", "archived",
                               "expired", "cancelled"}
          [] s = "expired" -> {"satisfied", "complete", "archived", "active",
                               "cancelled"}
          [] OTHER         -> {}]

\* Mutant: the store trusts its callers.
LegalUnchecked(from, to) == TRUE

\* assert_legal_contract_transition: rewriting the same state is not a transition.
Legal(from, to) == from = to \/ to \in LegalTransitions[from]

AcceptanceStatus == {"pending", "candidate", "passed", "failed"}

Fingerprints == Contents \cup {NoContent}

NoVerifier == [revision |-> 0, saw |-> NoContent]

Idle == [at |-> "idle", revision |-> 0, acceptance |-> "pending", content |-> NoContent]

NoCall == [op |-> "none", to |-> "active", revision |-> 0, content |-> NoContent]

Revisions == 0 .. MaxRevision

Verdicts == [success : BOOLEAN, revision : Revisions, print : Fingerprints,
             saw : Fingerprints]

DaemonStates == [at : {"idle", "dead", "judging", "completing", "holding",
                       "rejecting", "expiring", "blocking", "exhausted",
                       "dispatching"},
                 revision : Revisions, acceptance : AcceptanceStatus,
                 content : Fingerprints]

Calls == [op : {"none", "move", "verify", "patch", "confirm", "confirmed"},
          to : States, revision : Revisions, content : Fingerprints]

TypeOK ==
    /\ contract \in [state : States, revision : 1 .. MaxRevision, content : Contents,
                     acceptance : AcceptanceStatus, missed : BOOLEAN]
    /\ snapshots \in Seq(Contents)
    /\ Len(snapshots) = contract.revision
    /\ verdicts \in Seq(Verdicts)
    /\ verifier \in [revision : Revisions, saw : Fingerprints]
    /\ used \in 0 .. Reserved
    /\ requested \in BOOLEAN
    /\ overdue \in BOOLEAN
    /\ daemon \in DaemonStates
    /\ rpc \in [Clients -> Calls]

Init ==
    /\ contract \in [state : {"drafted"}, revision : {1}, content : Contents,
                     acceptance : {"pending"}, missed : {FALSE}]
    /\ snapshots = <<contract.content>>
    /\ verdicts = <<>>
    /\ verifier = NoVerifier
    /\ used = 0
    /\ requested = FALSE
    /\ overdue = FALSE
    /\ daemon = Idle
    /\ rpc = [c \in Clients |-> NoCall]

\* update_contract_state: every write makes a revision and its snapshot.
Update(to, acceptance, missed) ==
    /\ contract.revision < MaxRevision
    /\ Legal(contract.state, to)
    /\ contract' = [contract EXCEPT !.state = to, !.revision = @ + 1,
                                    !.acceptance = acceptance, !.missed = missed]
    /\ snapshots' = Append(snapshots, contract.content)

\* IllegalStateTransitionError: nothing is written.
Refused(to) ==
    /\ ~Legal(contract.state, to)
    /\ UNCHANGED <<contract, snapshots>>

DeadlinePasses ==
    /\ overdue' = TRUE
    /\ UNCHANGED <<contract, snapshots, verdicts, verifier, used, requested, daemon, rpc>>

-----------------------------------------------------------------------------
(* The daemon judges *)

\* An action of the daemon between two transactions.
DaemonMoves(from, to) ==
    /\ daemon.at = from
    /\ daemon' = to
    /\ UNCHANGED <<contract, snapshots, verdicts, verifier, used, requested, overdue, rpc>>

\* Decided; the write that follows takes nothing from the row it was decided on.
Decided(at) == [Idle EXCEPT !.at = at]

Dead == Decided("dead")

\* The row as the daemon read it, carried to its next transaction.
Snapshot(at) == [at |-> at, revision |-> contract.revision,
                 acceptance |-> contract.acceptance, content |-> contract.content]

JudgeSnapshot ==
    /\ contract.state = "active"
    /\ DaemonMoves("idle", Snapshot("judging"))

\* An event without a revision counts for every revision.
Matches(i, revision) == verdicts[i].revision \in {0, revision}

Latest(i, revision) ==
    /\ i \in DOMAIN verdicts
    /\ Matches(i, revision)
    /\ \A j \in DOMAIN verdicts : j > i => ~Matches(j, revision)

JudgeNothing ==
    /\ \A i \in DOMAIN verdicts : Latest(i, daemon.revision) =>
            verdicts[i].success /\ daemon.acceptance = "passed"
    /\ DaemonMoves("judging", Idle)

\* evaluate_stage_acceptance composes the spec of the snapshot with the checks
\* of the evidence: "pass" needs a spec without user criteria, "pending" and
\* "fail" are open to any.
JudgeSuccess ==
    /\ daemon.acceptance # "passed"
    /\ \E i \in DOMAIN verdicts : Latest(i, daemon.revision) /\ verdicts[i].success
    /\ \E at \in {"completing", "holding", "rejecting"} :
            /\ at = "completing" => daemon.content \notin UserJudged
            /\ DaemonMoves("judging", Decided(at))

JudgeFailure ==
    /\ \E i \in DOMAIN verdicts : Latest(i, daemon.revision) /\ ~verdicts[i].success
    /\ DaemonMoves("judging", Decided("rejecting"))

\* None of the daemon's writes carries the revision it decided on.
DaemonWrites(at, to, acceptance, missed, refused) ==
    /\ daemon.at = at
    /\ \/ Update(to, acceptance, missed) /\ daemon' = Idle
       \/ Refused(to) /\ daemon' = refused
    /\ UNCHANGED <<verdicts, verifier, used, requested, overdue, rpc>>

\* Nothing in run_daemon_loop catches a refused write, so the process ends.
CommitComplete == DaemonWrites("completing", "complete", "passed", overdue, Dead)

CommitReject == DaemonWrites("rejecting", "active", "failed", contract.missed, Dead)

\* _record_spec_pending suppresses the refusal.
CommitHold == DaemonWrites("holding", "active", "candidate", contract.missed, Idle)

JudgeNext == \/ JudgeSnapshot \/ JudgeNothing \/ JudgeSuccess \/ JudgeFailure
             \/ CommitComplete \/ CommitReject \/ CommitHold

-----------------------------------------------------------------------------
(* The rest of the tick *)

ExpireSnapshot ==
    /\ overdue
    /\ contract.state \notin Terminal \cup {"expired"}
    /\ DaemonMoves("idle", Decided("expiring"))

CommitExpire == DaemonWrites("expiring", "expired", contract.acceptance, TRUE, Idle)

\* Escalation ends at the user, or no executor is left.
HandToUser ==
    /\ ~overdue
    /\ contract.state = "active"
    /\ contract.acceptance # "candidate"
    /\ DaemonMoves("idle", Decided("blocking"))

CommitBlocked ==
    DaemonWrites("blocking", "blocked", contract.acceptance, contract.missed, Dead)

\* auto_approve_drafted_contract: read and write are tied by the revision.
AutoApprove ==
    /\ contract.state = "drafted"
    /\ DaemonWrites("idle", "active", contract.acceptance, contract.missed, Idle)

\* Operators start a dead daemon again; attempts survive it.
Restart == DaemonMoves("dead", Idle)

\* Mutant: one verifier too many.
BudgetLeftOffByOne == used <= Reserved

BudgetLeft == used < Reserved

\* After an executor's success or for a request.
DispatchVerifier ==
    /\ contract.state = "active"
    /\ verifier = NoVerifier
    /\ DaemonMoves("idle", IF BudgetLeft THEN Snapshot("dispatching")
                           ELSE Decided("exhausted"))

CommitExhausted ==
    DaemonWrites("exhausted", "blocked", contract.acceptance, contract.missed, Idle)

SpawnVerifier ==
    /\ daemon.at = "dispatching"
    /\ verifier' = [revision |-> daemon.revision, saw |-> daemon.content]
    /\ requested' \in {requested, FALSE}
    /\ daemon' = Idle
    /\ UNCHANGED <<contract, snapshots, verdicts, used, overdue, rpc>>

Report(success, revision, print, saw) ==
    /\ Len(verdicts) < MaxVerdicts
    /\ verdicts' = Append(verdicts, [success |-> success, revision |-> revision,
                                     print |-> IF success THEN print ELSE NoContent,
                                     saw |-> saw])

\* Adapter, prepare or spawn fails before the attempt has a row: the failure
\* is logged without a revision and spends no budget.
SpawnFails ==
    /\ daemon.at = "dispatching"
    /\ Report(FALSE, 0, NoContent, daemon.content)
    /\ daemon' = Idle
    /\ UNCHANGED <<contract, snapshots, verifier, used, requested, overdue, rpc>>

TickNext == \/ ExpireSnapshot \/ CommitExpire \/ HandToUser \/ CommitBlocked
            \/ AutoApprove \/ Restart \/ DispatchVerifier \/ CommitExhausted
            \/ SpawnVerifier \/ SpawnFails

-----------------------------------------------------------------------------
(* Verifiers *)

\* Mutant: evidence is bound to the live row.
FingerprintOfLiveRow(revision) == contract.content

\* attempt_evidence_binding: the acceptance of the revision the attempt was
\* admitted at, whatever the contract says now.
Fingerprint(revision) == snapshots[revision]

\* A write-back may name the contract's new state, without a revision; only a
\* verifier may name a completion.
NamesState(to) ==
    /\ contract.state # "drafted"
    /\ to \in {"complete", "satisfied"} => verifier # NoVerifier
    /\ Update(to, contract.acceptance, contract.missed)

\* attempt/write-back of a verifier: the event carries no revision, the same
\* transaction may set the contract's state, and the attempt goes on.
VerifierWriteBack(success) ==
    /\ verifier # NoVerifier
    /\ Report(success, 0, Fingerprint(verifier.revision), verifier.saw)
    /\ \/ UNCHANGED <<contract, snapshots>>
       \/ \E to \in States : NamesState(to)
    /\ UNCHANGED <<verifier, used, requested, overdue, daemon, rpc>>

\* The attempt's row becomes terminal.
Settle ==
    /\ verifier # NoVerifier
    /\ daemon.at = "idle"
    /\ verifier' = NoVerifier
    /\ used' = used + 1
    /\ UNCHANGED <<contract, snapshots, requested, overdue, daemon, rpc>>

\* _finish_attempt, and reconcile for a run that ended while no daemon watched.
FinishVerifier(success) ==
    /\ Settle
    /\ Report(success, verifier.revision, Fingerprint(verifier.revision), verifier.saw)

\* Timed out and cancelled.
FailVerifier == Settle /\ Report(FALSE, 0, NoContent, verifier.saw)

\* Interrupted, stale or orphaned: no verdict.
LoseVerifier == Settle /\ UNCHANGED verdicts

\* A write-back that names a state and reports no verdict.
AttemptSetsState(to) ==
    /\ NamesState(to)
    /\ UNCHANGED <<verdicts, verifier, used, requested, overdue, daemon, rpc>>

AttemptNext ==
    \/ \E success \in BOOLEAN : VerifierWriteBack(success) \/ FinishVerifier(success)
    \/ FailVerifier \/ LoseVerifier
    \/ \E to \in States : AttemptSetsState(to)

-----------------------------------------------------------------------------
(* RPC handlers: the read and its checks *)

Call(c, call) ==
    /\ rpc[c] = NoCall
    /\ rpc' = [rpc EXCEPT ![c] = call]
    /\ UNCHANGED <<contract, snapshots, verdicts, verifier, used, requested, overdue, daemon>>

Move(op, to) == [NoCall EXCEPT !.op = op, !.to = to]

CallApprove(c) == contract.state = "drafted" /\ Call(c, Move("move", "active"))

CallPause(c) == contract.state = "active" /\ Call(c, Move("move", "paused"))

CallResume(c) ==
    contract.state \in {"paused", "blocked"} /\ Call(c, Move("move", "active"))

CallCancel(c) ==
    contract.state \notin Terminal /\ Call(c, Move("move", "cancelled"))

CallArbitrate(c) ==
    /\ contract.state \in {"expired", "blocked"}
    /\ \E to \in {"complete", "archived", "active"} : Call(c, Move("move", to))

\* expected_revision is mandatory and one that the client has been shown; an
\* older one than the current is refused anyway.
CallPatch(c) ==
    /\ contract.state \notin Terminal
    /\ \E content \in Contents :
            Call(c, [NoCall EXCEPT !.op = "patch", !.revision = contract.revision,
                                   !.content = content])

CallConfirm(c) ==
    /\ contract.acceptance = "candidate"
    /\ Call(c, [NoCall EXCEPT !.op = "confirm", !.revision = contract.revision])

\* _latest_verifier_evidence reads the contract again. Without any verifier
\* success on record the handler invents a stub; with only foreign evidence
\* it refuses.
CheckEvidence(c) ==
    LET passes == {i \in DOMAIN verdicts : verdicts[i].success}
        accepted == \/ passes = {}
                    \/ \E i \in passes : verdicts[i].print = contract.content
    IN  /\ rpc[c].op = "confirm"
        /\ rpc' = [rpc EXCEPT ![c] = IF accepted THEN [@ EXCEPT !.op = "confirmed"]
                                     ELSE NoCall]
        /\ UNCHANGED <<contract, snapshots, verdicts, verifier, used, requested, overdue, daemon>>

MayRequest ==
    contract.state \notin Terminal /\ ~requested /\ verifier = NoVerifier /\ BudgetLeft

\* A blocked contract is made active by a later transaction.
CallVerify(c) ==
    MayRequest /\ contract.state = "blocked" /\ Call(c, Move("verify", "active"))

RequestVerification ==
    /\ MayRequest
    /\ contract.state # "blocked"
    /\ requested' = TRUE
    /\ UNCHANGED <<contract, snapshots, verdicts, verifier, used, overdue, daemon, rpc>>

-----------------------------------------------------------------------------
(* RPC handlers: the write *)

Answered(c) ==
    /\ rpc' = [rpc EXCEPT ![c] = NoCall]
    /\ UNCHANGED <<verdicts, verifier, used, overdue, daemon>>

\* expected_revision is the client's and optional: with an old one the move is
\* refused in any state, without one it is refused only when it is illegal.
CommitMove(c) ==
    /\ rpc[c].op = "move"
    /\ \/ Update(rpc[c].to, contract.acceptance, contract.missed)
       \/ UNCHANGED <<contract, snapshots>>
    /\ Answered(c)
    /\ UNCHANGED requested

CommitVerify(c) ==
    /\ rpc[c].op = "verify"
    /\ \/ /\ Update("active", contract.acceptance, contract.missed)
          /\ requested' = TRUE
       \/ Refused("active") /\ UNCHANGED requested
    /\ Answered(c)

\* Mutant: the write does not compare the revision.
CurrentUnchecked(c) == TRUE

\* The revision CAS of patch_contract and update_contract_state.
Current(c) == rpc[c].revision = contract.revision

\* patch_contract looks at no state: only its caller and the CAS do.
CommitPatch(c) ==
    /\ rpc[c].op = "patch"
    /\ IF Current(c)
       THEN /\ contract.revision < MaxRevision
            /\ contract' = [contract EXCEPT !.content = rpc[c].content,
                                            !.revision = @ + 1]
            /\ snapshots' = Append(snapshots, rpc[c].content)
       ELSE UNCHANGED <<contract, snapshots>>
    /\ Answered(c)
    /\ UNCHANGED requested

CommitConfirm(c) ==
    /\ rpc[c].op = "confirmed"
    /\ \/ Current(c) /\ Update("complete", "passed", overdue)
       \/ /\ ~Current(c) \/ ~Legal(contract.state, "complete")
          /\ UNCHANGED <<contract, snapshots>>
    /\ Answered(c)
    /\ UNCHANGED requested

RpcNext(c) ==
    \/ CallApprove(c) \/ CallPause(c) \/ CallResume(c) \/ CallCancel(c)
    \/ CallArbitrate(c) \/ CallPatch(c) \/ CallVerify(c)
    \/ CallConfirm(c) \/ CheckEvidence(c)
    \/ CommitMove(c) \/ CommitVerify(c) \/ CommitPatch(c) \/ CommitConfirm(c)

Next ==
    \/ DeadlinePasses \/ JudgeNext \/ TickNext \/ AttemptNext
    \/ RequestVerification
    \/ \E c \in Clients : RpcNext(c)

Spec == Init /\ [][Next]_vars

-----------------------------------------------------------------------------
(* Properties *)

Verified(content) ==
    \E i \in DOMAIN verdicts : verdicts[i].success /\ verdicts[i].saw = content

\* A user's confirmation completes a contract only with the acceptance content
\* that some verifier was given and passed, however many patches, pauses and
\* daemon writes fall between the handler's three transactions.
ConfirmedContentWasVerified ==
    [][\A c \in Clients : CommitConfirm(c) /\ contract' # contract
            => Verified(contract.content)]_vars

\* A terminal contract keeps its state and its acceptance content, although the
\* daemon writes with stale snapshots and no revision, and patch_contract does
\* not look at the state.
TerminalIsFinal ==
    [][contract.state \in Terminal =>
            /\ contract'.state = contract.state
            /\ contract'.content = contract.content]_vars

\* Evidence names the content the verifier was given, even when the contract
\* was patched, expired or completed while it ran.
EvidenceNamesWhatWasChecked ==
    \A i \in DOMAIN verdicts :
        verdicts[i].success => verdicts[i].print = verdicts[i].saw

\* The reserved verification attempts are never overrun, the one in flight
\* included, by requests, repairs and restarts together.
VerifierBudget ==
    used + (IF verifier = NoVerifier THEN 0 ELSE 1) <= Reserved
=============================================================================
