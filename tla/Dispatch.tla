------------------------------ MODULE Dispatch ------------------------------
(***************************************************************************)
(* The tick that gives contracts to executors: the snapshot it works on,    *)
(* the escalation ladder, the plan gate, the workspace rule, the capacity   *)
(* of executors, blocking and waking, with the users' calls and the plan    *)
(* tools (processes of their own) falling between any two transactions.     *)
(*                                                                          *)
(* An attempt is reduced to the executor its row occupies; how it ends is   *)
(* AttemptLifecycle's business.  Contracts are visited in any order: the    *)
(* urgency that orders them is a matter of time and is chosen anew by every *)
(* tick.                                                                    *)
(***************************************************************************)
EXTENDS Naturals, FiniteSets

CONSTANTS
    Contracts,
    Executors,        \* enabled registry entries that match every contract
    None,
    Cap,              \* limits.max_concurrent_attempts
    Gated,            \* contracts with context.gate = "plan"
    Shared,           \* contracts that declare one and the same workspace
    MaxDispatches,    \* budget.max_dispatches
    Reserved,         \* budget.verification_attempts_reserved
    MaxCalls          \* bound: calls of users and of plan clients

ASSUME ContractsAssumption == Gated \subseteq Contracts /\ Shared \subseteq Contracts
ASSUME CapAssumption == Cap \in Nat \ {0}
ASSUME NobodyAssumption == None \notin Executors
ASSUME OutcomesAssumption == Executors \cap {"plan", "no_executor", "capacity"} = {}
ASSUME BoundsAssumption == MaxDispatches \in Nat /\ Reserved \in Nat /\ MaxCalls \in Nat

VARIABLES
    \* the contracts table
    state,            \* "active", "paused", "blocked" or "ended"
    reason,           \* blocked_reason; "plan" is the gate's NO_EXECUTOR
    revision,
    content,          \* the part of the draft a plan is bound to: check ids and spec
    \* the events table
    verdict,          \* latest plan verdict within the lookback window
    \* leases and attempts tables
    lease,            \* "live", or "none": also once it has expired
    worker,           \* executor of the executor attempt in flight, or None
    checker,          \* executor of the verifier attempt in flight, or None
    used,             \* executor rows
    checks,           \* verifier rows
    \* the tick
    at,               \* "idle", "wake", "woken", "turn" or "commit"
    todo,             \* contracts this phase has still to visit
    snap,             \* the contracts as list_contracts returned them
    pending,          \* the contract being dispatched and what was decided
    \* the plan client of each contract, between two of its transactions
    client,
    \* history
    calls,            \* calls so far
    planned           \* contents some recorded approval was given for

table == <<state, reason, revision, content>>
attempts == <<lease, worker, checker, used, checks>>
tick == <<at, todo, snap, pending>>
history == <<calls, planned>>
vars == <<state, reason, revision, content, verdict,
          lease, worker, checker, used, checks,
          at, todo, snap, pending, client, calls, planned>>

Contents == {0, 1}

NoVerdict == [kind |-> "none", revision |-> 0, content |-> 0]
IdleClient == [step |-> "idle", revision |-> 0, content |-> 0]
Nothing == [contract |-> None, outcome |-> None]

(* What list_contracts returns for c. Outside the tick nothing is kept. *)
View(c) == [state |-> state[c], revision |-> revision[c], content |-> content[c]]
NoView == [state |-> "ended", revision |-> 0, content |-> 0]
NoSnapshot == [c \in Contracts |-> NoView]

TypeOK ==
    /\ state \in [Contracts -> {"active", "paused", "blocked", "ended"}]
    /\ reason \in [Contracts -> {"none", "plan", "no_executor", "capacity", "need_user"}]
    /\ revision \in [Contracts -> Nat]
    /\ content \in [Contracts -> Contents]
    /\ verdict \in [Contracts -> [kind : {"none", "approved", "rejected"},
                                  revision : Nat, content : Contents]]
    /\ lease \in [Contracts -> {"none", "live"}]
    /\ worker \in [Contracts -> Executors \union {None}]
    /\ checker \in [Contracts -> Executors \union {None}]
    /\ used \in [Contracts -> 0..MaxDispatches]
    /\ checks \in [Contracts -> 0..Reserved]
    /\ at \in {"idle", "wake", "woken", "turn", "commit"}
    /\ todo \subseteq Contracts
    /\ snap \in [Contracts -> [state : {"active", "paused", "blocked", "ended"},
                               revision : Nat, content : Contents]]
    /\ pending \in [contract : Contracts \union {None},
                    outcome : Executors \union {"plan", "no_executor", "capacity", None}]
    /\ client \in [Contracts -> [step : {"idle", "submit", "wake"},
                                 revision : Nat, content : Contents]]
    /\ calls \in 0..MaxCalls
    /\ planned \in [Contracts -> SUBSET Contents]
    /\ \A c \in Contracts : reason[c] # "none" <=> state[c] = "blocked"

Init ==
    /\ state = [c \in Contracts |-> "active"]
    /\ reason = [c \in Contracts |-> "none"]
    /\ revision = [c \in Contracts |-> 1]
    /\ content = [c \in Contracts |-> 0]
    /\ verdict = [c \in Contracts |-> NoVerdict]
    /\ lease = [c \in Contracts |-> "none"]
    /\ worker = [c \in Contracts |-> None]
    /\ checker = [c \in Contracts |-> None]
    /\ used = [c \in Contracts |-> 0]
    /\ checks = [c \in Contracts |-> 0]
    /\ at = "idle"
    /\ todo = {}
    /\ snap = NoSnapshot
    /\ pending = Nothing
    /\ client = [c \in Contracts |-> IdleClient]
    /\ calls = 0
    /\ planned = [c \in Contracts |-> {}]

-----------------------------------------------------------------------------
(* Writers of the contracts table.                                          *)

Legal(from, to) ==
    \/ from = to
    \/ from = "active" /\ to \in {"paused", "blocked", "ended"}
    \/ from = "paused" /\ to \in {"active", "ended"}
    \/ from = "blocked" /\ to \in {"active", "ended"}

(* Every write that raises the revision stamps the approvals with it. *)
Restamped(c) ==
    IF verdict[c].kind = "approved"
    THEN [verdict[c] EXCEPT !.revision = revision[c] + 1]
    ELSE verdict[c]

(* update_contract_state, and what patch_contract has in common with it *)
Write(c, s, why) ==
    /\ state' = [state EXCEPT ![c] = s]
    /\ reason' = [reason EXCEPT ![c] = why]
    /\ revision' = [revision EXCEPT ![c] = @ + 1]
    /\ verdict' = [verdict EXCEPT ![c] = Restamped(c)]

\* Mutant: the bookkeeping writes forget blocked_reason
MarkStateOnly(c, s, why) ==
    /\ state' = [state EXCEPT ![c] = s]
    /\ UNCHANGED <<reason, revision, verdict>>

(* The bookkeeping writes: no revision, and none of its consequences. *)
Mark(c, s, why) ==
    /\ state' = [state EXCEPT ![c] = s]
    /\ reason' = [reason EXCEPT ![c] = why]
    /\ UNCHANGED <<revision, verdict>>

-----------------------------------------------------------------------------
(* Users.                                                                   *)

Call == calls < MaxCalls /\ calls' = calls + 1 /\ UNCHANGED planned

Pause(c) ==
    /\ Call
    /\ state[c] = "active"
    /\ Write(c, "paused", "none")
    /\ UNCHANGED <<content, attempts, tick, client>>

Resume(c) ==
    /\ Call
    /\ state[c] \in {"paused", "blocked"}
    /\ Write(c, "active", "none")
    /\ UNCHANGED <<content, attempts, tick, client>>

Cancel(c) ==
    /\ Call
    /\ state[c] # "ended"
    /\ Write(c, "ended", "none")
    /\ UNCHANGED <<content, attempts, tick, client>>

(* patch_contract: the approval is stamped with the new revision whatever   *)
(* the patch changed. Only of a gated contract does the content matter.     *)
Patch(c) ==
    /\ Call
    /\ state[c] # "ended"
    /\ Write(c, state[c], reason[c])
    /\ \E new \in Contents :
          /\ c \notin Gated => new = content[c]
          /\ content' = [content EXCEPT ![c] = new]
    /\ UNCHANGED <<attempts, tick, client>>

-----------------------------------------------------------------------------
(* lhgp_submit_plan and lhgp_plan_signoff: the contract is read, the        *)
(* verdict appended, and, if it is an approval, the contract woken, in      *)
(* three transactions of the client's process.                              *)

SubmitPlan(c) ==
    /\ Call
    /\ c \in Gated
    /\ client[c].step = "idle"
    /\ client' = [client EXCEPT ![c] = [step |-> "submit", revision |-> revision[c],
                                        content |-> content[c]]]
    /\ UNCHANGED <<table, verdict, attempts, tick>>

ApprovePlan(c) ==
    /\ client[c].step = "submit"
    /\ verdict' = [verdict EXCEPT ![c] = [kind |-> "approved", revision |-> client[c].revision,
                                          content |-> client[c].content]]
    /\ planned' = [planned EXCEPT ![c] = @ \union {client[c].content}]
    /\ client' = [client EXCEPT ![c] = [IdleClient EXCEPT !.step = "wake"]]
    /\ UNCHANGED <<table, attempts, tick, calls>>

(* Refused by Plan.validate, or left to a sign-off. *)
RejectPlan(c) ==
    /\ client[c].step = "submit"
    /\ verdict' = [verdict EXCEPT ![c] = [kind |-> "rejected", revision |-> 0, content |-> 0]]
    /\ client' = [client EXCEPT ![c] = IdleClient]
    /\ UNCHANGED <<table, attempts, tick, history>>

\* Mutant: the wake-up raises the revision, but stamps nothing
WakeAfterApprovalBumps(c) ==
    /\ client[c].step = "wake"
    /\ client' = [client EXCEPT ![c] = IdleClient]
    /\ IF state[c] = "blocked" /\ reason[c] \in {"plan", "no_executor"}
       THEN /\ state' = [state EXCEPT ![c] = "active"]
            /\ reason' = [reason EXCEPT ![c] = "none"]
            /\ revision' = [revision EXCEPT ![c] = @ + 1]
            /\ UNCHANGED verdict
       ELSE UNCHANGED <<state, reason, revision, verdict>>
    /\ UNCHANGED <<content, attempts, tick, history>>

(* wake_blocked_after_plan_approval *)
WakeAfterApproval(c) ==
    /\ client[c].step = "wake"
    /\ client' = [client EXCEPT ![c] = IdleClient]
    /\ IF state[c] = "blocked" /\ reason[c] \in {"plan", "no_executor"}
       THEN Mark(c, "active", "none")
       ELSE UNCHANGED <<state, reason, revision, verdict>>
    /\ UNCHANGED <<content, attempts, tick, history>>

(* The verdict drops out of PLAN_GATE_LOOKBACK_SECONDS. A tick has one now. *)
VerdictAges(c) ==
    /\ at = "idle"
    /\ verdict[c].kind # "none"
    /\ verdict' = [verdict EXCEPT ![c] = NoVerdict]
    /\ UNCHANGED <<table, attempts, tick, client, history>>

-----------------------------------------------------------------------------
(* Attempts, between two ticks.                                             *)

Idle(c) == worker[c] = None /\ checker[c] = None

Count(x) ==
    Cardinality({c \in Contracts : worker[c] = x}) + Cardinality({c \in Contracts : checker[c] = x})

\* Mutant: an executor is taken for full one attempt too early
HasRoomBelow(x) == Count(x) + 1 < Cap

\* Mutant: only executor attempts count against the limit
HasRoomForWorkers(x) == Cardinality({c \in Contracts : worker[c] = x}) < Cap

HasRoom(x) == Count(x) < Cap

(* Settled, or orphaned: then the lease is held for the grace. *)
AttemptEnds(c) ==
    /\ at = "idle"
    /\ ~Idle(c)
    /\ worker' = [worker EXCEPT ![c] = None]
    /\ checker' = [checker EXCEPT ![c] = None]
    /\ \E l \in {"none", "live"} : lease' = [lease EXCEPT ![c] = l]
    /\ UNCHANGED <<table, verdict, used, checks, tick, client, history>>

GraceEnds(c) ==
    /\ at = "idle"
    /\ Idle(c) /\ lease[c] = "live"
    /\ lease' = [lease EXCEPT ![c] = "none"]
    /\ UNCHANGED <<table, verdict, worker, checker, used, checks, tick, client, history>>

(* _dispatch_verifier, from poll or on a user's request *)
VerifierStarts(c, x) ==
    /\ at = "idle"
    /\ state[c] = "active"
    /\ Idle(c) /\ checks[c] < Reserved /\ used[c] > 0
    /\ HasRoom(x)
    /\ checker' = [checker EXCEPT ![c] = x]
    /\ checks' = [checks EXCEPT ![c] = @ + 1]
    /\ lease' = [lease EXCEPT ![c] = "live"]
    /\ UNCHANGED <<table, verdict, worker, used, tick, client, history>>

-----------------------------------------------------------------------------
(* The tick.                                                                *)

BeginTick ==
    /\ at = "idle"
    /\ at' = "wake"
    /\ snap' = [c \in Contracts |-> View(c)]
    /\ todo' = {c \in Contracts : state[c] = "blocked" /\ reason[c] = "capacity"}
    /\ UNCHANGED <<table, verdict, attempts, pending, client, history>>

(* wake_blocked_capacity_full: it reads the contract anew *)
WakeForCapacity(c) ==
    /\ at \in {"wake", "woken"}
    /\ c \in todo
    /\ todo' = todo \ {c}
    /\ IF /\ state[c] = "blocked" /\ reason[c] = "capacity"
          /\ \E x \in Executors : HasRoom(x)
       THEN Mark(c, "active", "none") /\ at' = "woken"
       ELSE UNCHANGED <<state, reason, revision, verdict, at>>
    /\ UNCHANGED <<content, attempts, snap, pending, client, history>>

(* If a contract was woken, all of them are read again. *)
BeginTurns ==
    /\ at \in {"wake", "woken"} /\ todo = {}
    /\ at' = "turn"
    /\ todo' = Contracts
    /\ snap' = IF at = "woken" THEN [c \in Contracts |-> View(c)] ELSE snap
    /\ UNCHANGED <<table, verdict, attempts, pending, client, history>>

(* escalation.decide; tiers are named, "past" is a missed deadline *)
Decide(tier, alive, left, paid) ==
    CASE tier = "past"                      -> "none"
      [] tier # "past" /\ alive             -> IF tier = "queued" THEN "queued" ELSE "remind"
      [] tier # "past" /\ ~alive /\ ~paid   -> "hand"
      [] tier \in {"queued", "remind"} /\ ~alive /\ paid -> tier
      [] OTHER                              -> IF left < 1 THEN "hand" ELSE "respawn"

Tiers == {"past", "queued", "remind", "steer", "respawn"}

Decision(c, tier, paid) == Decide(tier, lease[c] = "live", MaxDispatches - used[c], paid)

(* _workspace_holder_other_than: paused and ended contracts are not asked. *)
WorkspaceBusy(c) ==
    \E d \in Contracts \ {c} :
        /\ {c, d} \subseteq Shared
        /\ state[d] \in {"active", "blocked"}
        /\ lease[d] = "live"

\* Mutant: the gate looks at the stamped revision only
ApprovedRevision(c) ==
    /\ verdict[c].kind = "approved"
    /\ verdict[c].revision = snap[c].revision

(* _has_recent_plan_approval: asked of the snapshot, answered by the log *)
Approved(c) ==
    /\ verdict[c].kind = "approved"
    /\ verdict[c].revision = snap[c].revision
    /\ verdict[c].content = snap[c].content

(* What the turn of a contract to be dispatched comes to. *)
Outcomes(c) ==
    LET room == {x \in Executors : HasRoom(x)}
    IN  IF room = {} THEN {"capacity"}
        ELSE IF c \in Gated /\ ~Approved(c) THEN {"plan"}
        ELSE room \union {"no_executor"}

(* The end of c's turn. *)
Done(c) ==
    /\ at' = "turn"
    /\ todo' = todo \ {c}
    /\ snap' = [snap EXCEPT ![c] = NoView]

Turn(c) == at = "turn" /\ c \in todo /\ Done(c)

(* A deadline that has passed; an illegal write is caught here. *)
TurnExpires(c) ==
    /\ Turn(c)
    /\ snap[c].state # "ended" /\ state[c] \in {"active", "blocked"}
    /\ Write(c, "ended", "none")
    /\ UNCHANGED <<content, attempts, pending, client, history>>

(* Not active in the snapshot, a live lease, no urgency, outside the        *)
(* dispatch window, the workspace in use: nothing is written but events and *)
(* the decision point.                                                      *)
TurnPasses(c) ==
    /\ Turn(c)
    /\ UNCHANGED <<table, verdict, attempts, pending, client, history>>

(* update_contract_state raises on a transition that has become illegal,    *)
(* and nothing catches it: the daemon ends, and is started again.           *)
BlockOrDie(c, why) ==
    IF Legal(state[c], "blocked")
    THEN Write(c, "blocked", why) /\ Done(c)
    ELSE /\ at' = "idle" /\ todo' = {} /\ snap' = NoSnapshot
         /\ UNCHANGED <<state, reason, revision, verdict>>

TurnHands(c) ==
    /\ at = "turn" /\ c \in todo
    /\ snap[c].state = "active"
    /\ \E tier \in Tiers, paid \in BOOLEAN : Decision(c, tier, paid) = "hand"
    /\ BlockOrDie(c, "need_user")
    /\ UNCHANGED <<content, attempts, pending, client, history>>

TurnDispatches(c) ==
    /\ at = "turn" /\ c \in todo
    /\ snap[c].state = "active"
    /\ \E tier \in Tiers, paid \in BOOLEAN : Decision(c, tier, paid) = "respawn"
    /\ ~WorkspaceBusy(c)
    /\ \E o \in Outcomes(c) : pending' = [contract |-> c, outcome |-> o]
    /\ at' = "commit"
    /\ UNCHANGED <<table, verdict, attempts, todo, snap, client, history>>

Pending(c) == at = "commit" /\ pending.contract = c /\ pending' = Nothing

(* Lease and row. Neither asks for the contract's state. *)
CommitDispatch(c) ==
    /\ Pending(c)
    /\ pending.outcome \in Executors
    /\ worker' = [worker EXCEPT ![c] = pending.outcome]
    /\ lease' = [lease EXCEPT ![c] = "live"]
    /\ used' = [used EXCEPT ![c] = @ + 1]
    /\ Done(c)
    /\ UNCHANGED <<table, verdict, checker, checks, client, history>>

(* mark_blocked_capacity_full *)
CommitCapacity(c) ==
    /\ Pending(c)
    /\ pending.outcome = "capacity"
    /\ IF state[c] = "active"
       THEN Mark(c, "blocked", "capacity")
       ELSE UNCHANGED <<state, reason, revision, verdict>>
    /\ Done(c)
    /\ UNCHANGED <<content, attempts, client, history>>

CommitBlocked(c) ==
    /\ Pending(c)
    /\ pending.outcome \in {"plan", "no_executor"}
    /\ BlockOrDie(c, pending.outcome)
    /\ UNCHANGED <<content, attempts, client, history>>

EndTick ==
    /\ at = "turn" /\ todo = {}
    /\ at' = "idle"
    /\ snap' = NoSnapshot
    /\ UNCHANGED <<table, verdict, attempts, todo, pending, client, history>>

-----------------------------------------------------------------------------
Users(c) == Pause(c) \/ Resume(c) \/ Cancel(c) \/ Patch(c)

PlanTools(c) == SubmitPlan(c) \/ ApprovePlan(c) \/ RejectPlan(c) \/ WakeAfterApproval(c)

Runner(c) == AttemptEnds(c) \/ GraceEnds(c) \/ \E x \in Executors : VerifierStarts(c, x)

Tick ==
    \/ BeginTick \/ BeginTurns \/ EndTick
    \/ \E c \in Contracts :
          \/ WakeForCapacity(c)
          \/ TurnExpires(c) \/ TurnPasses(c) \/ TurnHands(c) \/ TurnDispatches(c)
          \/ CommitDispatch(c) \/ CommitCapacity(c) \/ CommitBlocked(c)

Next == Tick \/ \E c \in Contracts : Users(c) \/ PlanTools(c) \/ Runner(c) \/ VerdictAges(c)

Spec == Init /\ [][Next]_vars

(* The daemon ticks, and is started again when it has died; an attempt      *)
(* reaches its time limit and an orphan the end of its grace.               *)
Fairness ==
    /\ WF_vars(Tick)
    /\ \A c \in Contracts : SF_vars(AttemptEnds(c)) /\ SF_vars(GraceEnds(c))

FairSpec == Spec /\ Fairness

-----------------------------------------------------------------------------
(* Properties *)

(* max_concurrent_attempts: executor rows admitted earlier in the same tick *)
(* and the verifiers started by the runner count, so that no interleaving   *)
(* of contracts puts more attempts on an executor than it takes.            *)
CapacityHolds == \A x \in Executors : Count(x) <= Cap

(* The plan gate: though every write of the contract carries the approval   *)
(* on to the new revision, an attempt of a gated contract is only ever      *)
(* admitted for a content that some approved plan was submitted for.        *)
AdmittedContentWasPlanned ==
    [][\A c \in Gated : used'[c] > used[c] => snap[c].content \in planned[c]]_vars

(* No life-cycle or bookkeeping write of anybody voids an approval, the     *)
(* wake-up of the very client that brought it included: as long as the      *)
(* content stays and neither a new verdict comes nor this one ages, an      *)
(* approval that binds the current revision goes on to bind it.             *)
Binds(c) ==
    /\ verdict[c].kind = "approved"
    /\ verdict[c].revision = revision[c]
    /\ verdict[c].content = content[c]

NewVerdict(c) == client[c].step = "submit" /\ client'[c].step # "submit"

ApprovalOutlivesBookkeeping ==
    [][\A c \in Gated :
          Binds(c) /\ content'[c] = content[c] /\ verdict'[c].kind = "approved" /\ ~NewVerdict(c)
          => Binds(c)']_vars

(* A contract blocked because every executor was busy does not stay so: it  *)
(* is woken once there is room, whatever the other contracts do.            *)
WaitsForCapacity(c) == state[c] = "blocked" /\ reason[c] = "capacity"

CapacityIsAwaited == \A c \in Contracts : WaitsForCapacity(c) ~> ~WaitsForCapacity(c)
=============================================================================
