------------------------------- MODULE Goals --------------------------------
(***************************************************************************)
(* A goal with its ordered stages, the contracts bound to them, and the     *)
(* grant under which the daemon promotes drafted contracts by itself.       *)
(*                                                                          *)
(* The goal row is written by compare-and-swap on its revision, from        *)
(* several transactions of several processes: the daemon finishing a        *)
(* contract (complete, advance the goal, prepare the next stage's contract, *)
(* bind it, promote it), a model client preparing and advancing stages,     *)
(* the user writing a plan, confirming, signing off.  The daemon may crash  *)
(* between any two of its transactions.                                     *)
(*                                                                          *)
(* Amendments of the goal are dated in the order they are written; a plan's *)
(* verdict is dated before the grant it is checked against is read.         *)
(***************************************************************************)
EXTENDS Naturals, FiniteSets

CONSTANTS
    N,              \* the plan's stages are 1..N
    Contracts,      \* identities contracts can get
    Actions,        \* what a step of a plan, a claim or a grant may name
    Scopes,         \* sets of actions that plans take and clients claim
    Grants,         \* plan.pre_authorized values the user sets
    None,
    MaxUpdates,     \* bound: goal/update calls
    MaxRevision     \* bound: a satisfied goal is not advanced beyond it

Stages == 1..N

ASSUME StagesAssumption == N \in Nat \ {0}
ASSUME NoneAssumption == None \notin Contracts
ASSUME BoundAssumption == MaxUpdates \in Nat /\ MaxRevision \in Nat
ASSUME ScopesAssumption == Scopes \subseteq (SUBSET Actions) \ {{}}
ASSUME GrantsAssumption ==
    /\ Grants \subseteq [enabled : BOOLEAN, actions : SUBSET Actions, wildcard : BOOLEAN]
    /\ None \notin Grants

VARIABLES
    \* the goals row: revision, plan.stages[].contract_id, plan.pre_authorized,
    \* progress.completed and progress.current
    goal,
    trail,          \* does the newest goal/amended event carry a plan?
    \* the contracts of the goal: "free" is an identity not given yet
    state,
    claim,          \* draft.auto_approve.actions; empty: not enabled
    \* latest plan verdict of a contract within PLAN_OVERRIDE_LOOKBACK_SECONDS,
    \* with the grant the amendments give for its date, None if they give none;
    \* "exact" is history: was the plan checked against that very grant?
    approval,
    \* what each process is in the middle of
    op,
    \* how many goal/update calls there have been
    updates

vars == <<goal, trail, state, claim, approval, op, updates>>

Processes == {"daemon", "client"}

NoApproval == [kind |-> "none", actions |-> {}, asof |-> None, exact |-> TRUE]
Idle == [step |-> "idle", contract |-> None, stage |-> 0, seen |-> None]

States == {"free", "drafted", "active", "complete", "cancelled"}

Goal == [revision : Nat, bound : [Stages -> Contracts \union {None}],
         grant : Grants, completed : SUBSET Stages, current : {0} \union Stages]

(* The columns of the row a later step goes by. *)
ProgressOf(g) == [revision |-> g.revision, completed |-> g.completed]
PlanOf(g) == [revision |-> g.revision, bound |-> g.bound, grant |-> g.grant]

(* A rejected plan supersedes an approved one and is itself good for        *)
(* nothing: it is no approval.                                              *)
Approvals == [kind : {"none", "approved", "signed"},
              actions : SUBSET Actions, asof : Grants \union {None}, exact : BOOLEAN]

Steps == {"idle", "advance", "write", "next", "prepare", "bind", "approve", "promote",
          "check", "record"}

TypeOK ==
    /\ goal \in Goal
    /\ trail \in BOOLEAN
    /\ state \in [Contracts -> States]
    /\ claim \in [Contracts -> SUBSET Actions]
    /\ approval \in [Contracts -> Approvals]
    /\ \A p \in Processes :
          /\ op[p].step \in Steps
          /\ op[p].contract \in Contracts \union {None}
          /\ op[p].stage \in {0} \union Stages
          /\ op[p].step \in {"write", "bind"} => op[p].seen.revision <= goal.revision
    /\ \A s \in Stages : goal.bound[s] # None => state[goal.bound[s]] # "free"
    /\ updates \in 0..MaxUpdates

Init ==
    /\ goal \in [revision : {2}, bound : {[s \in Stages |-> None]}, grant : Grants,
                 completed : {{}}, current : {0}]
    /\ trail = TRUE
    /\ state = [c \in Contracts |-> "free"]
    /\ claim = [c \in Contracts |-> {}]
    /\ approval = [c \in Contracts |-> NoApproval]
    /\ op = [p \in Processes |-> Idle]
    /\ updates = 0

-----------------------------------------------------------------------------
(* The goal row.                                                            *)

(* patch_goal's compare-and-swap: nobody has written since the read *)
Unchanged(seen) == goal.revision = seen.revision

Uncompleted(g) == Stages \ g.completed

First(S) == IF S = {} THEN 0 ELSE CHOOSE s \in S : \A t \in S : s <= t

(* progress.current, or the first stage that is not completed *)
CurrentStage(g) ==
    IF g.current # 0 THEN g.current
    ELSE IF Uncompleted(g) # {} THEN First(Uncompleted(g)) ELSE 1

(* advance_progress, written back: only progress, plan and grant stay as    *)
(* they are in the row                                                      *)
Completing(g, progress, s) ==
    LET done == progress.completed \union {s}
    IN  [g EXCEPT !.revision = @ + 1, !.completed = done, !.current = First(Stages \ done)]

(* The whole plan is written as it was read, but for one binding. *)
Binding(g, plan, s, c) ==
    [g EXCEPT !.revision = @ + 1, !.bound = [plan.bound EXCEPT ![s] = c], !.grant = plan.grant]

StageOf(g, c) == First({s \in Stages : g.bound[s] = c})

(* Every write of the row appends a goal/amended event with the whole plan. *)
Patch(g) == goal' = g /\ trail' = (trail \/ g # goal)

Free == {c \in Contracts : state[c] = "free"}

-----------------------------------------------------------------------------
(* Who may promote a drafted contract.                                      *)

Covers(grant, wanted) == wanted \subseteq grant.actions

\* Mutant: an approval survives every later edit of the grant
StillCoversAnything(before, now) == TRUE

(* _grant_still_covers *)
StillCovers(before, now) ==
    IF before.wildcard THEN now.wildcard
    ELSE now.wildcard \/ before.actions \subseteq now.actions

(* _has_recent_plan_approval_for_goal: a grant that cannot be told is no    *)
(* objection                                                                *)
PlanVerified(verdict, grant) ==
    /\ grant.actions # {}
    /\ verdict.kind \in {"approved", "signed"}
    /\ verdict.asof # None => StillCovers(verdict.asof, grant)

(* _goal_pre_authorizes_contract *)
PreAuthorized(wanted, verdict, grant) ==
    /\ grant.enabled
    /\ grant.actions # {} \/ grant.wildcard
    /\ IF wanted = {} THEN grant.wildcard \/ PlanVerified(verdict, grant)
                      ELSE Covers(grant, wanted)

-----------------------------------------------------------------------------
(* The daemon finishes a contract.                                          *)

Daemon(step) == op["daemon"].step = step
Client(step) == op["client"].step = step
Goes(p, to) == op' = [op EXCEPT ![p] = to]

(* _judge_verifier_outcomes *)
DaemonCompletes(c) ==
    /\ Daemon("idle")
    /\ state[c] = "active"
    /\ state' = [state EXCEPT ![c] = "complete"]
    /\ Goes("daemon", [Idle EXCEPT !.step = "advance", !.contract = c])
    /\ UNCHANGED <<goal, trail, claim, approval, updates>>

(* advance_goal_after_verified_contract, up to its compare-and-swap *)
DaemonReads ==
    /\ Daemon("advance")
    /\ LET c == op["daemon"].contract
           s == StageOf(goal, c)
           mine == s # 0 /\ s = CurrentStage(goal)
       IN  Goes("daemon", [step |-> IF mine THEN "write" ELSE "next", contract |-> c,
                           stage |-> s, seen |-> ProgressOf(goal)])
    /\ UNCHANGED <<goal, trail, state, claim, approval, updates>>

\* Mutant: the daemon writes the progress it has worked out whatever the row holds
DaemonAdvancesBlindly ==
    /\ Daemon("write")
    /\ Patch(Completing(goal, op["daemon"].seen, op["daemon"].stage))
    /\ Goes("daemon", [Idle EXCEPT !.step = "next"])
    /\ UNCHANGED <<state, claim, approval, updates>>

(* A conflict is swallowed: "Goal progress can be retried". *)
DaemonAdvances ==
    /\ Daemon("write")
    /\ Patch(IF Unchanged(op["daemon"].seen)
             THEN Completing(goal, op["daemon"].seen, op["daemon"].stage)
             ELSE goal)
    /\ Goes("daemon", [Idle EXCEPT !.step = "next"])
    /\ UNCHANGED <<state, claim, approval, updates>>

(* The scope synthesize_stage_draft claims: an enabled grant's, be it       *)
(* empty, otherwise the previous stage's.                                   *)
SynthesizedClaim(g) ==
    LET s == g.current
    IN  IF g.grant.enabled THEN g.grant.actions
        ELSE IF s > 1 /\ g.bound[s - 1] # None THEN claim[g.bound[s - 1]] ELSE {}

(* auto_create_next_stage_contract: is there a stage to prepare? *)
DaemonLooksAhead ==
    /\ Daemon("next")
    /\ Goes("daemon", IF goal.current # 0 /\ goal.bound[goal.current] = None
                      THEN [Idle EXCEPT !.step = "prepare", !.stage = goal.current,
                                      !.seen = SynthesizedClaim(goal)]
                      ELSE Idle)
    /\ UNCHANGED <<goal, trail, state, claim, approval, updates>>

\* Mutant: the stage is bound to a contract nobody has inserted
SaveNothing(p, c, s, wanted) ==
    /\ claim' = [claim EXCEPT ![c] = wanted]
    /\ Goes(p, [step |-> "bind", contract |-> c, stage |-> s, seen |-> PlanOf(goal)])
    /\ UNCHANGED <<goal, trail, state, approval, updates>>

(* handle_goal_prepare up to save_contract: the stage must be unbound *)
Save(p, c, s, wanted) ==
    /\ state' = [state EXCEPT ![c] = "drafted"]
    /\ claim' = [claim EXCEPT ![c] = wanted]
    /\ Goes(p, [step |-> "bind", contract |-> c, stage |-> s, seen |-> PlanOf(goal)])
    /\ UNCHANGED <<goal, trail, approval, updates>>

DaemonPrepares ==
    /\ Daemon("prepare")
    /\ LET s == op["daemon"].stage
       IN  IF goal.bound[s] = None
           THEN \E c \in Free : Save("daemon", c, s, op["daemon"].seen)
           ELSE Goes("daemon", Idle) /\ UNCHANGED <<goal, trail, state, claim, approval, updates>>

(* handle_goal_prepare's patch_goal: a conflict leaves the contract saved   *)
(* and bound to nothing                                                     *)
Bind(p, next) ==
    LET seen == op[p].seen
    IN  /\ op[p].step = "bind"
        /\ IF Unchanged(seen)
           THEN /\ Patch(Binding(goal, seen, op[p].stage, op[p].contract))
                /\ Goes(p, next)
           ELSE UNCHANGED <<goal, trail>> /\ Goes(p, Idle)
        /\ UNCHANGED <<state, claim, approval, updates>>

DaemonBinds ==
    Bind("daemon", [Idle EXCEPT !.step = "approve", !.contract = op["daemon"].contract])

(* auto_approve_drafted_contract, of the contract just made or of the       *)
(* sweep at the top of a round: grant and verdict are read, then the        *)
(* contract is moved if it has not changed                                  *)
DaemonAuthorizes(c) ==
    /\ \/ Daemon("approve") /\ c = op["daemon"].contract
       \/ Daemon("idle") /\ state[c] = "drafted"
    /\ Goes("daemon", IF state[c] = "drafted" /\ PreAuthorized(claim[c], approval[c], goal.grant)
                      THEN [Idle EXCEPT !.step = "promote", !.contract = c]
                      ELSE Idle)
    /\ UNCHANGED <<goal, trail, state, claim, approval, updates>>

DaemonPromotes ==
    /\ Daemon("promote")
    /\ LET c == op["daemon"].contract
       IN  state' = IF state[c] = "drafted" THEN [state EXCEPT ![c] = "active"] ELSE state
    /\ Goes("daemon", Idle)
    /\ UNCHANGED <<goal, trail, claim, approval, updates>>

DaemonCrashes ==
    /\ ~Daemon("idle")
    /\ Goes("daemon", Idle)
    /\ UNCHANGED <<goal, trail, state, claim, approval, updates>>

-----------------------------------------------------------------------------
(* A model client.                                                          *)

(* goal/prepare for a stage. A claim of the client's own may come along.    *)
ClientPrepares(s) ==
    /\ Client("idle")
    /\ goal.bound[s] = None
    /\ \E c \in Free, wanted \in Scopes \union {{}} :
          Save("client", c, s, wanted)

ClientBinds == Bind("client", Idle)

(* goal/advance: a bound contract must have passed, an unbound stage need   *)
(* only be the current one                                                  *)
ClientReads(s) ==
    /\ Client("idle")
    /\ s = CurrentStage(goal)
    /\ goal.bound[s] # None => state[goal.bound[s]] = "complete"
    /\ Uncompleted(goal) = {} => goal.revision < MaxRevision
    /\ Goes("client", [Idle EXCEPT !.step = "write", !.stage = s, !.seen = ProgressOf(goal)])
    /\ UNCHANGED <<goal, trail, state, claim, approval, updates>>

\* Mutant: goal/advance does not pass the client's revision on
ClientAdvancesBlindly ==
    /\ Client("write")
    /\ Patch(Completing(goal, op["client"].seen, op["client"].stage))
    /\ Goes("client", Idle)
    /\ UNCHANGED <<state, claim, approval, updates>>

ClientAdvances ==
    /\ Client("write")
    /\ Patch(IF Unchanged(op["client"].seen)
             THEN Completing(goal, op["client"].seen, op["client"].stage)
             ELSE goal)
    /\ Goes("client", Idle)
    /\ UNCHANGED <<state, claim, approval, updates>>

(* lhgp_submit_plan with steps that take the actions A. The verdict is      *)
(* dated first: _grant_as_of will give the grant of this date for it.       *)
ClientPlans(c, A) ==
    /\ Client("idle")
    /\ state[c] = "drafted"
    /\ Goes("client", [Idle EXCEPT !.step = "check", !.contract = c,
                          !.seen = [actions |-> A, asof |-> IF trail THEN goal.grant ELSE None]])
    /\ UNCHANGED <<goal, trail, state, claim, approval, updates>>

(* Then it is checked: the contract's own claim covers the plan, or else    *)
(* the goal's grant as it is by now.                                        *)
ClientChecks ==
    /\ Client("check")
    /\ LET c == op["client"].contract
           plan == op["client"].seen
           own == plan.actions \subseteq claim[c]
           granted == goal.grant.enabled /\ plan.actions \subseteq goal.grant.actions
           verdict == IF own \/ granted
                      THEN [kind |-> "approved", actions |-> plan.actions, asof |-> plan.asof,
                            exact |-> own \/ plan.asof = goal.grant]
                      ELSE NoApproval
       IN  Goes("client", [Idle EXCEPT !.step = "record", !.contract = c, !.seen = verdict])
    /\ UNCHANGED <<goal, trail, state, claim, approval, updates>>

(* And then recorded. *)
ClientRecords ==
    /\ Client("record")
    /\ approval' = [approval EXCEPT ![op["client"].contract] = op["client"].seen]
    /\ Goes("client", Idle)
    /\ UNCHANGED <<goal, trail, state, claim, updates>>

-----------------------------------------------------------------------------
(* The user.                                                                *)

(* goal/update: the whole plan is written as the user sends it, stages      *)
(* unbound or bound to other contracts, and the progress too if it comes    *)
(* along. The revision is optional; with it, the call is refused or the     *)
(* same. proposal-apply adds an amendment of its own that has no plan.      *)
UpdateGoal(g, stages, done, proposal) ==
    /\ updates < MaxUpdates
    /\ updates' = updates + 1
    /\ \A s \in Stages : stages[s] # None => state[stages[s]] # "free"
    /\ goal' = [goal EXCEPT !.revision = @ + 1, !.grant = g, !.bound = stages,
                           !.completed = done,
                           !.current = IF done = goal.completed THEN @ ELSE First(Stages \ done)]
    /\ trail' = ~proposal
    /\ proposal => done = goal.completed
    /\ UNCHANGED <<state, claim, approval, op>>

(* lhgp_plan_signoff. A verdict dated before it and recorded after it is    *)
(* not the latest.                                                          *)
SignOff(c, A) ==
    /\ state[c] = "drafted"
    /\ approval' = [approval EXCEPT ![c] =
          [kind |-> "signed", actions |-> A, exact |-> TRUE,
           asof |-> IF trail THEN goal.grant ELSE None]]
    /\ op' = IF op["client"].step \in {"check", "record"} /\ op["client"].contract = c
             THEN [op EXCEPT !["client"] = Idle] ELSE op
    /\ UNCHANGED <<goal, trail, state, claim, updates>>

VerdictAges(c) ==
    /\ approval[c].kind # "none"
    /\ approval' = [approval EXCEPT ![c] = NoApproval]
    /\ UNCHANGED <<goal, trail, state, claim, op, updates>>

Approve(c) ==
    /\ state[c] = "drafted"
    /\ state' = [state EXCEPT ![c] = "active"]
    /\ UNCHANGED <<goal, trail, claim, approval, op, updates>>

Cancel(c) ==
    /\ state[c] \in {"drafted", "active"}
    /\ state' = [state EXCEPT ![c] = "cancelled"]
    /\ UNCHANGED <<goal, trail, claim, approval, op, updates>>

(* user_confirm does in one transaction what the daemon does in seven *)
UserConfirms(c) ==
    /\ state[c] = "active"
    /\ LET s == StageOf(goal, c)
           passed == [state EXCEPT ![c] = "complete"]
           moved == IF s # 0 /\ s = CurrentStage(goal)
                    THEN Completing(goal, goal, s) ELSE goal
           t == moved.current
       IN  IF t # 0 /\ moved.bound[t] = None
           THEN \E d \in Free :
                  LET wanted == SynthesizedClaim(moved)
                  IN  /\ Patch(Binding(moved, moved, t, d))
                      /\ claim' = [claim EXCEPT ![d] = wanted]
                      /\ state' = [passed EXCEPT ![d] =
                            IF PreAuthorized(wanted, NoApproval, moved.grant)
                            THEN "active" ELSE "drafted"]
           ELSE Patch(moved) /\ state' = passed /\ UNCHANGED claim
    /\ UNCHANGED <<approval, op, updates>>

-----------------------------------------------------------------------------
DaemonStep ==
    \/ DaemonReads \/ DaemonAdvances \/ DaemonLooksAhead \/ DaemonPrepares \/ DaemonBinds
    \/ DaemonPromotes
    \/ \E c \in Contracts : DaemonCompletes(c) \/ DaemonAuthorizes(c)

ClientStep ==
    \/ ClientBinds \/ ClientAdvances \/ ClientChecks \/ ClientRecords
    \/ \E s \in Stages : ClientPrepares(s) \/ ClientReads(s)
    \/ \E c \in Contracts, A \in Scopes : ClientPlans(c, A)

UserStep ==
    \/ \E g \in Grants, stages \in [Stages -> Contracts \union {None}],
          done \in SUBSET Stages, proposal \in BOOLEAN : UpdateGoal(g, stages, done, proposal)
    \/ \E c \in Contracts :
          \/ VerdictAges(c) \/ Approve(c) \/ Cancel(c) \/ UserConfirms(c)
          \/ \E A \in Scopes : SignOff(c, A)

Next == DaemonStep \/ DaemonCrashes \/ ClientStep \/ UserStep

Spec == Init /\ [][Next]_vars

-----------------------------------------------------------------------------
(* Properties *)

(* Nobody but goal/update, where the user says what holds.                  *)
NoEdit == updates' = updates

(* A stage with a contract is completed only when that contract has passed, *)
(* be it bound while the advance was under way.                             *)
CompletedStageHasPassed ==
    [][NoEdit => \A s \in goal'.completed \ goal.completed :
          goal.bound[s] # None => state'[goal.bound[s]] = "complete"]_vars

(* What others have written since is never overwritten by progress or plans *)
(* worked out from an old row, the compare-and-swap refuses them: the grant *)
(* stays as the user set it, completed stages stay completed, and of the    *)
(* bindings at most one changes, of a stage that had none.                  *)
ProgressIsNeverLost ==
    [][NoEdit => /\ goal'.grant = goal.grant
                 /\ goal.completed \subseteq goal'.completed
                 /\ \E s \in Stages : \A t \in Stages :
                       goal'.bound[t] # goal.bound[t] => t = s /\ goal.bound[t] = None]_vars

(* What the daemon promotes by itself lies within the grant it has just     *)
(* read, or the user signed it.                                             *)
Within(c, grant) ==
    \/ grant.wildcard
    \/ claim[c] # {} /\ Covers(grant, claim[c])
    \/ approval[c].kind = "signed"
    \/ approval[c].kind = "approved" /\ Covers(grant, approval[c].actions)

Promotes(c) ==
    /\ op["daemon"].step \in {"idle", "approve"}
    /\ op'["daemon"].step = "promote" /\ op'["daemon"].contract = c

(* An approval from before an edit of the grant is no authority for what    *)
(* the grant no longer holds, provided that the amendments give for its     *)
(* date the grant its plan was checked against. They give another one if    *)
(* the grant was edited between the date and the check, or none.            *)
OldApprovalsLapse ==
    [][\A c \in Contracts :
          Promotes(c) => Within(c, goal.grant) \/ ~approval[c].exact]_vars

(* What the code says and does not do. The same without that proviso, but   *)
(* for dates of which the amendments tell nothing: "the newest amendment at *)
(* or before the approval is exactly the grant the approval was validated   *)
(* against" (_grant_as_of).                                                 *)
PromotionIsWithinTheGrant ==
    [][\A c \in Contracts :
          Promotes(c) => Within(c, goal.grant) \/ approval[c].asof = None]_vars
=============================================================================
