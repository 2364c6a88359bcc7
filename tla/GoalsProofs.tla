----------------------------- MODULE GoalsProofs ------------------------------
(***************************************************************************)
(* Goals for every number of stages, every set of contracts, grants and     *)
(* scopes: what one process has written of a goal is never lost to another, *)
(* a stage is completed only behind its contract, and the daemon promotes   *)
(* within the grant it has just read, as far as the amendments date it.     *)
(***************************************************************************)
EXTENDS Goals, WellFoundedInduction, TLAPS

-----------------------------------------------------------------------------
(* The inductive invariant.                                                 *)

\* What a process carries from one transaction to the next.
Progresses == [revision : Nat, completed : SUBSET Stages]
Plans == [revision : Nat, bound : [Stages -> Contracts \union {None}], grant : Grants]
Submissions == [actions : SUBSET Actions, asof : Grants \union {None}]
Carried == {None} \union Progresses \union Plans \union (SUBSET Actions)
             \union Submissions \union Approvals

Operations == [step : Steps, contract : Contracts \union {None},
               stage : {0} \union Stages, seen : Carried]

OperationTyped(p) ==
    /\ op[p].step = "write" => op[p].seen \in Progresses /\ op[p].stage \in Stages
    /\ op[p].step = "bind" =>
          op[p].seen \in Plans /\ op[p].stage \in Stages /\ op[p].contract \in Contracts
    /\ op[p].step = "prepare" => op[p].seen \in SUBSET Actions /\ op[p].stage \in Stages
    /\ op[p].step = "check" => op[p].seen \in Submissions
    /\ op[p].step = "record" => op[p].seen \in Approvals
    /\ op[p].step \in {"advance", "approve", "promote", "check", "record"} =>
          op[p].contract \in Contracts

Typed ==
    /\ goal \in Goal
    /\ state \in [Contracts -> States]
    /\ claim \in [Contracts -> SUBSET Actions]
    /\ approval \in [Contracts -> Approvals]
    /\ op \in [Processes -> Operations]
    /\ \A p \in Processes : OperationTyped(p)
    /\ updates \in 0..MaxUpdates

BoundIsSaved == \A s \in Stages : goal.bound[s] # None => state[goal.bound[s]] # "free"

Passed(c) == state[c] = "complete"

(* A revision read and still in the row vouches for what was read with it:   *)
(* the progress, and that the stage to be completed has no contract that has *)
(* not passed; the plan, and that the stage to be bound is not bound.        *)
WriterKnows(p) ==
    op[p].step = "write" =>
        /\ op[p].seen.revision <= goal.revision
        /\ op[p].seen.revision = goal.revision =>
              /\ op[p].seen.completed = goal.completed
              /\ goal.bound[op[p].stage] # None => Passed(goal.bound[op[p].stage])

BinderKnows(p) ==
    op[p].step = "bind" =>
        /\ state[op[p].contract] # "free"
        /\ op[p].seen.revision <= goal.revision
        /\ op[p].seen.revision = goal.revision =>
              /\ op[p].seen.bound = goal.bound
              /\ op[p].seen.grant = goal.grant
              /\ goal.bound[op[p].stage] = None

AdvancesPassed == op["daemon"].step = "advance" => Passed(op["daemon"].contract)

(* An approved plan lies within the contract's own claim or within the      *)
(* grant the amendments give for its date, if it was checked against that.  *)
CoveredVerdict(v, c) ==
    v.kind = "approved" =>
        \/ v.actions \subseteq claim[c]
        \/ v.exact => v.asof # None /\ v.actions \subseteq v.asof.actions

ApprovalsAreCovered ==
    \A c \in Contracts : approval[c].kind # "none" => state[c] # "free" /\ CoveredVerdict(approval[c], c)

PlannerKnows(p) ==
    /\ op[p].step \in {"check", "record"} => state[op[p].contract] # "free"
    /\ op[p].step = "record" => CoveredVerdict(op[p].seen, op[p].contract)

IInv ==
    /\ Typed
    /\ BoundIsSaved
    /\ \A p \in Processes : WriterKnows(p) /\ BinderKnows(p) /\ PlannerKnows(p)
    /\ AdvancesPassed
    /\ ApprovalsAreCovered
-----------------------------------------------------------------------------
(* The helpers.                                                             *)

Less == {pair \in Nat \X Nat : pair[1] < pair[2]}

LEMMA LessIsWellFounded == IsWellFoundedOn(Less, Nat)
  BY NatLessThanWellFounded, Zenon DEF OpToRel, Less

LEMMA LeastElement ==
    ASSUME NEW S \in SUBSET Nat, S # {}
    PROVE  \E s \in S : \A t \in S : s <= t
<1>1. \E x \in S : \A y \in S : ~ (<<y, x>> \in Less)
  BY LessIsWellFounded, WFMin, Zenon
<1>2. \A x, y \in S : ~ (<<y, x>> \in Less) => x <= y
  BY DEF Less
<1> QED
  BY <1>1, <1>2

\* The first of a set of stages is one of them; 0 stands for none.
LEMMA FirstStage ==
    ASSUME NEW S \in SUBSET Stages
    PROVE  /\ S = {} => First(S) = 0
           /\ S # {} => First(S) \in S
           /\ First(S) \in {0} \union Stages
           /\ First(S) # 0 => First(S) \in S
<1>1. S \in SUBSET Nat
  BY StagesAssumption DEF Stages
<1>2. CASE S # {}
  <2>1. \E s \in S : \A t \in S : s <= t
    BY <1>1, <1>2, LeastElement
  <2> QED
    BY <1>2, <2>1 DEF First
<1>3. CASE S = {}
  BY <1>3 DEF First
<1> QED
  BY <1>2, <1>3

LEMMA StageOfBinds ==
    ASSUME NEW c \in Contracts
    PROVE  /\ StageOf(goal, c) \in {0} \union Stages
           /\ StageOf(goal, c) # 0 => goal.bound[StageOf(goal, c)] = c
<1> DEFINE S == {s \in Stages : goal.bound[s] = c}
<1>1. First(S) \in {0} \union Stages /\ (First(S) # 0 => First(S) \in S)
  BY FirstStage
<1> QED
  BY <1>1 DEF StageOf

LEMMA CompletingGoal ==
    ASSUME NEW g \in Goal, NEW progress, progress.completed \in SUBSET Stages, NEW s \in Stages
    PROVE  /\ Completing(g, progress, s) \in Goal
           /\ Completing(g, progress, s).revision = g.revision + 1
           /\ Completing(g, progress, s).bound = g.bound
           /\ Completing(g, progress, s).grant = g.grant
           /\ Completing(g, progress, s).completed = progress.completed \union {s}
<1> DEFINE done == progress.completed \union {s}
           next == First(Stages \ done)
           more == g.revision + 1
           h == [g EXCEPT !.revision = more, !.completed = done, !.current = next]
<1>1. Completing(g, progress, s) = h
  BY DEF Completing
<1>2. next \in {0} \union Stages /\ more \in Nat /\ done \in SUBSET Stages
  BY FirstStage DEF Goal
<1> HIDE DEF done, next, more
<1>3. h \in Goal /\ h.revision = more /\ h.bound = g.bound /\ h.grant = g.grant /\ h.completed = done
  BY <1>2 DEF Goal
<1> QED
  BY <1>1, <1>3 DEF done, more

LEMMA BindingGoal ==
    ASSUME NEW g \in Goal, NEW plan, plan.bound \in [Stages -> Contracts \union {None}],
           plan.grant \in Grants, NEW s \in Stages, NEW c \in Contracts
    PROVE  /\ Binding(g, plan, s, c) \in Goal
           /\ Binding(g, plan, s, c).revision = g.revision + 1
           /\ Binding(g, plan, s, c).bound = [plan.bound EXCEPT ![s] = c]
           /\ Binding(g, plan, s, c).completed = g.completed
           /\ Binding(g, plan, s, c).grant = plan.grant
<1> DEFINE bindings == [plan.bound EXCEPT ![s] = c]
           more == g.revision + 1
           granted == plan.grant
           h == [g EXCEPT !.revision = more, !.bound = bindings, !.grant = granted]
<1>1. Binding(g, plan, s, c) = h
  BY DEF Binding
<1>2. bindings \in [Stages -> Contracts \union {None}] /\ more \in Nat /\ granted \in Grants
  BY DEF Goal
<1> HIDE DEF bindings, more, granted
<1>3. /\ h \in Goal /\ h.revision = more /\ h.bound = bindings /\ h.completed = g.completed
      /\ h.grant = granted
  BY <1>2 DEF Goal
<1> QED
  BY <1>1, <1>3 DEF bindings, more, granted

LEMMA ClaimSynthesized ==
    ASSUME NEW g \in Goal, claim \in [Contracts -> SUBSET Actions]
    PROVE  SynthesizedClaim(g) \in SUBSET Actions
<1>1. g.grant.actions \in SUBSET Actions
  BY GrantsAssumption DEF Goal
<1>2. g.current \in {0} \union Stages /\ g.bound \in [Stages -> Contracts \union {None}]
  BY DEF Goal
<1>3. g.current > 1 => g.current - 1 \in Stages
  BY <1>2, StagesAssumption DEF Stages
<1> QED
  BY <1>1, <1>2, <1>3 DEF SynthesizedClaim

LEMMA Records ==
    /\ Idle \in Operations
    /\ NoApproval \in Approvals
  BY GrantsAssumption DEF Idle, Operations, Steps, Carried, NoApproval, Approvals

LEMMA CarriedFromRow ==
    ASSUME goal \in Goal
    PROVE  ProgressOf(goal) \in Progresses /\ PlanOf(goal) \in Plans
  BY DEF Goal, ProgressOf, PlanOf, Progresses, Plans

-----------------------------------------------------------------------------
(* What one process knows is not disturbed by a step of another.            *)

StatesGrow ==
    /\ state' \in [Contracts -> States]
    /\ \A c \in Contracts : /\ state[c] = "complete" => state'[c] = "complete"
                            /\ state[c] # "free" => state'[c] # "free"

\* A claim is written with its contract and stays.
ClaimsStay == \A c \in Contracts : state[c] # "free" => claim'[c] = claim[c]

RowMoves == goal' = goal \/ goal'.revision > goal.revision

LEMMA BystanderKnows ==
    ASSUME IInv, RowMoves, goal' \in Goal, StatesGrow, ClaimsStay,
           NEW p \in Processes, op'[p] = op[p]
    PROVE  /\ OperationTyped(p)' /\ WriterKnows(p)' /\ BinderKnows(p)' /\ PlannerKnows(p)'
           /\ p = "daemon" => AdvancesPassed'
<1>1. OperationTyped(p)'
  BY DEF IInv, Typed, OperationTyped
<1>2. goal.revision \in Nat /\ goal'.revision \in Nat
  BY DEF IInv, Typed, Goal
<1>3. WriterKnows(p)'
  <2> SUFFICES ASSUME op[p].step = "write" PROVE WriterKnows(p)'
    BY DEF WriterKnows
  <2>1. op[p].seen.revision \in Nat /\ op[p].stage \in Stages
    BY DEF IInv, Typed, OperationTyped, Progresses
  <2>2. goal.bound[op[p].stage] \in Contracts \union {None}
    BY <2>1 DEF IInv, Typed, Goal
  <2> QED
    BY <1>2, <2>1, <2>2 DEF IInv, WriterKnows, RowMoves, StatesGrow, Passed
<1>4. BinderKnows(p)'
  <2> SUFFICES ASSUME op[p].step = "bind" PROVE BinderKnows(p)'
    BY DEF BinderKnows
  <2>1. op[p].seen.revision \in Nat /\ op[p].contract \in Contracts
    BY DEF IInv, Typed, OperationTyped, Plans
  <2> QED
    BY <1>2, <2>1 DEF IInv, BinderKnows, RowMoves, StatesGrow
<1>5. p = "daemon" => AdvancesPassed'
  BY DEF IInv, Typed, OperationTyped, AdvancesPassed, StatesGrow, Passed
<1>6. PlannerKnows(p)'
  <2> SUFFICES ASSUME op[p].step \in {"check", "record"} PROVE PlannerKnows(p)'
    BY DEF PlannerKnows
  <2>1. op[p].contract \in Contracts /\ state[op[p].contract] # "free"
    BY DEF IInv, Typed, OperationTyped, PlannerKnows
  <2>2. claim'[op[p].contract] = claim[op[p].contract] /\ state'[op[p].contract] # "free"
    BY <2>1 DEF ClaimsStay, StatesGrow
  <2>3. op[p].step = "record" => CoveredVerdict(op[p].seen, op[p].contract)'
    BY <2>2 DEF IInv, PlannerKnows, CoveredVerdict
  <2> QED
    BY <2>2, <2>3 DEF PlannerKnows
<1> QED
  BY <1>1, <1>3, <1>4, <1>5, <1>6

\* What p turns to, and what it must know then.
Knows(p) ==
    /\ OperationTyped(p) /\ WriterKnows(p) /\ BinderKnows(p) /\ PlannerKnows(p)
    /\ p = "daemon" => AdvancesPassed

\* Everything but what the processes are in the middle of.
RowsKept ==
    /\ RowMoves /\ goal' \in Goal
    /\ StatesGrow /\ ClaimsStay /\ BoundIsSaved' /\ ApprovalsAreCovered'
    /\ claim' \in [Contracts -> SUBSET Actions]
    /\ approval' \in [Contracts -> Approvals]
    /\ updates' \in 0..MaxUpdates

\* A step of the process p.
LEMMA StepOf ==
    ASSUME IInv, RowsKept, NEW p \in Processes, NEW r \in Operations, Goes(p, r), Knows(p)'
    PROVE  IInv'
<1>1. /\ op' \in [Processes -> Operations] /\ op'[p] = r
      /\ \A q \in Processes \ {p} : op'[q] = op[q]
  BY DEF IInv, Typed, Goes
<1>2. \A q \in Processes : Knows(q)'
  BY <1>1, BystanderKnows DEF Knows, RowsKept
<1>3. AdvancesPassed'
  BY <1>2 DEF Knows, Processes
<1>4. Typed'
  BY <1>1, <1>2 DEF Typed, Knows, StatesGrow, RowsKept
<1> QED
  BY <1>2, <1>3, <1>4 DEF IInv, Knows, RowsKept

\* A step of nobody that op remembers.
LEMMA StepOfUser ==
    ASSUME IInv, RowsKept, op' = op
    PROVE  IInv'
<1>1. \A q \in Processes : Knows(q)'
  BY BystanderKnows DEF Knows, RowsKept
<1>2. AdvancesPassed'
  BY <1>1 DEF Knows, Processes
<1>3. Typed'
  BY <1>1 DEF IInv, Typed, Knows, StatesGrow, RowsKept
<1> QED
  BY <1>1, <1>2, <1>3 DEF IInv, Knows, RowsKept

\* Contracts move, the goal row stays.
LEMMA OnlyContractsMove ==
    ASSUME IInv, UNCHANGED <<goal, claim, approval, updates>>, StatesGrow
    PROVE  RowsKept
<1>1. BoundIsSaved'
  <2> SUFFICES ASSUME NEW s \in Stages, goal.bound[s] # None
               PROVE  state'[goal.bound[s]] # "free"
    BY DEF BoundIsSaved
  <2>1. goal.bound[s] \in Contracts
    BY DEF IInv, Typed, Goal
  <2> QED
    BY <2>1 DEF IInv, BoundIsSaved, StatesGrow
<1>2. ApprovalsAreCovered'
  BY DEF IInv, ApprovalsAreCovered, CoveredVerdict, StatesGrow
<1> QED
  BY <1>1, <1>2 DEF IInv, Typed, RowsKept, RowMoves, ClaimsStay

-----------------------------------------------------------------------------
(* Every action keeps the invariant, loses nothing and completes no stage   *)
(* before its contract.                                                     *)

NothingLost ==
    /\ goal'.grant = goal.grant
    /\ goal.completed \subseteq goal'.completed
    /\ \E s \in Stages : \A t \in Stages :
          goal'.bound[t] # goal.bound[t] => t = s /\ goal.bound[t] = None

PassedBefore ==
    \A s \in goal'.completed \ goal.completed :
        goal.bound[s] # None => state'[goal.bound[s]] = "complete"

Sound == IInv' /\ (NoEdit => NothingLost /\ PassedBefore)

\* No binding changes.
LEMMA KeptBindings ==
    ASSUME goal'.bound = goal.bound, goal'.grant = goal.grant, goal.completed \subseteq goal'.completed
    PROVE  NothingLost
<1>1. 1 \in Stages
  BY StagesAssumption DEF Stages
<1> QED
  BY <1>1 DEF NothingLost

LEMMA UnwrittenGoal ==
    ASSUME goal' = goal
    PROVE  NothingLost /\ PassedBefore
  BY KeptBindings DEF PassedBefore

\* A process has stopped, or goes for a contract's next transaction.
LEMMA Going ==
    ASSUME NEW r, NEW st \in {"idle", "next", "advance", "approve", "promote"},
           NEW c \in Contracts \union {None}, r = [Idle EXCEPT !.step = st, !.contract = c],
           st \in {"advance", "approve", "promote"} => c \in Contracts,
           st = "advance" => Passed(c)',
           NEW p \in Processes, Goes(p, r), op \in [Processes -> Operations]
    PROVE  r \in Operations /\ Knows(p)'
<1>1. r \in Operations /\ r.step = st /\ r.contract = c
  BY DEF Idle, Operations, Steps, Carried
<1>2. op'[p] = r
  BY DEF Goes
<1> QED
  BY <1>1, <1>2 DEF Knows, OperationTyped, WriterKnows, BinderKnows, PlannerKnows, AdvancesPassed

LEMMA Stopping ==
    ASSUME NEW p \in Processes, Goes(p, Idle), op \in [Processes -> Operations]
    PROVE  Idle \in Operations /\ Knows(p)'
<1>1. Idle \in Operations /\ Idle.step = "idle" /\ op'[p] = Idle
  BY Records DEF Goes, Idle
<1> QED
  BY <1>1 DEF Knows, OperationTyped, WriterKnows, BinderKnows, PlannerKnows, AdvancesPassed

LEMMA StepCompletes ==
    ASSUME IInv, NEW c \in Contracts, DaemonCompletes(c)
    PROVE  Sound
<1>1. StatesGrow /\ Passed(c)'
  BY DEF IInv, Typed, DaemonCompletes, StatesGrow, States, Passed
<1>2. RowsKept
  BY <1>1, OnlyContractsMove DEF DaemonCompletes
<1> DEFINE r == [Idle EXCEPT !.step = "advance", !.contract = c]
<1>3. r \in Operations /\ Knows("daemon")'
  BY <1>1, Going DEF DaemonCompletes, Processes, IInv, Typed
<1> QED
  BY <1>2, <1>3, StepOf, UnwrittenGoal DEF DaemonCompletes, Processes, Sound
\* Only op moves.
LEMMA OnlyOpMoves ==
    ASSUME IInv, UNCHANGED <<goal, state, claim, approval, updates>>
    PROVE  RowsKept /\ NothingLost /\ PassedBefore
<1>1. StatesGrow
  BY DEF IInv, Typed, StatesGrow
<1> QED
  BY <1>1, OnlyContractsMove, UnwrittenGoal

LEMMA StepReads ==
    ASSUME IInv, DaemonReads
    PROVE  Sound
<1> DEFINE c == op["daemon"].contract
           s == StageOf(goal, c)
           mine == s # 0 /\ s = CurrentStage(goal)
           r == [step |-> IF mine THEN "write" ELSE "next", contract |-> c,
                 stage |-> s, seen |-> ProgressOf(goal)]
<1>1. c \in Contracts /\ Passed(c) /\ op \in [Processes -> Operations] /\ goal \in Goal
  BY DEF IInv, Typed, OperationTyped, AdvancesPassed, DaemonReads, Daemon, Processes
<1>2. s \in {0} \union Stages /\ (s # 0 => goal.bound[s] = c)
  BY <1>1, StageOfBinds
<1>3. /\ ProgressOf(goal) \in Progresses
      /\ ProgressOf(goal).revision = goal.revision /\ ProgressOf(goal).completed = goal.completed
  BY <1>1, CarriedFromRow DEF ProgressOf
<1>4. r.step \in {"write", "next"} /\ (r.step = "write" => s # 0)
  OBVIOUS
<1>5. r.stage = s /\ r.seen = ProgressOf(goal) /\ r.contract = c
  OBVIOUS
<1>6. r \in Operations
  BY <1>1, <1>2, <1>3 DEF Operations, Steps, Carried
<1>7. op'["daemon"] = r /\ Goes("daemon", r) /\ UNCHANGED <<goal, state, claim, approval, updates>>
  BY <1>1 DEF DaemonReads, Goes, Processes
<1>8. goal.revision \in Nat
  BY <1>1 DEF Goal
<1> HIDE DEF r, s, c
<1>9. Knows("daemon")'
  <2>1. OperationTyped("daemon")'
    BY <1>2, <1>3, <1>4, <1>5, <1>7 DEF OperationTyped
  <2>2. WriterKnows("daemon")'
    BY <1>1, <1>2, <1>3, <1>4, <1>5, <1>7, <1>8 DEF WriterKnows, Passed
  <2>3. BinderKnows("daemon")' /\ PlannerKnows("daemon")' /\ AdvancesPassed'
    BY <1>4, <1>7 DEF BinderKnows, PlannerKnows, AdvancesPassed
  <2> QED
    BY <2>1, <2>2, <2>3 DEF Knows
<1> QED
  BY <1>6, <1>7, <1>9, OnlyOpMoves, StepOf DEF Sound, Processes
\* The compare-and-swap of progress: the row as read is the row, and the stage
\* has no contract or one that has passed.
LEMMA Advancing ==
    ASSUME IInv, NEW p \in Processes, op[p].step = "write",
           UNCHANGED <<state, claim, approval, updates>>,
           Patch(IF Unchanged(op[p].seen)
                 THEN Completing(goal, op[p].seen, op[p].stage) ELSE goal)
    PROVE  RowsKept /\ NothingLost /\ PassedBefore
<1>1. CASE ~ Unchanged(op[p].seen)
  BY <1>1, OnlyOpMoves DEF Patch
<1>2. CASE Unchanged(op[p].seen)
  <2> DEFINE s == op[p].stage
             seen == op[p].seen
  <2>1. goal \in Goal /\ seen.completed \in SUBSET Stages /\ s \in Stages
    BY DEF IInv, Typed, OperationTyped, Progresses
  <2>2. /\ goal' = Completing(goal, seen, s)
        /\ seen.completed = goal.completed
        /\ goal.bound[s] # None => Passed(goal.bound[s])
    BY <1>2 DEF Unchanged, IInv, WriterKnows, Patch
  <2> HIDE DEF seen, s
  <2>3. /\ goal' \in Goal /\ goal'.revision = goal.revision + 1 /\ goal'.bound = goal.bound
        /\ goal'.grant = goal.grant /\ goal'.completed = goal.completed \union {s}
    BY <2>1, <2>2, CompletingGoal
  <2>4. goal.revision \in Nat
    BY <2>1 DEF Goal
  <2>5. StatesGrow
    BY DEF IInv, Typed, StatesGrow
  <2>6. BoundIsSaved' /\ ApprovalsAreCovered'
    BY <2>3 DEF IInv, BoundIsSaved, ApprovalsAreCovered, CoveredVerdict
  <2>7. RowsKept
    BY <2>3, <2>4, <2>5, <2>6 DEF RowsKept, RowMoves, ClaimsStay, IInv, Typed
  <2>8. NothingLost
    BY <2>3, KeptBindings
  <2>9. PassedBefore
    BY <2>2, <2>3 DEF PassedBefore, Passed
  <2> QED
    BY <2>7, <2>8, <2>9
<1> QED
  BY <1>1, <1>2

LEMMA StepAdvances ==
    ASSUME IInv, DaemonAdvances \/ ClientAdvances
    PROVE  Sound
<1>1. op \in [Processes -> Operations] /\ {"daemon", "client"} = Processes
  BY DEF IInv, Typed, Processes
<1>2. CASE DaemonAdvances
  <2>1. RowsKept /\ NothingLost /\ PassedBefore
    BY <1>1, <1>2, Advancing DEF DaemonAdvances, Daemon
  <2> DEFINE r == [Idle EXCEPT !.step = "next"]
  <2>2. r \in Operations /\ r.step = "next" /\ op'["daemon"] = r
    BY <1>1, <1>2 DEF DaemonAdvances, Goes, Idle, Operations, Steps, Carried
  <2>3. Knows("daemon")'
    BY <2>2 DEF Knows, OperationTyped, WriterKnows, BinderKnows, PlannerKnows, AdvancesPassed
  <2> QED
    BY <1>1, <1>2, <2>1, <2>2, <2>3, StepOf DEF DaemonAdvances, Sound
<1>3. CASE ClientAdvances
  <2>1. RowsKept /\ NothingLost /\ PassedBefore
    BY <1>1, <1>3, Advancing DEF ClientAdvances, Client
  <2>2. Idle \in Operations /\ Knows("client")'
    BY <1>1, <1>3, Stopping DEF ClientAdvances
  <2> QED
    BY <1>1, <1>3, <2>1, <2>2, StepOf DEF ClientAdvances, Sound
<1> QED
  BY <1>2, <1>3

LEMMA StepLooksAhead ==
    ASSUME IInv, DaemonLooksAhead
    PROVE  Sound
<1>1. op \in [Processes -> Operations] /\ goal \in Goal /\ "daemon" \in Processes
  BY DEF IInv, Typed, Processes
<1>2. CASE goal.current # 0 /\ goal.bound[goal.current] = None
  <2> DEFINE r == [Idle EXCEPT !.step = "prepare", !.stage = goal.current,
                              !.seen = SynthesizedClaim(goal)]
  <2>1. SynthesizedClaim(goal) \in SUBSET Actions /\ goal.current \in Stages
    BY <1>1, <1>2, ClaimSynthesized DEF IInv, Typed, Goal
  <2>2. /\ r \in Operations /\ r.step = "prepare" /\ r.stage = goal.current
        /\ r.seen = SynthesizedClaim(goal)
    BY <2>1 DEF Idle, Operations, Steps, Carried
  <2>3. Goes("daemon", r) /\ UNCHANGED <<goal, state, claim, approval, updates>>
    BY <1>2 DEF DaemonLooksAhead
  <2> HIDE DEF r
  <2>4. op'["daemon"] = r
    BY <1>1, <2>3 DEF Goes
  <2>5. Knows("daemon")'
    BY <2>1, <2>2, <2>4 DEF Knows, OperationTyped, WriterKnows, BinderKnows, PlannerKnows, AdvancesPassed
  <2> QED
    BY <1>1, <2>2, <2>3, <2>5, OnlyOpMoves, StepOf DEF Sound
<1>3. CASE ~ (goal.current # 0 /\ goal.bound[goal.current] = None)
  <2>1. Goes("daemon", Idle) /\ UNCHANGED <<goal, state, claim, approval, updates>>
    BY <1>3 DEF DaemonLooksAhead
  <2> QED
    BY <1>1, <2>1, Stopping, OnlyOpMoves, StepOf DEF Sound
<1> QED
  BY <1>2, <1>3
\* A contract is saved before its stage is bound to it.
LEMMA Saving ==
    ASSUME IInv, NEW p \in Processes, NEW c \in Free, NEW s \in Stages, goal.bound[s] = None,
           NEW wanted \in SUBSET Actions, Save(p, c, s, wanted)
    PROVE  Sound
<1> DEFINE r == [step |-> "bind", contract |-> c, stage |-> s, seen |-> PlanOf(goal)]
<1>1. /\ op \in [Processes -> Operations] /\ goal \in Goal /\ c \in Contracts /\ state[c] = "free"
      /\ state \in [Contracts -> States] /\ claim \in [Contracts -> SUBSET Actions]
  BY DEF IInv, Typed, Free
<1>2. StatesGrow /\ state'[c] = "drafted"
  BY <1>1 DEF Save, StatesGrow, States
<1>3. UNCHANGED <<goal, approval, updates>> /\ claim' = [claim EXCEPT ![c] = wanted] /\ Goes(p, r)
  BY DEF Save
<1>4. BoundIsSaved'
  <2> SUFFICES ASSUME NEW t \in Stages, goal.bound[t] # None
               PROVE  state'[goal.bound[t]] # "free"
    BY <1>3 DEF BoundIsSaved
  <2>1. goal.bound[t] \in Contracts
    BY <1>1 DEF Goal
  <2> QED
    BY <1>2, <2>1 DEF IInv, BoundIsSaved, StatesGrow
<1>5. ClaimsStay /\ ApprovalsAreCovered'
  BY <1>1, <1>2, <1>3 DEF IInv, ApprovalsAreCovered, CoveredVerdict, StatesGrow, ClaimsStay
<1>6. RowsKept
  BY <1>1, <1>2, <1>3, <1>4, <1>5 DEF RowsKept, RowMoves, IInv, Typed
<1>7. /\ PlanOf(goal) \in Plans /\ PlanOf(goal).revision = goal.revision
      /\ PlanOf(goal).bound = goal.bound /\ PlanOf(goal).grant = goal.grant /\ goal.revision \in Nat
  BY <1>1, CarriedFromRow DEF PlanOf, Goal
<1>8. r \in Operations /\ op'[p] = r
  BY <1>1, <1>3, <1>7 DEF Operations, Steps, Carried, Goes
<1>9. Knows(p)'
  BY <1>1, <1>2, <1>3, <1>7, <1>8
     DEF Knows, OperationTyped, WriterKnows, BinderKnows, PlannerKnows, AdvancesPassed
<1> QED
  BY <1>3, <1>6, <1>8, <1>9, StepOf, UnwrittenGoal DEF Sound

LEMMA StepPrepares ==
    ASSUME IInv, DaemonPrepares \/ \E s \in Stages : ClientPrepares(s)
    PROVE  Sound
<1>1. op \in [Processes -> Operations] /\ {"daemon", "client"} = Processes
  BY DEF IInv, Typed, Processes
<1>2. CASE DaemonPrepares
  <2> DEFINE s == op["daemon"].stage
  <2>1. s \in Stages /\ op["daemon"].seen \in SUBSET Actions
    BY <1>1, <1>2 DEF IInv, Typed, OperationTyped, DaemonPrepares, Daemon
  <2>2. CASE goal.bound[s] = None
    <3>1. PICK c \in Free : Save("daemon", c, s, op["daemon"].seen)
      BY <1>2, <2>2 DEF DaemonPrepares
    <3> QED
      BY <1>1, <2>1, <2>2, <3>1, Saving
  <2>3. CASE goal.bound[s] # None
    <3>1. Goes("daemon", Idle) /\ UNCHANGED <<goal, state, claim, approval, updates>>
      BY <1>2, <2>3 DEF DaemonPrepares
    <3> QED
      BY <1>1, <3>1, Stopping, OnlyOpMoves, StepOf DEF Sound
  <2> QED
    BY <2>2, <2>3
<1>3. CASE \E s \in Stages : ClientPrepares(s)
  <2>1. PICK s \in Stages, c \in Free, wanted \in Scopes \union {{}} :
           goal.bound[s] = None /\ Save("client", c, s, wanted)
    BY <1>3 DEF ClientPrepares
  <2>2. wanted \in SUBSET Actions
    BY ScopesAssumption
  <2> QED
    BY <1>1, <2>1, <2>2, Saving
<1> QED
  BY <1>2, <1>3

\* The compare-and-swap of a plan: the row as read is the row, and the stage is
\* not bound.
LEMMA Bound ==
    ASSUME IInv, NEW p \in Processes, op[p].step = "bind",
           UNCHANGED <<state, claim, approval, updates>>, Unchanged(op[p].seen),
           Patch(Binding(goal, op[p].seen, op[p].stage, op[p].contract))
    PROVE  RowsKept /\ NothingLost /\ PassedBefore
<1> DEFINE s == op[p].stage
           c == op[p].contract
           seen == op[p].seen
<1>1. goal \in Goal /\ seen \in Plans /\ s \in Stages /\ c \in Contracts
  BY DEF IInv, Typed, OperationTyped
<1>2. /\ goal' = Binding(goal, seen, s, c)
      /\ seen.bound = goal.bound /\ seen.grant = goal.grant
      /\ goal.bound[s] = None /\ state[c] # "free"
  BY DEF Unchanged, IInv, BinderKnows, Patch
<1> HIDE DEF seen, s, c
<1>3. seen.bound \in [Stages -> Contracts \union {None}] /\ seen.grant \in Grants
  BY <1>1 DEF Plans
<1>4. /\ goal' \in Goal /\ goal'.revision = goal.revision + 1
      /\ goal'.bound = [goal.bound EXCEPT ![s] = c] /\ goal'.completed = goal.completed
      /\ goal'.grant = goal.grant
  BY <1>1, <1>2, <1>3, BindingGoal
<1>5. goal.revision \in Nat /\ goal.bound \in [Stages -> Contracts \union {None}]
  BY <1>1 DEF Goal
<1>6. StatesGrow
  BY DEF IInv, Typed, StatesGrow
<1>7. BoundIsSaved' /\ ApprovalsAreCovered'
  BY <1>1, <1>2, <1>4, <1>5 DEF IInv, BoundIsSaved, ApprovalsAreCovered, CoveredVerdict
<1>8. RowsKept
  BY <1>4, <1>5, <1>6, <1>7 DEF RowsKept, RowMoves, ClaimsStay, IInv, Typed
<1>9. NothingLost /\ PassedBefore
  BY <1>1, <1>2, <1>4, <1>5 DEF NothingLost, PassedBefore
<1> QED
  BY <1>8, <1>9

LEMMA StepBinds ==
    ASSUME IInv, DaemonBinds \/ ClientBinds
    PROVE  Sound
<1>1. op \in [Processes -> Operations] /\ {"daemon", "client"} = Processes
  BY DEF IInv, Typed, Processes
<1>2. ASSUME NEW p \in Processes, NEW next, Bind(p, next), next \in Operations,
             Goes(p, next) => Knows(p)'
      PROVE  Sound
  <2>1. CASE Unchanged(op[p].seen)
    <3>1. RowsKept /\ NothingLost /\ PassedBefore
      BY <1>2, <2>1, Bound DEF Bind
    <3> QED
      BY <1>2, <2>1, <3>1, StepOf DEF Bind, Sound
  <2>2. CASE ~ Unchanged(op[p].seen)
    <3>1. Goes(p, Idle) /\ UNCHANGED <<goal, state, claim, approval, updates>>
      BY <1>2, <2>2 DEF Bind
    <3> QED
      BY <1>1, <3>1, Stopping, OnlyOpMoves, StepOf DEF Sound
  <2> QED
    BY <2>1, <2>2
<1>3. CASE DaemonBinds
  <2> DEFINE next == [Idle EXCEPT !.step = "approve", !.contract = op["daemon"].contract]
  <2>1. Bind("daemon", next)
    BY <1>3 DEF DaemonBinds
  <2>2. op["daemon"].contract \in Contracts
    BY <1>1, <2>1 DEF Bind, IInv, Typed, OperationTyped
  <2>3. next \in Operations /\ next.step = "approve" /\ next.contract = op["daemon"].contract
    BY <2>2 DEF Idle, Operations, Steps, Carried
  <2> HIDE DEF next
  <2>4. ASSUME Goes("daemon", next)
        PROVE  Knows("daemon")'
    <3>1. op'["daemon"] = next
      BY <1>1, <2>4 DEF Goes
    <3> QED
      BY <2>2, <2>3, <3>1 DEF Knows, OperationTyped, WriterKnows, BinderKnows, PlannerKnows, AdvancesPassed
  <2> QED
    BY <1>1, <1>2, <2>1, <2>3, <2>4
<1>4. CASE ClientBinds
  <2>1. Goes("client", Idle) => Knows("client")'
    BY <1>1, Stopping
  <2> QED
    BY <1>1, <1>2, <1>4, <2>1, Records DEF ClientBinds
<1> QED
  BY <1>3, <1>4
LEMMA StepAuthorizes ==
    ASSUME IInv, NEW c \in Contracts, DaemonAuthorizes(c)
    PROVE  Sound
<1>1. op \in [Processes -> Operations] /\ "daemon" \in Processes
  BY DEF IInv, Typed, Processes
<1> DEFINE r == [Idle EXCEPT !.step = "promote", !.contract = c]
<1>2. Goes("daemon", r) \/ Goes("daemon", Idle)
  BY DEF DaemonAuthorizes
<1>3. UNCHANGED <<goal, state, claim, approval, updates>>
  BY DEF DaemonAuthorizes
<1>4. Goes("daemon", r) => r \in Operations /\ Knows("daemon")'
  BY <1>1, Going
<1> HIDE DEF r
<1>5. Goes("daemon", Idle) => Idle \in Operations /\ Knows("daemon")'
  BY <1>1, Stopping
<1> QED
  BY <1>1, <1>2, <1>3, <1>4, <1>5, OnlyOpMoves, StepOf DEF Sound

LEMMA StepPromotes ==
    ASSUME IInv, DaemonPromotes \/ DaemonCrashes
    PROVE  Sound
<1>1. op \in [Processes -> Operations] /\ "daemon" \in Processes
  BY DEF IInv, Typed, Processes
<1>2. Goes("daemon", Idle) /\ UNCHANGED <<goal, claim, approval, updates>>
  BY DEF DaemonPromotes, DaemonCrashes
<1>3. StatesGrow
  BY DEF DaemonPromotes, DaemonCrashes, IInv, Typed, StatesGrow, States
<1> QED
  BY <1>1, <1>2, <1>3, Stopping, OnlyContractsMove, UnwrittenGoal, StepOf DEF Sound

LEMMA StepReadsStage ==
    ASSUME IInv, NEW s \in Stages, ClientReads(s)
    PROVE  Sound
<1> DEFINE r == [Idle EXCEPT !.step = "write", !.stage = s, !.seen = ProgressOf(goal)]
<1>1. /\ op \in [Processes -> Operations] /\ goal \in Goal /\ "client" \in Processes
      /\ goal.revision \in Nat
  BY DEF IInv, Typed, Processes, Goal
<1>2. /\ ProgressOf(goal) \in Progresses
      /\ ProgressOf(goal).revision = goal.revision /\ ProgressOf(goal).completed = goal.completed
  BY <1>1, CarriedFromRow DEF ProgressOf
<1>3. r \in Operations /\ r.step = "write" /\ r.stage = s /\ r.seen = ProgressOf(goal)
  BY <1>2 DEF Idle, Operations, Steps, Carried
<1>4. Goes("client", r) /\ UNCHANGED <<goal, state, claim, approval, updates>>
  BY DEF ClientReads
<1>6. goal.bound[s] # None => Passed(goal.bound[s])
  BY DEF ClientReads, Passed
<1> HIDE DEF r
<1>7. op'["client"] = r
  BY <1>1, <1>4 DEF Goes
<1>8. Knows("client")'
  BY <1>1, <1>2, <1>3, <1>4, <1>6, <1>7
     DEF Knows, OperationTyped, WriterKnows, BinderKnows, PlannerKnows, Passed
<1> QED
  BY <1>1, <1>3, <1>4, <1>8, OnlyOpMoves, StepOf DEF Sound

\* A verdict is given or ages.
LEMMA Deciding ==
    ASSUME IInv, NEW c \in Contracts, NEW verdict \in Approvals,
           approval' = [approval EXCEPT ![c] = verdict],
           UNCHANGED <<goal, state, claim, updates>>,
           verdict.kind # "none" => state[c] # "free" /\ CoveredVerdict(verdict, c)
    PROVE  RowsKept /\ NothingLost /\ PassedBefore
<1>1. approval' \in [Contracts -> Approvals]
  BY DEF IInv, Typed
<1>2. ApprovalsAreCovered'
  BY DEF IInv, Typed, ApprovalsAreCovered, CoveredVerdict
<1>3. RowsKept
  BY <1>1, <1>2 DEF RowsKept, RowMoves, StatesGrow, ClaimsStay, IInv, Typed, BoundIsSaved
<1> QED
  BY <1>3, UnwrittenGoal

LEMMA StepAges ==
    ASSUME IInv, NEW c \in Contracts, VerdictAges(c)
    PROVE  Sound
<1>1. NoApproval \in Approvals /\ NoApproval.kind = "none"
  BY Records DEF NoApproval
<1> QED
  BY <1>1, Deciding, StepOfUser DEF VerdictAges, Sound

LEMMA StepSigns ==
    ASSUME IInv, NEW c \in Contracts, NEW A \in Scopes, SignOff(c, A)
    PROVE  Sound
<1> DEFINE signed == [kind |-> "signed", actions |-> A, exact |-> TRUE,
                      asof |-> IF trail THEN goal.grant ELSE None]
<1>1. goal.grant \in Grants /\ op \in [Processes -> Operations] /\ "client" \in Processes
  BY DEF IInv, Typed, Goal, Processes
<1>2. signed \in Approvals /\ signed.kind = "signed"
  BY <1>1, ScopesAssumption DEF Approvals
<1>3. /\ approval' = [approval EXCEPT ![c] = signed] /\ UNCHANGED <<goal, state, claim, updates>>
      /\ state[c] = "drafted"
  BY DEF SignOff
<1> HIDE DEF signed
<1>4. RowsKept /\ NothingLost /\ PassedBefore
  BY <1>2, <1>3, Deciding DEF CoveredVerdict
<1>5. op' = op \/ Goes("client", Idle)
  BY DEF SignOff, Goes
<1>6. CASE op' = op
  BY <1>4, <1>6, StepOfUser DEF Sound
<1>7. CASE Goes("client", Idle)
  BY <1>1, <1>4, <1>7, Stopping, StepOf DEF Sound
<1> QED
  BY <1>5, <1>6, <1>7

LEMMA StepPlans ==
    ASSUME IInv, NEW c \in Contracts, NEW A \in Scopes, ClientPlans(c, A)
    PROVE  Sound
<1> DEFINE plan == [actions |-> A, asof |-> IF trail THEN goal.grant ELSE None]
           r == [Idle EXCEPT !.step = "check", !.contract = c, !.seen = plan]
<1>1. /\ goal.grant \in Grants /\ op \in [Processes -> Operations] /\ "client" \in Processes
      /\ state[c] = "drafted"
  BY DEF IInv, Typed, Goal, Processes, ClientPlans
<1>2. plan \in Submissions
  BY <1>1, ScopesAssumption DEF Submissions
<1>3. Goes("client", r) /\ UNCHANGED <<goal, state, claim, approval, updates>>
  BY DEF ClientPlans
<1> HIDE DEF plan
<1>4. r \in Operations /\ r.step = "check" /\ r.contract = c /\ r.seen = plan
  <2>1. plan \in Carried
    BY <1>2, Zenon DEF Carried
  <2> QED
    BY <2>1 DEF Idle, Operations, Steps
<1> HIDE DEF r
<1>5. op'["client"] = r
  BY <1>1, <1>3 DEF Goes
<1>6. Knows("client")'
  BY <1>1, <1>2, <1>3, <1>4, <1>5
     DEF Knows, OperationTyped, WriterKnows, BinderKnows, PlannerKnows
<1> QED
  BY <1>1, <1>3, <1>4, <1>6, OnlyOpMoves, StepOf DEF Sound

LEMMA StepChecks ==
    ASSUME IInv, ClientChecks
    PROVE  Sound
<1> DEFINE c == op["client"].contract
           plan == op["client"].seen
           own == plan.actions \subseteq claim[c]
           granted == goal.grant.enabled /\ plan.actions \subseteq goal.grant.actions
           yes == [kind |-> "approved", actions |-> plan.actions, asof |-> plan.asof,
                   exact |-> own \/ plan.asof = goal.grant]
           verdict == IF own \/ granted THEN yes ELSE NoApproval
           r == [Idle EXCEPT !.step = "record", !.contract = c, !.seen = verdict]
<1>1. op \in [Processes -> Operations] /\ "client" \in Processes /\ op["client"].step = "check"
  BY DEF IInv, Typed, Processes, ClientChecks, Client
<1>2. plan \in Submissions /\ c \in Contracts /\ state[c] # "free"
  BY <1>1 DEF IInv, Typed, OperationTyped, PlannerKnows
<1>3. Goes("client", r) /\ UNCHANGED <<goal, state, claim, approval, updates>>
  BY DEF ClientChecks
<1>4. /\ yes \in Approvals /\ yes.actions = plan.actions /\ yes.asof = plan.asof
      /\ yes.exact = (own \/ plan.asof = goal.grant)
  BY <1>2 DEF Submissions, Approvals
<1>5. goal.grant \in Grants /\ goal.grant # None
  BY GrantsAssumption DEF IInv, Typed, Goal
<1>6. verdict \in Approvals /\ CoveredVerdict(verdict, c)
  <2>1. CASE own \/ granted
    <3>1. verdict = yes
      BY <2>1
    <3>2. CoveredVerdict(yes, c)
      <4> HIDE DEF yes
      <4> QED
        BY <1>4, <1>5, <2>1 DEF CoveredVerdict
    <3> QED
      BY <1>4, <3>1, <3>2
  <2>2. CASE ~ (own \/ granted)
    BY <2>2, Records DEF CoveredVerdict, NoApproval
  <2> QED
    BY <2>1, <2>2
<1> HIDE DEF verdict, plan, c
<1>7. r \in Operations /\ r.step = "record" /\ r.contract = c /\ r.seen = verdict
  <2>1. verdict \in Carried
    BY <1>6, Zenon DEF Carried
  <2> QED
    BY <1>2, <2>1 DEF Idle, Operations, Steps
<1> HIDE DEF r
<1>8. op'["client"] = r
  BY <1>1, <1>3 DEF Goes
<1>9. op'["client"].step = "record" /\ op'["client"].contract = c /\ op'["client"].seen = verdict
  BY <1>7, <1>8
<1>10. Knows("client")'
  <2>1. claim' = claim /\ state' = state
    BY <1>3
  <2>2. CoveredVerdict(op["client"].seen, op["client"].contract)'
    BY <1>6, <1>9, <2>1 DEF CoveredVerdict
  <2> QED
    BY <1>2, <1>6, <1>9, <2>1, <2>2
       DEF Knows, OperationTyped, WriterKnows, BinderKnows, PlannerKnows
<1> QED
  BY <1>1, <1>3, <1>7, <1>10, OnlyOpMoves, StepOf DEF Sound

LEMMA StepRecords ==
    ASSUME IInv, ClientRecords
    PROVE  Sound
<1> DEFINE c == op["client"].contract
           v == op["client"].seen
<1>1. op \in [Processes -> Operations] /\ "client" \in Processes /\ op["client"].step = "record"
  BY DEF IInv, Typed, Processes, ClientRecords, Client
<1>2. v \in Approvals /\ c \in Contracts /\ state[c] # "free" /\ CoveredVerdict(v, c)
  BY <1>1 DEF IInv, Typed, OperationTyped, PlannerKnows
<1>3. /\ approval' = [approval EXCEPT ![c] = v] /\ UNCHANGED <<goal, state, claim, updates>>
      /\ Goes("client", Idle)
  BY DEF ClientRecords
<1> HIDE DEF v, c
<1>4. RowsKept /\ NothingLost /\ PassedBefore
  BY <1>2, <1>3, Deciding
<1> QED
  BY <1>1, <1>3, <1>4, Stopping, StepOf DEF Sound

LEMMA StepMoves ==
    ASSUME IInv, NEW c \in Contracts, Approve(c) \/ Cancel(c)
    PROVE  Sound
<1>1. UNCHANGED <<goal, claim, approval, op, updates>>
  BY DEF Approve, Cancel
<1>2. StatesGrow
  BY DEF Approve, Cancel, IInv, Typed, StatesGrow, States
<1> QED
  BY <1>1, <1>2, OnlyContractsMove, UnwrittenGoal, StepOfUser DEF Sound

LEMMA StepUpdates ==
    ASSUME IInv, NEW g \in Grants, NEW stages \in [Stages -> Contracts \union {None}],
           NEW done \in SUBSET Stages, NEW proposal, UpdateGoal(g, stages, done, proposal)
    PROVE  Sound
<1> DEFINE more == goal.revision + 1
           at == IF done = goal.completed THEN goal.current ELSE First(Stages \ done)
           h == [goal EXCEPT !.revision = more, !.grant = g, !.bound = stages,
                             !.completed = done, !.current = at]
<1>1. /\ goal' = h /\ UNCHANGED <<state, claim, approval, op>>
      /\ \A s \in Stages : stages[s] # None => state[stages[s]] # "free"
  BY DEF UpdateGoal
<1>2. goal \in Goal /\ more \in Nat /\ goal.revision \in Nat /\ more > goal.revision
  BY DEF IInv, Typed, Goal
<1>3. updates' \in 0..MaxUpdates /\ updates' # updates
  BY BoundAssumption DEF UpdateGoal, IInv, Typed
<1>4. at \in {0} \union Stages
  BY <1>2, FirstStage DEF Goal
<1> HIDE DEF more, at
<1>5. h \in Goal /\ h.revision = more /\ h.bound = stages
  BY <1>2, <1>4 DEF Goal
<1> HIDE DEF h
<1>6. BoundIsSaved' /\ ApprovalsAreCovered'
  BY <1>1, <1>5 DEF IInv, BoundIsSaved, ApprovalsAreCovered, CoveredVerdict
<1>7. RowsKept
  BY <1>1, <1>2, <1>3, <1>5, <1>6 DEF RowsKept, RowMoves, StatesGrow, ClaimsStay, IInv, Typed
<1> QED
  BY <1>1, <1>3, <1>7, StepOfUser DEF Sound, NoEdit

LEMMA StepConfirms ==
    ASSUME IInv, NEW c \in Contracts, UserConfirms(c)
    PROVE  Sound
<1> DEFINE s == StageOf(goal, c)
           passed == [state EXCEPT ![c] = "complete"]
           moved == IF s # 0 /\ s = CurrentStage(goal) THEN Completing(goal, goal, s) ELSE goal
           t == moved.current
<1>1. /\ goal \in Goal /\ goal.revision \in Nat /\ goal.completed \in SUBSET Stages
      /\ goal.bound \in [Stages -> Contracts \union {None}]
      /\ state \in [Contracts -> States] /\ claim \in [Contracts -> SUBSET Actions]
      /\ state[c] = "active"
  BY DEF IInv, Typed, Goal, UserConfirms
<1>2. s \in {0} \union Stages /\ (s # 0 => goal.bound[s] = c)
  BY <1>1, StageOfBinds
<1>3. /\ moved \in Goal /\ (moved = goal \/ moved.revision > goal.revision)
      /\ moved.bound = goal.bound /\ moved.grant = goal.grant /\ moved.revision \in Nat
      /\ goal.completed \subseteq moved.completed
      /\ \A u \in moved.completed \ goal.completed : goal.bound[u] = c
  <2>1. CASE s # 0 /\ s = CurrentStage(goal)
    <3>1. moved = Completing(goal, goal, s) /\ s \in Stages
      BY <1>2, <2>1
    <3> HIDE DEF moved, s
    <3>2. /\ moved \in Goal /\ moved.revision = goal.revision + 1 /\ moved.bound = goal.bound
          /\ moved.grant = goal.grant /\ moved.completed = goal.completed \union {s}
      BY <1>1, <3>1, CompletingGoal
    <3> QED
      BY <1>1, <1>2, <2>1, <3>2
  <2>2. CASE ~ (s # 0 /\ s = CurrentStage(goal))
    BY <1>1, <2>2
  <2> QED
    BY <2>1, <2>2
<1>4. UNCHANGED <<approval, op, updates>>
  BY DEF UserConfirms
<1> HIDE DEF s
<1>5. CASE t # 0 /\ moved.bound[t] = None
  <2> DEFINE wanted == SynthesizedClaim(moved)
  <2>1. PICK d \in Free :
           /\ Patch(Binding(moved, moved, t, d))
           /\ claim' = [claim EXCEPT ![d] = wanted]
           /\ state' = [passed EXCEPT ![d] =
                 IF PreAuthorized(wanted, NoApproval, moved.grant) THEN "active" ELSE "drafted"]
    BY <1>5 DEF UserConfirms, s
  <2>2. d \in Contracts /\ state[d] = "free"
    BY DEF Free
  <2>3. wanted \in SUBSET Actions
    BY <1>1, <1>3, ClaimSynthesized
  <2>4. t \in Stages /\ moved.grant \in Grants
    BY <1>3, <1>5 DEF Goal
  <2> HIDE DEF wanted, moved
  <2>5. /\ goal' \in Goal /\ goal'.revision = moved.revision + 1
        /\ goal'.bound = [goal.bound EXCEPT ![t] = d] /\ goal'.completed = moved.completed
        /\ goal'.grant = goal.grant
    BY <1>1, <1>3, <2>1, <2>2, <2>4, BindingGoal DEF Patch
  <2>6. StatesGrow /\ state'[c] = "complete" /\ state'[d] # "free"
    BY <1>1, <2>1, <2>2 DEF StatesGrow, States
  <2>7. BoundIsSaved'
    <3> SUFFICES ASSUME NEW u \in Stages, goal'.bound[u] # None
                 PROVE  state'[goal'.bound[u]] # "free"
      BY DEF BoundIsSaved
    <3>1. CASE u = t
      BY <1>1, <2>4, <2>5, <2>6, <3>1
    <3>2. CASE u # t
      <4>1. goal'.bound[u] = goal.bound[u] /\ goal.bound[u] \in Contracts
        BY <1>1, <2>5, <3>2
      <4> QED
        BY <2>6, <4>1 DEF IInv, BoundIsSaved, StatesGrow
    <3> QED
      BY <3>1, <3>2
  <2>8. ClaimsStay /\ ApprovalsAreCovered'
    BY <1>1, <1>4, <2>1, <2>2, <2>6
       DEF IInv, ApprovalsAreCovered, CoveredVerdict, StatesGrow, ClaimsStay
  <2>9. RowMoves
    BY <1>1, <1>3, <2>5 DEF RowMoves
  <2>10. RowsKept
    BY <1>1, <1>4, <2>1, <2>2, <2>3, <2>5, <2>6, <2>7, <2>8, <2>9 DEF RowsKept, IInv, Typed
  <2>11. NothingLost
    BY <1>1, <1>3, <1>5, <2>4, <2>5 DEF NothingLost
  <2>12. PassedBefore
    BY <1>3, <2>5, <2>6 DEF PassedBefore
  <2> QED
    BY <1>4, <2>10, <2>11, <2>12, StepOfUser DEF Sound
<1>6. CASE ~ (t # 0 /\ moved.bound[t] = None)
  <2>1. goal' = moved /\ state' = passed /\ claim' = claim
    BY <1>6 DEF UserConfirms, s, Patch
  <2> HIDE DEF moved
  <2>2. StatesGrow /\ state'[c] = "complete"
    BY <1>1, <2>1 DEF StatesGrow, States
  <2>3. BoundIsSaved'
    <3> SUFFICES ASSUME NEW u \in Stages, goal.bound[u] # None
                 PROVE  state'[goal.bound[u]] # "free"
      BY <1>3, <2>1 DEF BoundIsSaved
    <3>1. goal.bound[u] \in Contracts
      BY <1>1
    <3> QED
      BY <2>2, <3>1 DEF IInv, BoundIsSaved, StatesGrow
  <2>4. ApprovalsAreCovered'
    BY <1>4, <2>1, <2>2 DEF IInv, ApprovalsAreCovered, CoveredVerdict, StatesGrow
  <2>5. RowsKept
    BY <1>1, <1>3, <1>4, <2>1, <2>2, <2>3, <2>4 DEF RowsKept, RowMoves, ClaimsStay, IInv, Typed
  <2>6. NothingLost /\ PassedBefore
    BY <1>3, <2>1, <2>2, KeptBindings DEF PassedBefore
  <2> QED
    BY <1>4, <2>5, <2>6, StepOfUser DEF Sound
<1> QED
  BY <1>5, <1>6

-----------------------------------------------------------------------------
LEMMA InitInv == Init => IInv
<1> SUFFICES ASSUME Init PROVE IInv
  OBVIOUS
<1>1. /\ goal.revision = 2 /\ goal.revision \in Nat /\ goal.bound = [s \in Stages |-> None]
      /\ goal.completed = {} /\ goal.current = 0 /\ goal.grant \in Grants
  BY DEF Init
<1>2. goal \in Goal
  BY DEF Init, Goal
<1>3. Typed
  <2>1. state \in [Contracts -> States] /\ claim \in [Contracts -> SUBSET Actions]
    BY DEF Init, States
  <2>2. approval \in [Contracts -> Approvals] /\ op \in [Processes -> Operations]
    BY Records DEF Init
  <2>3. \A p \in Processes : OperationTyped(p)
    BY DEF Init, Idle, OperationTyped
  <2>4. updates \in 0..MaxUpdates
    BY BoundAssumption DEF Init
  <2> QED
    BY <1>2, <2>1, <2>2, <2>3, <2>4 DEF Typed
<1>4. BoundIsSaved
  BY <1>1 DEF BoundIsSaved
<1>5. (\A p \in Processes : WriterKnows(p) /\ BinderKnows(p) /\ PlannerKnows(p)) /\ AdvancesPassed
  BY DEF Init, Idle, WriterKnows, BinderKnows, PlannerKnows, AdvancesPassed, Processes
<1>6. ApprovalsAreCovered
  BY DEF Init, NoApproval, ApprovalsAreCovered
<1> QED
  BY <1>3, <1>4, <1>5, <1>6 DEF IInv

LEMMA StepSound ==
    ASSUME IInv, [Next]_vars
    PROVE  Sound
<1>1. CASE DaemonStep
  BY <1>1, StepReads, StepAdvances, StepLooksAhead, StepPrepares, StepBinds, StepPromotes,
     StepCompletes, StepAuthorizes DEF DaemonStep
<1>2. CASE DaemonCrashes
  BY <1>2, StepPromotes
<1>3. CASE ClientStep
  BY <1>3, StepBinds, StepAdvances, StepChecks, StepRecords, StepPrepares, StepReadsStage,
     StepPlans DEF ClientStep
<1>4. CASE UserStep
  BY <1>4, StepUpdates, StepAges, StepSigns, StepMoves, StepConfirms DEF UserStep
<1>5. CASE UNCHANGED vars
  BY <1>5, OnlyOpMoves, StepOfUser DEF vars, Sound
<1> QED
  BY <1>1, <1>2, <1>3, <1>4, <1>5 DEF Next

(* Every value of the constants: what each process carries from one          *)
(* transaction of goal/prepare, goal/advance or the daemon's rounds to the   *)
(* next stays true of the rows as long as the revision it read stands.       *)
THEOREM InvariantHolds == Spec => []IInv
<1>1. IInv /\ [Next]_vars => IInv'
  BY StepSound DEF Sound
<1> QED
  BY InitInv, <1>1, PTL DEF Spec

LEMMA TrailTyped == Spec => [](trail \in BOOLEAN)
<1>1. Init => trail \in BOOLEAN
  BY DEF Init
<1>2. trail \in BOOLEAN /\ [Next]_vars => (trail \in BOOLEAN)'
  <2> SUFFICES ASSUME trail \in BOOLEAN, [Next]_vars PROVE trail' \in BOOLEAN
    OBVIOUS
  <2>1. ASSUME NEW g, Patch(g) PROVE trail' \in BOOLEAN
    BY <2>1 DEF Patch
  <2>2. ASSUME NEW p, NEW r, Bind(p, r) PROVE trail' \in BOOLEAN
    BY <2>1, <2>2 DEF Bind
  <2>3. CASE DaemonStep
    BY <2>1, <2>2, <2>3, Zenon DEF DaemonStep, DaemonReads, DaemonAdvances, DaemonLooksAhead,
       DaemonPrepares, Save, DaemonBinds, DaemonPromotes, DaemonCompletes, DaemonAuthorizes
  <2>4. CASE ClientStep
    BY <2>1, <2>2, <2>4, Zenon DEF ClientStep, ClientBinds, ClientAdvances, ClientChecks,
       ClientRecords, ClientPrepares, Save, ClientReads, ClientPlans
  <2>5. CASE UserStep
    <3>1. ASSUME NEW c \in Contracts, UserConfirms(c) PROVE trail' \in BOOLEAN
      BY <2>1, <3>1, Zenon DEF UserConfirms
    <3> QED
      BY <2>5, <3>1, Zenon DEF UserStep, UpdateGoal, VerdictAges, Approve, Cancel, SignOff
  <2>6. CASE DaemonCrashes \/ UNCHANGED vars
    BY <2>6 DEF DaemonCrashes, vars
  <2> QED
    BY <2>3, <2>4, <2>5, <2>6 DEF Next
<1> QED
  BY <1>1, <1>2, PTL DEF Spec

(* The rows stay well formed, a process never holds a revision from the      *)
(* future, and patch_goal binds stages to saved contracts only.              *)
THEOREM TypeCorrect == Spec => []TypeOK
<1>1. IInv /\ trail \in BOOLEAN => TypeOK
  <2> SUFFICES ASSUME IInv, trail \in BOOLEAN PROVE TypeOK
    OBVIOUS
  <2>1. ASSUME NEW p \in Processes
        PROVE  /\ op[p].step \in Steps
               /\ op[p].contract \in Contracts \union {None}
               /\ op[p].stage \in {0} \union Stages
               /\ op[p].step \in {"write", "bind"} => op[p].seen.revision <= goal.revision
    <3>1. op[p] \in Operations
      BY DEF IInv, Typed
    <3> QED
      BY <3>1 DEF IInv, Operations, WriterKnows, BinderKnows
  <2> QED
    BY <2>1 DEF IInv, Typed, TypeOK, BoundIsSaved
<1> QED
  BY InvariantHolds, TrailTyped, <1>1, PTL

(* But for goal/update, no writer of the goal row takes back what another    *)
(* has completed, bound or granted: patch_goal's compare-and-swap lets       *)
(* progress and plans in only when they were worked out from the row as it   *)
(* is.                                                                       *)
THEOREM NothingIsLost == Spec => ProgressIsNeverLost
<1>1. IInv /\ [Next]_vars =>
         [NoEdit => /\ goal'.grant = goal.grant
                    /\ goal.completed \subseteq goal'.completed
                    /\ \E s \in Stages : \A t \in Stages :
                          goal'.bound[t] # goal.bound[t] => t = s /\ goal.bound[t] = None]_vars
  BY StepSound DEF Sound, NothingLost
<1> QED
  BY InvariantHolds, <1>1, PTL DEF Spec, ProgressIsNeverLost

(* advance_goal_after_verified_contract, goal/advance and user_confirm       *)
(* complete a stage with a contract only behind that contract, whatever was  *)
(* bound since they looked.                                                  *)
THEOREM PassedFirst == Spec => CompletedStageHasPassed
<1>1. IInv /\ [Next]_vars =>
         [NoEdit => \A s \in goal'.completed \ goal.completed :
             goal.bound[s] # None => state'[goal.bound[s]] = "complete"]_vars
  BY StepSound DEF Sound, PassedBefore
<1> QED
  BY InvariantHolds, <1>1, PTL DEF Spec, CompletedStageHasPassed
-----------------------------------------------------------------------------
(* The grant.                                                               *)

\* What _goal_pre_authorizes_contract lets through is within the grant it reads,
\* or goes by a plan that was not checked against the grant of its date.
LEMMA AuthorizedIsWithin ==
    ASSUME IInv, NEW c \in Contracts, state[c] = "drafted",
           PreAuthorized(claim[c], approval[c], goal.grant)
    PROVE  Within(c, goal.grant) \/ ~ approval[c].exact
<1>1. /\ goal.grant.wildcard \in BOOLEAN /\ goal.grant.actions \in SUBSET Actions
      /\ approval[c] \in Approvals
  BY GrantsAssumption DEF IInv, Typed, Goal
<1>2. CASE claim[c] # {}
  BY <1>2 DEF PreAuthorized, Within
<1>3. CASE claim[c] = {} /\ ~ goal.grant.wildcard
  <2>1. PlanVerified(approval[c], goal.grant)
    BY <1>3 DEF PreAuthorized
  <2>2. CASE approval[c].kind = "signed"
    BY <2>2 DEF Within
  <2>3. CASE approval[c].kind = "approved" /\ approval[c].exact
    <3>1. \/ approval[c].actions = {}
          \/ approval[c].asof # None /\ approval[c].actions \subseteq approval[c].asof.actions
      BY <1>1, <1>3, <2>3 DEF IInv, ApprovalsAreCovered, CoveredVerdict, Approvals
    <3>2. approval[c].asof # None => approval[c].asof.actions \subseteq goal.grant.actions
      BY <1>3, <2>1 DEF PlanVerified, StillCovers
    <3> QED
      BY <2>3, <3>1, <3>2 DEF Within, Covers
  <2> QED
    BY <2>1, <2>2, <2>3 DEF PlanVerified
<1>4. CASE goal.grant.wildcard
  BY <1>4 DEF Within
<1> QED
  BY <1>1, <1>2, <1>3, <1>4

\* Only auto_approve_drafted_contract makes the daemon promote.
LEMMA OnlyAuthorizing ==
    ASSUME IInv, [Next]_vars, NEW c \in Contracts, Promotes(c)
    PROVE  \E d \in Contracts : DaemonAuthorizes(d)
<1>1. op \in [Processes -> Operations] /\ {"daemon", "client"} = Processes /\ "daemon" # "client"
  BY DEF IInv, Typed, Processes
<1>2. ASSUME UNCHANGED op
      PROVE  FALSE
  BY <1>2 DEF Promotes
<1>3. ASSUME NEW r, Goes("client", r)
      PROVE  FALSE
  <2>1. op'["daemon"] = op["daemon"]
    BY <1>1, <1>3 DEF Goes
  <2> QED
    BY <2>1 DEF Promotes
<1>4. ASSUME NEW r, Goes("daemon", r), r.step # "promote"
      PROVE  FALSE
  <2>1. op'["daemon"] = r
    BY <1>1, <1>4 DEF Goes
  <2> QED
    BY <1>4, <2>1 DEF Promotes
<1>5. Idle.step # "promote"
  BY DEF Idle
<1>6. ASSUME UserStep
      PROVE  FALSE
  <2>1. CASE \E d \in Contracts, A \in Scopes : SignOff(d, A)
    <3>1. op'["daemon"] = op["daemon"]
      BY <1>1, <2>1 DEF SignOff
    <3> QED
      BY <3>1 DEF Promotes
  <2> QED
    BY <1>2, <1>6, <2>1 DEF UserStep, UpdateGoal, VerdictAges, Approve, Cancel, UserConfirms
<1>7. ASSUME ClientStep
      PROVE  FALSE
  <2>1. CASE ClientBinds
    BY <1>3, <2>1 DEF ClientBinds, Bind
  <2>2. CASE ClientAdvances
    BY <1>3, <2>2 DEF ClientAdvances
  <2>3. CASE \E s \in Stages : ClientPrepares(s) \/ ClientReads(s)
    BY <1>3, <2>3 DEF ClientPrepares, Save, ClientReads
  <2>4. CASE \E d \in Contracts, A \in Scopes : ClientPlans(d, A)
    BY <1>3, <2>4 DEF ClientPlans
  <2>5. CASE ClientChecks
    BY <1>3, <2>5 DEF ClientChecks
  <2>6. CASE ClientRecords
    BY <1>3, <2>6 DEF ClientRecords
  <2> QED
    BY <1>7, <2>1, <2>2, <2>3, <2>4, <2>5, <2>6 DEF ClientStep
<1>8. op["daemon"].step \in {"idle", "approve"}
  BY DEF Promotes
<1>9. ~ (DaemonReads \/ DaemonAdvances \/ DaemonLooksAhead \/ DaemonPrepares \/ DaemonBinds \/ DaemonPromotes)
  BY <1>8 DEF DaemonReads, DaemonAdvances, DaemonLooksAhead, DaemonPrepares, DaemonBinds,
              DaemonPromotes, Bind, Daemon
<1>10. ASSUME NEW d \in Contracts, DaemonCompletes(d)
       PROVE  FALSE
  BY <1>4, <1>10 DEF DaemonCompletes, Idle
<1>11. ~ DaemonCrashes
  BY <1>4, <1>5 DEF DaemonCrashes
<1> QED
  BY <1>2, <1>6, <1>7, <1>9, <1>10, <1>11 DEF Next, DaemonStep, vars

(* What the daemon promotes lies within the grant it has just read, or was   *)
(* signed by the user, or goes by a plan that was not checked against the    *)
(* grant of its date: _grant_still_covers leaves no other approval standing  *)
(* for what the grant has lost since.                                        *)
THEOREM WithinTheGrant == Spec => OldApprovalsLapse
<1>1. ASSUME IInv, [Next]_vars, NEW c \in Contracts, Promotes(c)
      PROVE  Within(c, goal.grant) \/ ~ approval[c].exact
  <2>1. PICK d \in Contracts : DaemonAuthorizes(d)
    BY <1>1, OnlyAuthorizing
  <2> DEFINE r == [Idle EXCEPT !.step = "promote", !.contract = d]
             may == state[d] = "drafted" /\ PreAuthorized(claim[d], approval[d], goal.grant)
  <2>2. Goes("daemon", IF may THEN r ELSE Idle)
    BY <2>1 DEF DaemonAuthorizes
  <2>3. op'["daemon"] = IF may THEN r ELSE Idle
    BY <1>1, <2>2 DEF IInv, Typed, Goes, Processes
  <2>4. r.contract = d /\ Idle.step = "idle"
    BY DEF Idle
  <2> HIDE DEF r
  <2>5. may /\ c = d
    BY <1>1, <2>3, <2>4 DEF Promotes
  <2> QED
    BY <1>1, <2>5, AuthorizedIsWithin
<1>2. IInv /\ [Next]_vars =>
         [\A c \in Contracts : Promotes(c) => Within(c, goal.grant) \/ ~ approval[c].exact]_vars
  BY <1>1
<1> QED
  BY InvariantHolds, <1>2, PTL DEF Spec, OldApprovalsLapse
=============================================================================
