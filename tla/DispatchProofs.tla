---------------------------- MODULE DispatchProofs ----------------------------
(***************************************************************************)
(* Dispatch for every set of contracts and executors, every limit and any   *)
(* number of calls: capacity is never overrun, an attempt of a gated        *)
(* contract is admitted for planned content only, and no bookkeeping write  *)
(* voids an approval.                                                       *)
(***************************************************************************)
EXTENDS Dispatch, FiniteSetTheorems, TLAPS

-----------------------------------------------------------------------------
(* The inductive invariant.                                                 *)

\* An approval names a content some plan was submitted for.
ApprovalsArePlanned ==
    \A c \in Contracts : verdict[c].kind = "approved" => verdict[c].content \in planned[c]

(* What a turn has decided still holds when it is committed: nothing between *)
(* the two moves attempts, the snapshot, or a content out of the planned.    *)
DecisionStands ==
    at = "commit" =>
        \A c \in Contracts :
            pending.contract = c /\ pending.outcome \in Executors =>
                /\ used[c] < MaxDispatches
                /\ HasRoom(pending.outcome)
                /\ c \in Gated => snap[c].content \in planned[c]

\* The attempts on an executor can be counted.
Workers(x) == {c \in Contracts : worker[c] = x}
Checkers(x) == {c \in Contracts : checker[c] = x}

Countable == \A x \in Executors : IsFiniteSet(Workers(x)) /\ IsFiniteSet(Checkers(x))

IInv == TypeOK /\ ApprovalsArePlanned /\ DecisionStands /\ Countable /\ CapacityHolds

-----------------------------------------------------------------------------
(* Types.                                                                   *)

States == {"active", "paused", "blocked", "ended"}
Reasons == {"none", "plan", "no_executor", "capacity", "need_user"}
Verdicts == [kind : {"none", "approved", "rejected"}, revision : Nat, content : Contents]
Views == [state : States, revision : Nat, content : Contents]
Decisions == [contract : Contracts \union {None},
              outcome : Executors \union {"plan", "no_executor", "capacity", None}]
ClientStates == [step : {"idle", "submit", "wake"}, revision : Nat, content : Contents]

TableTyped ==
    /\ state \in [Contracts -> States]
    /\ reason \in [Contracts -> Reasons]
    /\ revision \in [Contracts -> Nat]
    /\ verdict \in [Contracts -> Verdicts]
    /\ \A c \in Contracts : reason[c] # "none" <=> state[c] = "blocked"

AttemptsTyped ==
    /\ lease \in [Contracts -> {"none", "live"}]
    /\ worker \in [Contracts -> Executors \union {None}]
    /\ checker \in [Contracts -> Executors \union {None}]
    /\ used \in [Contracts -> 0..MaxDispatches]
    /\ checks \in [Contracts -> 0..Reserved]

TickTyped ==
    /\ at \in {"idle", "wake", "woken", "turn", "commit"}
    /\ todo \subseteq Contracts
    /\ snap \in [Contracts -> Views]
    /\ pending \in Decisions

ClientTyped ==
    /\ content \in [Contracts -> Contents]
    /\ client \in [Contracts -> ClientStates]
    /\ calls \in 0..MaxCalls
    /\ planned \in [Contracts -> SUBSET Contents]

Typed == TableTyped /\ AttemptsTyped /\ TickTyped /\ ClientTyped

LEMMA TypeParts == TypeOK <=> Typed
  BY DEF TypeOK, Typed, TableTyped, AttemptsTyped, TickTyped, ClientTyped, States, Reasons,
         Verdicts, Views, Decisions, ClientStates

LEMMA TypePartsNext == TypeOK' <=> Typed'
  BY DEF TypeOK, Typed, TableTyped, AttemptsTyped, TickTyped, ClientTyped, States, Reasons,
         Verdicts, Views, Decisions, ClientStates

LEMMA Records ==
    /\ NoVerdict \in Verdicts /\ IdleClient \in ClientStates
    /\ Nothing \in Decisions /\ NoSnapshot \in [Contracts -> Views]
    /\ [IdleClient EXCEPT !.step = "wake"] \in ClientStates
  BY DEF NoVerdict, Verdicts, IdleClient, ClientStates, Nothing, Decisions, NoSnapshot, NoView,
         Views, States, Contents

LEMMA ViewTyped ==
    ASSUME Typed, NEW c \in Contracts
    PROVE  View(c) \in Views
  BY DEF Typed, TableTyped, ClientTyped, View, Views

LEMMA InitTyped == Init => TypeOK
<1> SUFFICES ASSUME Init PROVE Typed
  BY TypeParts
<1> QED
  BY Records, BoundsAssumption DEF Init, Typed, TableTyped, AttemptsTyped, TickTyped, ClientTyped,
     States, Reasons, Contents

\* The writers of the contracts table.
LEMMA WriteTyped ==
    ASSUME Typed, NEW c \in Contracts, NEW s \in States, NEW why \in Reasons,
           why # "none" <=> s = "blocked",
           Write(c, s, why) \/ Mark(c, s, why)
    PROVE  TableTyped'
<1> USE DEF Typed, TableTyped
<1>1. CASE Mark(c, s, why)
  BY <1>1 DEF Mark
<1>2. CASE Write(c, s, why)
  <2>1. Restamped(c) \in Verdicts
    <3>1. verdict[c] \in Verdicts /\ revision[c] + 1 \in Nat
      OBVIOUS
    <3> QED
      BY <3>1 DEF Restamped, Verdicts
  <2> QED
    BY <1>2, <2>1 DEF Write
<1> QED
  BY <1>1, <1>2

LEMMA BlockTyped ==
    ASSUME Typed, NEW c \in Contracts, NEW why \in Reasons \ {"none"}, BlockOrDie(c, why)
    PROVE  /\ TableTyped'
           /\ at' \in {"idle", "turn"} /\ todo' \subseteq Contracts /\ snap' \in [Contracts -> Views]
<1>1. CASE Legal(state[c], "blocked")
  <2>1. TableTyped'
    BY <1>1, WriteTyped DEF BlockOrDie, States
  <2> QED
    BY <1>1, <2>1 DEF BlockOrDie, Done, Typed, TickTyped, NoView, Views, States, Contents
<1>2. CASE ~Legal(state[c], "blocked")
  BY <1>2, Records DEF BlockOrDie, Typed, TableTyped
<1> QED
  BY <1>1, <1>2

LEMMA DoneTyped ==
    ASSUME Typed, NEW c \in Contracts, Done(c), pending' \in Decisions
    PROVE  TickTyped'
  BY DEF Done, Typed, TickTyped, NoView, Views, States, Contents

LEMMA UsersTyped ==
    ASSUME IInv, NEW c \in Contracts, Users(c) \/ PlanTools(c) \/ VerdictAges(c)
    PROVE  TypeOK'
<1> SUFFICES Typed'
  BY TypePartsNext
<1>0. Typed
  BY TypeParts DEF IInv
<1> USE <1>0, Records, BoundsAssumption
    DEF table, attempts, tick, history, Typed, Call
<1>1. CASE Pause(c) \/ Resume(c) \/ Cancel(c)
  <2>1. TableTyped'
    BY <1>1, WriteTyped DEF Pause, Resume, Cancel, States, Reasons
  <2> QED
    BY <1>1, <2>1 DEF Pause, Resume, Cancel, AttemptsTyped, TickTyped, ClientTyped
<1>2. CASE Patch(c)
  <2>1. TableTyped'
    <3>1. state[c] \in States /\ reason[c] \in Reasons /\ (reason[c] # "none" <=> state[c] = "blocked")
      BY DEF TableTyped
    <3> QED
      BY <1>2, <3>1, WriteTyped DEF Patch
  <2> QED
    BY <1>2, <2>1 DEF Patch, AttemptsTyped, TickTyped, ClientTyped
<1>3. CASE SubmitPlan(c)
  <2>1. [step |-> "submit", revision |-> revision[c], content |-> content[c]] \in ClientStates
    BY DEF TableTyped, ClientTyped, ClientStates
  <2> QED
    BY <1>3, <2>1 DEF SubmitPlan, TableTyped, AttemptsTyped, TickTyped, ClientTyped
<1>4. CASE ApprovePlan(c)
  <2>1. client[c].content \in Contents /\ client[c].revision \in Nat
    BY DEF ClientTyped, ClientStates
  <2>2. [kind |-> "approved", revision |-> client[c].revision, content |-> client[c].content]
            \in Verdicts
    BY <2>1 DEF Verdicts
  <2> QED
    BY <1>4, <2>1, <2>2 DEF ApprovePlan, TableTyped, AttemptsTyped, TickTyped, ClientTyped
<1>5. CASE RejectPlan(c)
  <2>1. [kind |-> "rejected", revision |-> 0, content |-> 0] \in Verdicts
    BY DEF Verdicts, Contents
  <2> QED
    BY <1>5, <2>1 DEF RejectPlan, TableTyped, AttemptsTyped, TickTyped, ClientTyped
<1>6. CASE WakeAfterApproval(c)
  <2>1. TableTyped'
    BY <1>6, WriteTyped DEF WakeAfterApproval, TableTyped, States, Reasons
  <2> QED
    BY <1>6, <2>1 DEF WakeAfterApproval, AttemptsTyped, TickTyped, ClientTyped
<1>7. CASE VerdictAges(c)
  BY <1>7 DEF VerdictAges, TableTyped, AttemptsTyped, TickTyped, ClientTyped
<1> QED
  BY <1>1, <1>2, <1>3, <1>4, <1>5, <1>6, <1>7 DEF Users, PlanTools

LEMMA RunnerTyped ==
    ASSUME IInv, NEW c \in Contracts, Runner(c)
    PROVE  TypeOK'
<1> SUFFICES Typed'
  BY TypePartsNext
<1>0. Typed
  BY TypeParts DEF IInv
<1>1. AttemptsTyped'
  BY <1>0, BoundsAssumption DEF Runner, AttemptEnds, GraceEnds, VerifierStarts, Typed, AttemptsTyped
<1> QED
  BY <1>0, <1>1 DEF Runner, AttemptEnds, GraceEnds, VerifierStarts, Typed, TableTyped, TickTyped,
     ClientTyped, table, tick, history

LEMMA TickSteps ==
    ASSUME IInv, Tick
    PROVE  TypeOK'
<1> SUFFICES Typed'
  BY TypePartsNext
<1>0. Typed
  BY TypeParts DEF IInv
<1> USE <1>0, Records, BoundsAssumption
    DEF table, attempts, history, Typed
<1>1. CASE BeginTick \/ BeginTurns \/ EndTick
  <2>1. TickTyped'
    BY <1>1, ViewTyped DEF BeginTick, BeginTurns, EndTick, TickTyped
  <2> QED
    BY <1>1, <2>1 DEF BeginTick, BeginTurns, EndTick, TableTyped, AttemptsTyped, ClientTyped
<1>2. ASSUME NEW c \in Contracts, WakeForCapacity(c) PROVE Typed'
  <2>1. TableTyped'
    BY <1>2, WriteTyped DEF WakeForCapacity, TableTyped, States, Reasons
  <2> QED
    BY <1>2, <2>1 DEF WakeForCapacity, AttemptsTyped, TickTyped, ClientTyped
<1>3. ASSUME NEW c \in Contracts, TurnExpires(c) \/ TurnPasses(c) PROVE Typed'
  <2>1. TableTyped'
    BY <1>3, WriteTyped DEF TurnExpires, TurnPasses, TableTyped, States, Reasons
  <2>2. TickTyped'
    BY <1>3, DoneTyped DEF TurnExpires, TurnPasses, Turn, TickTyped
  <2> QED
    BY <1>3, <2>1, <2>2 DEF TurnExpires, TurnPasses, AttemptsTyped, ClientTyped
<1>4. ASSUME NEW c \in Contracts, TurnHands(c) PROVE Typed'
  BY <1>4, BlockTyped DEF TurnHands, Reasons, AttemptsTyped, TickTyped, ClientTyped
<1>5. ASSUME NEW c \in Contracts, TurnDispatches(c) PROVE Typed'
  <2>1. PICK o \in Outcomes(c) : pending' = [contract |-> c, outcome |-> o]
    BY <1>5 DEF TurnDispatches
  <2>2. o \in Executors \union {"plan", "no_executor", "capacity", None}
    BY DEF Outcomes
  <2>3. pending' \in Decisions
    BY <2>1, <2>2 DEF Decisions
  <2> QED
    BY <1>5, <2>3 DEF TurnDispatches, TableTyped, AttemptsTyped, TickTyped, ClientTyped
<1>6. ASSUME NEW c \in Contracts, CommitDispatch(c) PROVE Typed'
  <2>1. used[c] < MaxDispatches
    BY <1>6 DEF CommitDispatch, Pending, IInv, DecisionStands
  <2>2. AttemptsTyped'
    BY <1>6, <2>1 DEF CommitDispatch, AttemptsTyped
  <2>3. TickTyped'
    BY <1>6, DoneTyped DEF CommitDispatch, Pending
  <2> QED
    BY <1>6, <2>2, <2>3 DEF CommitDispatch, TableTyped, ClientTyped
<1>7. ASSUME NEW c \in Contracts, CommitCapacity(c) PROVE Typed'
  <2>1. TableTyped'
    BY <1>7, WriteTyped DEF CommitCapacity, TableTyped, States, Reasons
  <2>2. TickTyped'
    BY <1>7, DoneTyped DEF CommitCapacity, Pending
  <2> QED
    BY <1>7, <2>1, <2>2 DEF CommitCapacity, AttemptsTyped, ClientTyped
<1>8. ASSUME NEW c \in Contracts, CommitBlocked(c) PROVE Typed'
  <2>1. BlockOrDie(c, pending.outcome) /\ pending.outcome \in Reasons \ {"none"}
    BY <1>8 DEF CommitBlocked, Reasons
  <2> QED
    BY <1>8, <2>1, BlockTyped DEF CommitBlocked, Pending, AttemptsTyped, TickTyped, ClientTyped
<1> QED
  BY <1>1, <1>2, <1>3, <1>4, <1>5, <1>6, <1>7, <1>8 DEF Tick
LEMMA NextTyped ==
    ASSUME IInv, [Next]_vars
    PROVE  TypeOK'
<1>1. CASE Tick
  BY <1>1, TickSteps
<1>2. CASE \E c \in Contracts : Users(c) \/ PlanTools(c) \/ Runner(c) \/ VerdictAges(c)
  BY <1>2, UsersTyped, RunnerTyped
<1>3. CASE UNCHANGED vars
  BY <1>3 DEF vars, IInv, TypeOK
<1> QED
  BY <1>1, <1>2, <1>3 DEF Next

-----------------------------------------------------------------------------
(* What one step does to approvals.                                         *)

\* A write of the contracts table leaves of the verdicts everything but the
\* revision they bind.
LEMMA WriteKeepsVerdicts ==
    ASSUME TypeOK, NEW c \in Contracts, NEW s, NEW why, Write(c, s, why) \/ Mark(c, s, why)
    PROVE  \A d \in Contracts : verdict'[d].kind = verdict[d].kind
                                /\ verdict'[d].content = verdict[d].content
<1>1. CASE Mark(c, s, why)
  BY <1>1 DEF Mark
<1>2. CASE Write(c, s, why)
  <2>1. verdict \in [Contracts -> Verdicts]
    BY DEF TypeOK, Verdicts
  <2>2. Restamped(c).kind = verdict[c].kind /\ Restamped(c).content = verdict[c].content
    BY <2>1 DEF Restamped, Verdicts
  <2> QED
    BY <1>2, <2>1, <2>2 DEF Write
<1> QED
  BY <1>1, <1>2

\* The steps of the tick and of the runner write the contracts table or
\* nothing that an approval depends on.
LEMMA DaemonKeepsVerdicts ==
    ASSUME TypeOK,
           Tick \/ \E c \in Contracts : Runner(c) \/ Users(c) \/ SubmitPlan(c) \/ WakeAfterApproval(c)
    PROVE  /\ planned' = planned
           /\ \A d \in Contracts : verdict'[d].kind = verdict[d].kind
                                   /\ verdict'[d].content = verdict[d].content
<1> DEFINE Same == \A d \in Contracts : verdict'[d].kind = verdict[d].kind
                                        /\ verdict'[d].content = verdict[d].content
<1> USE DEF table, history, attempts, tick
<1>1. ASSUME verdict' = verdict PROVE Same
  BY <1>1
<1>2. ASSUME NEW c \in Contracts, NEW s, NEW why, Write(c, s, why) \/ Mark(c, s, why) PROVE Same
  BY <1>2, WriteKeepsVerdicts
<1>3. ASSUME NEW c \in Contracts, NEW why, BlockOrDie(c, why) PROVE Same
  BY <1>1, <1>2, <1>3 DEF BlockOrDie
<1> HIDE DEF Same
<1>4. ASSUME BeginTick \/ BeginTurns \/ EndTick PROVE Same /\ planned' = planned
  BY <1>1, <1>4 DEF BeginTick, BeginTurns, EndTick
<1>5. ASSUME NEW c \in Contracts,
             \/ WakeForCapacity(c) \/ TurnExpires(c) \/ TurnPasses(c) \/ TurnHands(c)
             \/ TurnDispatches(c) \/ CommitDispatch(c) \/ CommitCapacity(c) \/ CommitBlocked(c)
      PROVE  Same /\ planned' = planned
  BY <1>1, <1>2, <1>3, <1>5 DEF WakeForCapacity, TurnExpires, TurnPasses, TurnHands,
     TurnDispatches, CommitDispatch, CommitCapacity, CommitBlocked
<1>6. ASSUME NEW c \in Contracts, Runner(c) \/ SubmitPlan(c) PROVE Same /\ planned' = planned
  BY <1>1, <1>6 DEF Runner, AttemptEnds, GraceEnds, VerifierStarts, SubmitPlan, Call
<1>7. ASSUME NEW c \in Contracts, Users(c) \/ WakeAfterApproval(c) PROVE Same /\ planned' = planned
  BY <1>1, <1>2, <1>7 DEF Users, Pause, Resume, Cancel, Patch, WakeAfterApproval, Call
<1>8. planned' = planned /\ Same
  BY <1>4, <1>5, <1>6, <1>7 DEF Tick
<1> QED
  BY <1>8 DEF Same

LEMMA NextPlanned ==
    ASSUME TypeOK, ApprovalsArePlanned, [Next]_vars
    PROVE  ApprovalsArePlanned' /\ \A c \in Contracts : planned[c] \subseteq planned'[c]
<1> USE DEF ApprovalsArePlanned, history
<1>1. CASE Tick \/ \E c \in Contracts : Runner(c) \/ Users(c) \/ SubmitPlan(c) \/ WakeAfterApproval(c)
  BY <1>1, DaemonKeepsVerdicts
<1>2. verdict \in [Contracts -> Verdicts] /\ planned \in [Contracts -> SUBSET Contents]
  BY DEF TypeOK, Verdicts
<1>3. ASSUME NEW c \in Contracts, ApprovePlan(c)
      PROVE  ApprovalsArePlanned' /\ \A d \in Contracts : planned[d] \subseteq planned'[d]
  BY <1>2, <1>3 DEF ApprovePlan
<1>4. ASSUME NEW c \in Contracts, RejectPlan(c) \/ VerdictAges(c)
      PROVE  ApprovalsArePlanned' /\ \A d \in Contracts : planned[d] \subseteq planned'[d]
  BY <1>2, <1>4 DEF RejectPlan, VerdictAges, NoVerdict
<1>5. CASE UNCHANGED vars
  BY <1>5 DEF vars
<1> QED
  BY <1>1, <1>3, <1>4, <1>5 DEF Next, PlanTools

-----------------------------------------------------------------------------
(* Capacity.                                                                *)

LEMMA Cardinalities ==
    ASSUME NEW A, NEW B, IsFiniteSet(A), IsFiniteSet(B), NEW e,
           NEW A2 \in SUBSET (A \union {e}), NEW B2 \in SUBSET B
    PROVE  /\ IsFiniteSet(A2) /\ IsFiniteSet(B2)
           /\ {Cardinality(A), Cardinality(B), Cardinality(A2), Cardinality(B2)} \subseteq Nat
           /\ Cardinality(A2) <= Cardinality(A) + 1 /\ Cardinality(B2) <= Cardinality(B)
           /\ A2 \subseteq A => Cardinality(A2) <= Cardinality(A)
<1>1. /\ IsFiniteSet(A \union {e})
      /\ Cardinality(A \union {e}) \in {Cardinality(A), Cardinality(A) + 1}
  BY FS_AddElement
<1>2. IsFiniteSet(A2) /\ Cardinality(A2) <= Cardinality(A \union {e})
  BY <1>1, FS_Subset
<1>3. IsFiniteSet(B2) /\ Cardinality(B2) <= Cardinality(B)
  BY FS_Subset
<1>4. A2 \subseteq A => Cardinality(A2) <= Cardinality(A)
  BY FS_Subset
<1>5. {Cardinality(A), Cardinality(B), Cardinality(A2), Cardinality(B2),
       Cardinality(A \union {e})} \subseteq Nat
  BY <1>1, <1>2, <1>3, FS_CardinalityType
<1> QED
  BY <1>1, <1>2, <1>3, <1>4, <1>5

\* No attempt is put on an executor: what it has can only get less.
LEMMA FewerAttempts ==
    ASSUME Countable, CapacityHolds,
           \A x \in Executors : Workers(x)' \subseteq Workers(x) /\ Checkers(x)' \subseteq Checkers(x)
    PROVE  Countable' /\ CapacityHolds'
<1> SUFFICES ASSUME NEW x \in Executors
             PROVE  /\ IsFiniteSet(Workers(x)') /\ IsFiniteSet(Checkers(x)')
                    /\ Count(x)' <= Cap
  BY DEF Countable, CapacityHolds
<1> DEFINE A == Workers(x)
           B == Checkers(x)
           A2 == Workers(x)'
           B2 == Checkers(x)'
<1>1. IsFiniteSet(A) /\ IsFiniteSet(B) /\ A2 \subseteq A /\ B2 \subseteq B
  BY DEF Countable
<1>2. Count(x) = Cardinality(A) + Cardinality(B) /\ Count(x)' = Cardinality(A2) + Cardinality(B2)
  BY DEF Count, Workers, Checkers
<1>3. Count(x) <= Cap
  BY DEF CapacityHolds
<1> HIDE DEF A, B, A2, B2
<1>4. /\ IsFiniteSet(A2) /\ IsFiniteSet(B2)
      /\ {Cardinality(A), Cardinality(B), Cardinality(A2), Cardinality(B2)} \subseteq Nat
      /\ Cardinality(A2) <= Cardinality(A) /\ Cardinality(B2) <= Cardinality(B)
  BY <1>1, Cardinalities
<1>5. Count(x)' <= Cap
  BY <1>2, <1>3, <1>4, CapAssumption
<1> QED
  BY <1>4, <1>5 DEF A2, B2

\* One attempt, of contract c, is put on an executor that has room.
LEMMA OneMoreAttempt ==
    ASSUME Countable, CapacityHolds, NEW c \in Contracts, NEW x \in Executors, HasRoom(x),
           \A y \in Executors :
              \/ /\ Workers(y)' \subseteq IF y = x THEN Workers(y) \union {c} ELSE Workers(y)
                 /\ Checkers(y)' \subseteq Checkers(y)
              \/ /\ Checkers(y)' \subseteq IF y = x THEN Checkers(y) \union {c} ELSE Checkers(y)
                 /\ Workers(y)' \subseteq Workers(y)
    PROVE  Countable' /\ CapacityHolds'
<1> SUFFICES ASSUME NEW y \in Executors
             PROVE  /\ IsFiniteSet(Workers(y)') /\ IsFiniteSet(Checkers(y)')
                    /\ Count(y)' <= Cap
  BY DEF Countable, CapacityHolds
<1> DEFINE A == Workers(y)
           B == Checkers(y)
           A2 == Workers(y)'
           B2 == Checkers(y)'
<1>1. IsFiniteSet(A) /\ IsFiniteSet(B)
  BY DEF Countable
<1>2. Count(y) = Cardinality(A) + Cardinality(B) /\ Count(y)' = Cardinality(A2) + Cardinality(B2)
  BY DEF Count, Workers, Checkers
<1>3. Count(y) <= Cap /\ (y = x => Count(y) < Cap)
  BY DEF CapacityHolds, HasRoom
<1>4. \/ A2 \subseteq A \union {c} /\ B2 \subseteq B
      \/ A2 \subseteq A /\ B2 \subseteq B \union {c}
  OBVIOUS
<1>5. y # x => A2 \subseteq A /\ B2 \subseteq B
  OBVIOUS
<1> HIDE DEF A, B, A2, B2
<1>6. /\ IsFiniteSet(A2) /\ IsFiniteSet(B2)
      /\ {Cardinality(A), Cardinality(B), Cardinality(A2), Cardinality(B2)} \subseteq Nat
      /\ Cardinality(A2) + Cardinality(B2) <= Cardinality(A) + Cardinality(B) + 1
      /\ y # x => Cardinality(A2) + Cardinality(B2) <= Cardinality(A) + Cardinality(B)
  <2>1. CASE A2 \subseteq A \union {c} /\ B2 \subseteq B
    <3>1. /\ IsFiniteSet(A2) /\ IsFiniteSet(B2)
          /\ {Cardinality(A), Cardinality(B), Cardinality(A2), Cardinality(B2)} \subseteq Nat
          /\ Cardinality(A2) <= Cardinality(A) + 1 /\ Cardinality(B2) <= Cardinality(B)
          /\ A2 \subseteq A => Cardinality(A2) <= Cardinality(A)
      BY <1>1, <2>1, Cardinalities
    <3> QED
      BY <1>5, <3>1
  <2>2. CASE A2 \subseteq A /\ B2 \subseteq B \union {c}
    <3>1. /\ IsFiniteSet(A2) /\ IsFiniteSet(B2)
          /\ {Cardinality(A), Cardinality(B), Cardinality(A2), Cardinality(B2)} \subseteq Nat
          /\ Cardinality(B2) <= Cardinality(B) + 1 /\ Cardinality(A2) <= Cardinality(A)
          /\ B2 \subseteq B => Cardinality(B2) <= Cardinality(B)
      BY <1>1, <2>2, Cardinalities
    <3> QED
      BY <1>5, <3>1
  <2> QED
    BY <1>4, <2>1, <2>2
<1>7. Count(y)' <= Cap
  BY <1>2, <1>3, <1>6, CapAssumption
<1> QED
  BY <1>6, <1>7 DEF A2, B2

LEMMA NextCapacity ==
    ASSUME IInv, [Next]_vars
    PROVE  Countable' /\ CapacityHolds'
<1> USE DEF IInv, table, attempts, tick, history
<1>0. worker \in [Contracts -> Executors \union {None}] /\ checker \in [Contracts -> Executors \union {None}]
  BY DEF TypeOK
<1>1. ASSUME UNCHANGED <<worker, checker>> PROVE Countable' /\ CapacityHolds'
  BY <1>1, FewerAttempts DEF Workers, Checkers
<1>2. ASSUME NEW c \in Contracts, AttemptEnds(c) PROVE Countable' /\ CapacityHolds'
  <2>1. \A x \in Executors : Workers(x)' \subseteq Workers(x) /\ Checkers(x)' \subseteq Checkers(x)
    BY <1>0, <1>2, NobodyAssumption DEF AttemptEnds, Workers, Checkers
  <2> QED
    BY <2>1, FewerAttempts
<1>3. ASSUME NEW c \in Contracts, NEW x \in Executors, VerifierStarts(c, x)
      PROVE  Countable' /\ CapacityHolds'
  <2>1. \A y \in Executors :
           /\ Checkers(y)' \subseteq IF y = x THEN Checkers(y) \union {c} ELSE Checkers(y)
           /\ Workers(y)' \subseteq Workers(y)
    BY <1>0, <1>3 DEF VerifierStarts, Workers, Checkers
  <2>2. HasRoom(x)
    BY <1>3 DEF VerifierStarts
  <2> QED
    BY <2>1, <2>2, OneMoreAttempt
<1>4. ASSUME NEW c \in Contracts, CommitDispatch(c) PROVE Countable' /\ CapacityHolds'
  <2> DEFINE x == pending.outcome
  <2>1. x \in Executors /\ HasRoom(x)
    BY <1>4 DEF CommitDispatch, Pending, DecisionStands
  <2>2. \A y \in Executors :
           /\ Workers(y)' \subseteq IF y = x THEN Workers(y) \union {c} ELSE Workers(y)
           /\ Checkers(y)' \subseteq Checkers(y)
    BY <1>0, <1>4 DEF CommitDispatch, Workers, Checkers
  <2> QED
    BY <2>1, <2>2, OneMoreAttempt
<1>5. ASSUME NEW c \in Contracts, Users(c) \/ PlanTools(c) \/ VerdictAges(c) \/ GraceEnds(c)
      PROVE  UNCHANGED <<worker, checker>>
  BY <1>5 DEF Users, Pause, Resume, Cancel, Patch, PlanTools, SubmitPlan, ApprovePlan, RejectPlan,
     WakeAfterApproval, VerdictAges, GraceEnds
<1>6. ASSUME Tick, ~\E c \in Contracts : CommitDispatch(c) PROVE UNCHANGED <<worker, checker>>
  BY <1>6 DEF Tick, BeginTick, BeginTurns, EndTick, WakeForCapacity, TurnExpires, TurnPasses,
     TurnHands, TurnDispatches, CommitCapacity, CommitBlocked
<1>7. CASE UNCHANGED vars
  BY <1>1, <1>7 DEF vars
<1> QED
  BY <1>1, <1>2, <1>3, <1>4, <1>5, <1>6, <1>7 DEF Next, Runner
-----------------------------------------------------------------------------
(* From the turn to its commit.                                             *)

\* The ladder says "respawn" only while the budget has an attempt left.
LEMMA RespawnIsPaid ==
    ASSUME NEW c \in Contracts, used[c] \in 0..MaxDispatches,
           NEW tier \in Tiers, NEW paid \in BOOLEAN, Decision(c, tier, paid) = "respawn"
    PROVE  used[c] < MaxDispatches
<1>1. MaxDispatches \in Nat /\ used[c] \in Nat
  BY BoundsAssumption
<1> SUFFICES ASSUME ~(used[c] < MaxDispatches) PROVE FALSE
  OBVIOUS
<1>2. MaxDispatches - used[c] < 1
  BY <1>1
<1> QED
  BY <1>2 DEF Decision, Decide, Tiers

LEMMA DispatchDecides ==
    ASSUME IInv, NEW c \in Contracts, TurnDispatches(c)
    PROVE  DecisionStands'
<1> USE DEF IInv
<1>1. PICK o \in Outcomes(c) : pending' = [contract |-> c, outcome |-> o]
  BY DEF TurnDispatches
<1>2. UNCHANGED <<used, worker, checker, snap, planned, verdict>>
  BY DEF TurnDispatches, attempts, history
<1>3. used[c] < MaxDispatches
  BY RespawnIsPaid DEF TurnDispatches, TypeOK
<1>4. ASSUME o \in Executors PROVE HasRoom(o) /\ (c \in Gated => Approved(c))
  BY <1>4, OutcomesAssumption DEF Outcomes
<1>5. Approved(c) => snap[c].content \in planned[c]
  BY DEF Approved, ApprovalsArePlanned
<1>6. \A x : HasRoom(x)' <=> HasRoom(x)
  BY <1>2 DEF HasRoom, Count
<1> QED
  BY <1>1, <1>2, <1>3, <1>4, <1>5, <1>6 DEF DecisionStands

LEMMA NextDecision ==
    ASSUME IInv, [Next]_vars
    PROVE  DecisionStands'
<1> USE DEF table, attempts, tick, history
<1>1. ASSUME UNCHANGED <<used, worker, checker, snap, pending, at>> PROVE DecisionStands'
  <2>1. \A c \in Contracts : planned[c] \subseteq planned'[c]
    BY NextPlanned DEF IInv
  <2>2. \A x : HasRoom(x)' <=> HasRoom(x)
    BY <1>1 DEF HasRoom, Count
  <2> QED
    BY <1>1, <2>1, <2>2 DEF IInv, DecisionStands
<1>2. ASSUME NEW c \in Contracts, Users(c) \/ PlanTools(c) \/ VerdictAges(c)
      PROVE  UNCHANGED <<used, worker, checker, snap, pending, at>>
  BY <1>2 DEF Users, Pause, Resume, Cancel, Patch, PlanTools, SubmitPlan, ApprovePlan, RejectPlan,
     WakeAfterApproval, VerdictAges
<1>3. ASSUME NEW c \in Contracts, Runner(c) PROVE at' = "idle"
  BY <1>3 DEF Runner, AttemptEnds, GraceEnds, VerifierStarts
<1>4. ASSUME NEW c \in Contracts, BlockOrDie(c, "need_user") \/ BlockOrDie(c, pending.outcome)
      PROVE  at' # "commit"
  BY <1>4 DEF BlockOrDie, Done
<1>5. ASSUME NEW c \in Contracts,
             \/ WakeForCapacity(c) \/ TurnExpires(c) \/ TurnPasses(c) \/ TurnHands(c)
             \/ CommitDispatch(c) \/ CommitCapacity(c) \/ CommitBlocked(c)
      PROVE  at' # "commit"
  BY <1>4, <1>5 DEF WakeForCapacity, TurnExpires, TurnPasses, Turn, TurnHands, CommitDispatch,
     CommitCapacity, CommitBlocked, Done
<1>6. ASSUME BeginTick \/ BeginTurns \/ EndTick PROVE at' # "commit"
  BY <1>6 DEF BeginTick, BeginTurns, EndTick
<1>7. ASSUME at' # "commit" PROVE DecisionStands'
  BY <1>7 DEF DecisionStands
<1>8. CASE Tick
  BY <1>5, <1>6, <1>7, <1>8, DispatchDecides DEF Tick
<1>9. CASE \E c \in Contracts : Users(c) \/ PlanTools(c) \/ Runner(c) \/ VerdictAges(c)
  BY <1>1, <1>2, <1>3, <1>7, <1>9
<1>10. CASE UNCHANGED vars
  BY <1>1, <1>10 DEF vars
<1> QED
  BY <1>8, <1>9, <1>10 DEF Next

-----------------------------------------------------------------------------
(* The theorems.                                                            *)

LEMMA InitInv == Init => IInv
<1> SUFFICES ASSUME Init PROVE IInv
  OBVIOUS
<1>1. TypeOK
  BY InitTyped
<1>2. ApprovalsArePlanned /\ DecisionStands
  BY DEF Init, ApprovalsArePlanned, DecisionStands, NoVerdict
<1>3. \A x \in Executors : Workers(x) = {} /\ Checkers(x) = {}
  BY NobodyAssumption DEF Init, Workers, Checkers
<1>4. IsFiniteSet({}) /\ Cardinality({}) = 0
  BY FS_EmptySet
<1>5. Countable
  BY <1>3, <1>4 DEF Countable
<1>6. CapacityHolds
  <2> SUFFICES ASSUME NEW x \in Executors PROVE Count(x) <= Cap
    BY DEF CapacityHolds
  <2>1. Count(x) = Cardinality(Workers(x)) + Cardinality(Checkers(x))
    BY DEF Count, Workers, Checkers
  <2> QED
    BY <1>3, <1>4, <2>1, CapAssumption
<1> QED
  BY <1>1, <1>2, <1>5, <1>6 DEF IInv

(* What the tick has decided for a contract stays backed by an approval of   *)
(* the content it read and by a free slot, whatever is called in between.    *)
THEOREM InvariantHolds == Spec => []IInv
<1>1. IInv /\ [Next]_vars => IInv'
  BY NextTyped, NextPlanned, NextCapacity, NextDecision DEF IInv
<1> QED
  BY <1>1, InitInv, PTL DEF Spec

(* The tables, the snapshot and the decision keep their types, however calls *)
(* fall between the tick's transactions: used and checks stay in the budget. *)
THEOREM TypeCorrect == Spec => []TypeOK
<1>1. IInv => TypeOK
  BY DEF IInv
<1> QED
  BY <1>1, InvariantHolds, PTL

(* No interleaving of contracts puts more attempts on an executor than       *)
(* max_concurrent_attempts.                                                  *)
THEOREM CapacityRespected == Spec => []CapacityHolds
<1>1. IInv => CapacityHolds
  BY DEF IInv
<1> QED
  BY <1>1, InvariantHolds, PTL

(* An attempt of a gated contract is admitted only for a content that some   *)
(* approved plan was submitted for, though every write of the contract       *)
(* carries the approval on to the new revision.                              *)
THEOREM AdmittedIsPlanned == Spec => AdmittedContentWasPlanned
<1> DEFINE Planned == \A c \in Gated : used'[c] > used[c] => snap[c].content \in planned[c]
<1>1. IInv /\ [Next]_vars => Planned \/ UNCHANGED vars
  <2> SUFFICES ASSUME IInv, Next, NEW c \in Gated, used'[c] > used[c]
               PROVE  snap[c].content \in planned[c]
    OBVIOUS
  <2> USE DEF table, attempts, tick, history
  <2>1. used[c] \in Nat /\ used \in [Contracts -> 0..MaxDispatches] /\ c \in Contracts
    BY ContractsAssumption, BoundsAssumption DEF IInv, TypeOK
  <2>2. used' # used
    BY <2>1
  <2>3. PICK d \in Contracts : CommitDispatch(d)
    BY <2>2 DEF Next, Tick, BeginTick, BeginTurns, EndTick, WakeForCapacity, TurnExpires, TurnPasses,
       TurnHands, TurnDispatches, CommitCapacity, CommitBlocked,
       Users, Pause, Resume, Cancel, Patch, PlanTools, SubmitPlan, ApprovePlan, RejectPlan,
       WakeAfterApproval, VerdictAges, Runner, AttemptEnds, GraceEnds, VerifierStarts
  <2>4. d = c
    BY <2>1, <2>3 DEF CommitDispatch
  <2> QED
    BY <2>3, <2>4 DEF CommitDispatch, Pending, IInv, DecisionStands
<1> QED
  BY <1>1, InvariantHolds, PTL DEF Spec, AdmittedContentWasPlanned
\* A write of the contracts table that leaves the content carries a binding
\* approval on.
LEMMA WriteCarries ==
    ASSUME TypeOK, NEW c \in Contracts, NEW s, NEW why, Write(c, s, why) \/ Mark(c, s, why),
           NEW d \in Contracts, Binds(d), content'[d] = content[d]
    PROVE  Binds(d)'
<1>1. CASE Mark(c, s, why)
  BY <1>1 DEF Mark, Binds
<1>2. CASE Write(c, s, why)
  <2>1. verdict \in [Contracts -> Verdicts] /\ revision \in [Contracts -> Nat]
    BY DEF TypeOK, Verdicts
  <2>2. CASE d # c
    BY <1>2, <2>1, <2>2 DEF Write, Binds
  <2>3. CASE d = c
    <3>1. Restamped(c) = [verdict[c] EXCEPT !.revision = revision[c] + 1]
      BY <2>3 DEF Restamped, Binds
    <3>2. /\ Restamped(c).kind = "approved" /\ Restamped(c).content = verdict[c].content
          /\ Restamped(c).revision = revision[c] + 1
      BY <2>1, <2>3, <3>1 DEF Binds, Verdicts
    <3> QED
      BY <1>2, <2>1, <2>3, <3>2 DEF Write, Binds
  <2> QED
    BY <2>2, <2>3
<1> QED
  BY <1>1, <1>2

(* No life-cycle or bookkeeping write of anybody voids an approval:          *)
(* update_contract_state and patch_contract stamp it with the revision they  *)
(* raise, and the wake-ups and the block for capacity raise none.            *)
THEOREM BookkeepingKeepsApprovals == Spec => ApprovalOutlivesBookkeeping
<1> DEFINE Outlives == \A c \in Gated :
              Binds(c) /\ content'[c] = content[c] /\ verdict'[c].kind = "approved" /\ ~NewVerdict(c)
              => Binds(c)'
<1>1. TypeOK /\ [Next]_vars => Outlives \/ UNCHANGED vars
  <2> SUFFICES ASSUME TypeOK, Next, NEW c \in Gated, Binds(c), content'[c] = content[c],
                      verdict'[c].kind = "approved", ~NewVerdict(c)
               PROVE  Binds(c)'
    OBVIOUS
  <2> USE DEF table, attempts, tick, history
  <2>1. c \in Contracts
    BY ContractsAssumption
  <2>2. ASSUME UNCHANGED <<verdict, revision>> PROVE Binds(c)'
    BY <2>2 DEF Binds
  <2>3. ASSUME NEW d \in Contracts, NEW s, NEW why, Write(d, s, why) \/ Mark(d, s, why)
        PROVE  Binds(c)'
    BY <2>1, <2>3, WriteCarries
  <2>4. ASSUME NEW d \in Contracts, NEW why, BlockOrDie(d, why) PROVE Binds(c)'
    BY <2>2, <2>3, <2>4 DEF BlockOrDie
  <2>5. CASE BeginTick \/ BeginTurns \/ EndTick
    BY <2>2, <2>5 DEF BeginTick, BeginTurns, EndTick
  <2>6. ASSUME NEW d \in Contracts,
               \/ WakeForCapacity(d) \/ TurnExpires(d) \/ TurnPasses(d) \/ TurnHands(d)
               \/ TurnDispatches(d) \/ CommitDispatch(d) \/ CommitCapacity(d) \/ CommitBlocked(d)
        PROVE  Binds(c)'
    BY <2>2, <2>3, <2>4, <2>6 DEF WakeForCapacity, TurnExpires, TurnPasses, TurnHands,
       TurnDispatches, CommitDispatch, CommitCapacity, CommitBlocked
  <2>7. ASSUME NEW d \in Contracts, Users(d) \/ WakeAfterApproval(d) PROVE Binds(c)'
    BY <2>2, <2>3, <2>7 DEF Users, Pause, Resume, Cancel, Patch, WakeAfterApproval
  <2>8. ASSUME NEW d \in Contracts, Runner(d) \/ SubmitPlan(d) PROVE Binds(c)'
    BY <2>2, <2>8 DEF Runner, AttemptEnds, GraceEnds, VerifierStarts, SubmitPlan
  <2>9. ASSUME NEW d \in Contracts, ApprovePlan(d) \/ RejectPlan(d) \/ VerdictAges(d)
        PROVE  Binds(c)'
    <3>1. verdict \in [Contracts -> Verdicts] /\ client \in [Contracts -> ClientStates]
      BY DEF TypeOK, Verdicts, ClientStates
    <3>2. d # c
      BY <2>1, <2>9, <3>1 DEF ApprovePlan, RejectPlan, VerdictAges, IdleClient, NoVerdict, ClientStates,
           NewVerdict
    <3> QED
      BY <2>1, <2>9, <3>1, <3>2 DEF ApprovePlan, RejectPlan, VerdictAges, Binds
  <2> QED
    BY <2>5, <2>6, <2>7, <2>8, <2>9 DEF Next, Tick, PlanTools
<1> QED
  BY <1>1, TypeCorrect, PTL DEF Spec, ApprovalOutlivesBookkeeping
=============================================================================
