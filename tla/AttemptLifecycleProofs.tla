----------------------- MODULE AttemptLifecycleProofs -----------------------
(***************************************************************************)
(* AttemptLifecycle for every set of attempt identifiers, every budget and  *)
(* any number of deaths of the daemon: one attempt in flight, the budget of *)
(* executor processes, the lease that follows the run, and the refinement   *)
(* of AttemptAxis.                                                          *)
(***************************************************************************)
EXTENDS AttemptLifecycle, FiniteSetTheorems, TLAPS

-----------------------------------------------------------------------------
(* The inductive invariant.                                                 *)

\* What counts as running holds the contract's lease; what the runner tracks
\* is running.
RunHolds == \A a \in Attempts : row[a] \in InFlight => Holds(a)
TrackedRuns == \A a \in tracked : row[a] = "running"
LiveIsHeld == lease.live => lease.holder \in Attempts

(* In the round, every run that step after step might have forgotten about *)
(* has either still to be visited or holds an unexpired lease, so that the  *)
(* claims at its end find none.                                             *)
RunsAreVisitedOrLive(S) == \A a \in Attempts \ S : row[a] \in InFlight => lease.live

RoundKept ==
    /\ at = "reconcile" => todo \cap tracked = {} /\ RunsAreVisitedOrLive(todo \union tracked)
    /\ at = "cancel" => RunsAreVisitedOrLive(tracked)
    /\ at \in {"poll", "verify"} => todo \subseteq tracked
    /\ at = "poll" => RunsAreVisitedOrLive(todo)
    /\ at = "verify" => \A a \in Attempts : row[a] \notin InFlight
    /\ at \in {"interrupt", "request", "consume", "tick", "start"} => RunsAreVisitedOrLive({})
    /\ at = "start" => \A a \in todo : row[a] = "admitted"

RunInv == TypeOK /\ RunHolds /\ TrackedRuns /\ LiveIsHeld /\ RoundKept

\* Without a death, an unexpired lease is the lease of a run or of an orphan.
LeaseIsKnown == crashes = 0 /\ lease.live => row[lease.holder] \in Scanned

\* The rows of executors are what the budget counts, and no executor process
\* is started without one.
Dispatched == {e \in Executors : row[e] # "absent"}

BudgetInv ==
    /\ IsFiniteSet(Dispatched) /\ Cardinality(Dispatched) <= MaxDispatches
    /\ spawned \cap Executors \subseteq Dispatched

-----------------------------------------------------------------------------
(* Types. *)

Leases == [holder : Attempts \union {None}, live : BOOLEAN]

TypedApart ==
    /\ row \in [Attempts -> {"absent"} \union InFlight \union Terminal]
    /\ handle \subseteq Attempts
    /\ contract \in {"active", "blocked", "complete", "ended"}
    /\ request \in {"none", "pending", "served"}
    /\ interrupts \subseteq Attempts
    /\ at \in {"down", "top", "reconcile", "cancel", "poll",
               "verify", "interrupt", "request", "consume", "tick", "start"}
    /\ todo \subseteq Attempts
    /\ bound \in [Attempts -> {"none", "child", "detached"}]
    /\ tracked \subseteq Attempts
    /\ alive \subseteq Attempts /\ overdue \subseteq Attempts /\ spawned \subseteq Attempts
    /\ crashes \in 0..MaxCrashes

LEMMA TypeParts == TypeOK <=> TypedApart /\ lease \in Leases
  BY DEF TypeOK, TypedApart, Leases

LEMMA TypePartsNext == TypeOK' <=> TypedApart' /\ lease' \in Leases
  BY DEF TypeOK, TypedApart, Leases

LEMMA Roles ==
    /\ Executors \subseteq Attempts /\ Verifiers \subseteq Attempts
    /\ None \notin Attempts
    /\ \A e \in Executors : e \notin Verifiers
  BY RolesAssumption, NoneAssumption DEF Attempts

LEMMA LeaseRecords ==
    ASSUME lease \in Leases
    PROVE  /\ NoLease \in Leases
           /\ \A a \in Attempts : {HeldBy(a), ReleasedBy(a), RenewedBy(a)} \subseteq Leases
<1>1. NoLease \in Leases
  BY DEF NoLease, Leases
<1>2. \A a \in Attempts : HeldBy(a) \in Leases
  BY DEF HeldBy, Leases
<1> QED
  BY <1>1, <1>2 DEF ReleasedBy, RenewedBy

LEMMA InitTyped == Init => TypeOK
  BY CrashesAssumption DEF Init, TypeOK, NoLease, Terminal, InFlight, Settled

LEMMA NextTyped ==
    ASSUME TypeOK, [Next]_vars
    PROVE  TypeOK'
<1> SUFFICES TypedApart' /\ lease' \in Leases
  BY TypePartsNext
<1>0. TypedApart /\ lease \in Leases
  BY TypeParts
<1> USE <1>0, CrashesAssumption, Roles, LeaseRecords
    DEF TypedApart, db, memory, world, InFlight, Terminal, Settled
<1>1. CASE Processes \/ Time \/ Users
  <2>1. ASSUME LeaseExpires PROVE lease' \in Leases
    BY <2>1 DEF LeaseExpires, Leases
  <2> QED
    BY <2>1, <1>1 DEF Processes, Exit, Time, LeaseExpires, TimeLimitPasses, Users, Terminate, Resume,
              RequestVerification, Interrupt
<1>2. CASE Death
  <2> USE DEF DaemonDies
  <2>1. CASE Die
    BY <2>1 DEF Die
  <2>2. CASE DieInVerifierDispatch
    BY <2>2 DEF DieInVerifierDispatch, SpawnVerifier, Fresh
  <2>3. ASSUME NEW a \in Attempts, DieClosing(a) PROVE TypedApart' /\ lease' \in Leases
    BY <2>3 DEF DieClosing, Stopped
  <2>4. ASSUME NEW e \in Executors, DieDispatching(e) \/ DieStarting(e)
        PROVE  TypedApart' /\ lease' \in Leases
    BY <2>4 DEF DieDispatching, DieStarting
  <2> QED
    BY <1>2, <2>1, <2>2, <2>3, <2>4 DEF Death
<1>3. CASE Daemon
  <2>1. CASE Start \/ BeginRound \/ EndReconcile \/ BeginPoll \/ EndPoll \/ EndInterrupts
    BY <2>1 DEF Start, BeginRound, EndReconcile, Adoptable, BeginPoll, EndPoll, EndInterrupts
  <2>2. ASSUME VerifierSpawned
        PROVE  /\ row' \in [Attempts -> {"absent"} \union InFlight \union Terminal]
               /\ handle' \subseteq Attempts
               /\ lease' \in Leases
               /\ bound' \in [Attempts -> {"none", "child", "detached"}]
               /\ tracked' \subseteq Attempts /\ alive' \subseteq Attempts
               /\ spawned' \subseteq Attempts
               /\ UNCHANGED <<contract, request, interrupts, overdue, crashes>>
    BY <2>2 DEF VerifierSpawned, SpawnVerifier, Fresh
  <2>3. ASSUME VerifierNotSpawned
        PROVE  /\ lease' \in Leases
               /\ contract' \in {"active", "blocked", "complete", "ended"}
               /\ UNCHANGED <<row, handle, request, interrupts, bound, tracked, world>>
    BY <2>3 DEF VerifierNotSpawned
  <2>4. CASE Verify \/ ServeRequest
    BY <2>2, <2>3, <2>4 DEF Verify, ServeRequest
  <2>5. CASE SkipRequest \/ Consume
    BY <2>5 DEF SkipRequest, Consume
  <2>6. CASE Tick
    BY <2>6 DEF Tick, TickIdles, JudgeCompletes, Expire, TickBlocks, Dispatch
  <2>7. CASE Launch
    BY <2>7 DEF Launch, StartAttempt, StartFails
  <2>8. ASSUME NEW a \in Attempts, Reconcile(a) PROVE TypedApart' /\ lease' \in Leases
    BY <2>8 DEF Reconcile, Reattach, Collect, Orphan, KeepOrphan, Fence, Reconciling
  <2>9. ASSUME NEW a \in Attempts, CancelOfEnded(a) \/ ServeInterrupt(a)
        PROVE  TypedApart' /\ lease' \in Leases
    BY <2>9 DEF CancelOfEnded, ServeInterrupt, CancelAttempt, Close, Stopped
  <2>10. ASSUME NEW a \in Attempts, Poll(a) PROVE TypedApart' /\ lease' \in Leases
    <3>1. CASE PollTimeout(a) \/ PollTimeoutUncertain(a) \/ PollHeartbeat(a)
      BY <3>1 DEF PollTimeout, PollTimeoutUncertain, PollHeartbeat, Polling, Close, Stopped
    <3>2. CASE Finish(a)
      BY <3>2 DEF Finish, Polling, Close, Results
    <3> QED
      BY <2>10, <3>1, <3>2 DEF Poll
  <2> QED
    BY <1>3, <2>1, <2>4, <2>5, <2>6, <2>7, <2>8, <2>9, <2>10 DEF Daemon
<1>4. CASE UNCHANGED vars
  BY <1>4 DEF vars
<1> QED
  BY <1>1, <1>2, <1>3, <1>4 DEF Next

(* Rows, handles, the lease and the runner's memory keep their types over    *)
(* every step of the round, death of the daemon and write of a user.         *)
THEOREM TypeCorrect == Spec => []TypeOK
<1> QED
  BY InitTyped, NextTyped, PTL DEF Spec

-----------------------------------------------------------------------------
(* One run at a time.                                                       *)

Kept == RunHolds /\ TrackedRuns /\ LiveIsHeld /\ RoundKept

NoRun == \A a \in Attempts : row[a] \notin InFlight

\* Whoever claims the lease for a verifier or an executor finds no run.
LEMMA ClaimFindsNoRun ==
    ASSUME RunInv,
           \/ at = "verify"
           \/ at = "request" /\ ~VerifierRefused
           \/ at = "tick" /\ ~lease.live
    PROVE  NoRun /\ tracked = {}
<1>1. NoRun
  <2>1. CASE at = "verify"
    BY <2>1 DEF RunInv, RoundKept, NoRun
  <2>2. CASE at = "request" /\ ~VerifierRefused
    <3> SUFFICES ASSUME NEW a \in Attempts, row[a] \in InFlight PROVE FALSE
      BY DEF NoRun
    <3>1. lease.holder = a /\ lease.live
      BY <2>2 DEF RunInv, RunHolds, Holds, RoundKept, RunsAreVisitedOrLive
    <3>2. row[a] \in Terminal
      BY <2>2, <3>1 DEF VerifierRefused, LeaseDefers
    <3> QED
      BY <3>2 DEF InFlight, Terminal, Settled
  <2>3. CASE at = "tick" /\ ~lease.live
    BY <2>3 DEF RunInv, RoundKept, RunsAreVisitedOrLive, NoRun
  <2> QED
    BY <2>1, <2>2, <2>3
<1>2. tracked = {}
  BY <1>1 DEF RunInv, TypeOK, TrackedRuns, NoRun, InFlight
<1> QED
  BY <1>1, <1>2

\* What a verifier's spawn leaves when there was no run before.
LEMMA SpawnKeeps ==
    ASSUME RunInv, NoRun, NEW v \in Verifiers, NEW n \in 1..4, SpawnVerifier(v, n)
    PROVE  RunHolds' /\ LiveIsHeld' /\ lease'.live
           /\ (n = 4 => row'[v] = "running")
           /\ (row' # row => row[v] = "absent")
<1> USE Roles DEF RunInv, TypeOK, NoRun, SpawnVerifier, HeldBy
<1>1. lease'.holder = v /\ lease'.live
  OBVIOUS
<1>2. \A a \in Attempts : a # v => row'[a] = row[a]
  OBVIOUS
<1>3. RunHolds'
  BY <1>1, <1>2 DEF RunHolds, Holds
<1> QED
  BY <1>1, <1>3 DEF LiveIsHeld, Fresh

LEMMA InitKept == Init => Kept
  BY DEF Init, Kept, RunHolds, TrackedRuns, LiveIsHeld, RoundKept, NoLease, InFlight

LEMMA DeathKept ==
    ASSUME RunInv, Death
    PROVE  Kept'
<1> USE DEF RunInv, DaemonDies
<1>1. CASE Die
  BY <1>1 DEF Die, db, Kept, RunHolds, TrackedRuns, LiveIsHeld, RoundKept, Holds
<1>2. CASE DieInVerifierDispatch
  <2>1. PICK v \in Verifiers, n \in 1..3 : SpawnVerifier(v, n)
    BY <1>2 DEF DieInVerifierDispatch
  <2>2. NoRun
    BY <1>2, <2>1, ClaimFindsNoRun DEF DieInVerifierDispatch, SpawnVerifier
  <2>3. RunHolds' /\ LiveIsHeld'
    BY <2>1, <2>2, SpawnKeeps
  <2> QED
    BY <1>2, <2>3 DEF DieInVerifierDispatch, Kept, TrackedRuns, RoundKept
<1>3. ASSUME NEW a \in Attempts, DieClosing(a) PROVE Kept'
  <2>1. lease' = lease /\ at' = "down" /\ tracked' = {}
    BY <1>3 DEF DieClosing
  <2>2. \A b \in Attempts : row'[b] \in InFlight => row[b] \in InFlight
    BY <1>3 DEF DieClosing, TypeOK, InFlight
  <2> QED
    BY <2>1, <2>2 DEF Kept, RunHolds, TrackedRuns, LiveIsHeld, RoundKept, Holds
<1>4. ASSUME NEW e \in Executors, DieDispatching(e) PROVE Kept'
  <2>1. NoRun
    BY <1>4, ClaimFindsNoRun DEF DieDispatching
  <2> QED
    BY <1>4, <2>1, Roles DEF DieDispatching, HeldBy, NoRun,
       Kept, RunHolds, TrackedRuns, LiveIsHeld, RoundKept
<1>5. ASSUME NEW e \in Executors, DieStarting(e) PROVE Kept'
  BY <1>5 DEF DieStarting, Kept, RunHolds, TrackedRuns, LiveIsHeld, RoundKept, Holds
<1> QED
  BY <1>1, <1>2, <1>3, <1>4, <1>5 DEF Death

LEMMA EnvironmentKept ==
    ASSUME RunInv, Processes \/ Time \/ Users
    PROVE  Kept'
<1> USE DEF RunInv, db, memory, world, Kept
<1>1. CASE LeaseExpires
  <2>1. lease'.holder = lease.holder /\ ~lease'.live
    BY <1>1 DEF LeaseExpires, TypeOK
  <2> QED
    BY <1>1, <2>1 DEF LeaseExpires, Between, RunHolds, TrackedRuns, LiveIsHeld, RoundKept, Holds
<1>2. CASE Processes \/ Users \/ \E a \in Attempts : TimeLimitPasses(a)
  <2>1. UNCHANGED <<row, lease, at, todo, tracked>>
    BY <1>2 DEF Processes, Exit, TimeLimitPasses, Users, Terminate, Resume,
                RequestVerification, Interrupt
  <2> QED
    BY <2>1 DEF RunHolds, TrackedRuns, LiveIsHeld, RoundKept, RunsAreVisitedOrLive, Holds
<1> QED
  BY <1>1, <1>2 DEF Time

\* Closing a row and giving its lease back.
LEMMA CloseKeeps ==
    ASSUME RunInv, NEW a \in tracked, NEW s \in Terminal, Close(a, s)
    PROVE  /\ RunHolds' /\ TrackedRuns' /\ LiveIsHeld'
           /\ \A b \in Attempts : row'[b] \notin InFlight
<1> USE DEF RunInv, TypeOK
<1>1. lease.holder = a /\ row[a] = "running"
  BY DEF TrackedRuns, RunHolds, Holds, InFlight
<1>2. \A b \in Attempts : b # a => row[b] \notin InFlight
  BY <1>1 DEF RunHolds, Holds
<1>3. \A b \in Attempts : row'[b] \notin InFlight
  BY <1>2 DEF Close, InFlight, Terminal, Settled
<1>4. lease' = NoLease
  BY <1>1 DEF Close, ReleasedBy, Holds
<1>5. tracked' = {}
  BY <1>2 DEF Close, TrackedRuns, InFlight
<1> QED
  BY <1>3, <1>4, <1>5 DEF RunHolds, TrackedRuns, LiveIsHeld, NoLease

LEMMA ReconcileKept ==
    ASSUME RunInv, NEW a \in Attempts, Reconcile(a)
    PROVE  Kept'
<1> USE DEF RunInv, TypeOK, Reconciling
<1>1. at' = "reconcile" /\ todo' = todo \ {a} /\ tracked' = tracked
  BY DEF Reconcile, Reattach, Collect, Orphan, KeepOrphan, Fence
<1>2. a \notin tracked /\ RunsAreVisitedOrLive(todo \union tracked)
  BY DEF Reconcile, Reattach, Collect, Orphan, KeepOrphan, Fence, RoundKept
<1>3. \A b \in Attempts : b # a => row'[b] = row[b]
  BY DEF Reconcile, Reattach, Collect, Orphan, KeepOrphan, Fence
<1>4. \A b \in Attempts : row'[b] \in InFlight =>
          /\ row[b] \in InFlight
          /\ lease'.holder = b
          /\ b \notin todo' \union tracked' => lease'.live
  <2> SUFFICES ASSUME NEW b \in Attempts, row'[b] \in InFlight
               PROVE  /\ row[b] \in InFlight
                      /\ lease'.holder = b
                      /\ b \notin todo' \union tracked' => lease'.live
    OBVIOUS
  <2>1. row[b] \in InFlight
    BY DEF Reconcile, Reattach, Collect, Orphan, KeepOrphan, Fence, InFlight
  <2>2. lease.holder = b
    BY <2>1 DEF RunHolds, Holds
  <2>3. lease'.holder = b
    BY <2>1, <2>2 DEF Reconcile, Reattach, Collect, Orphan, KeepOrphan, Fence,
       RenewedBy, ReleasedBy, Holds, HeldBy, InFlight
  <2>4. ASSUME b = a PROVE lease'.live
    BY <2>1, <2>2, <2>4 DEF Reconcile, Reattach, Collect, Orphan, KeepOrphan, Fence,
       RenewedBy, Holds, HeldBy, InFlight
  <2>5. ASSUME b # a, b \notin todo' \union tracked' PROVE lease'.live
    <3>1. lease.live
      BY <1>1, <1>2, <2>1, <2>5 DEF RunsAreVisitedOrLive
    <3> QED
      BY <2>1, <2>2, <2>5, <3>1 DEF Reconcile, Reattach, Collect, Orphan, KeepOrphan, Fence,
         RenewedBy, ReleasedBy, Holds, InFlight
  <2> QED
    BY <2>1, <2>3, <2>4, <2>5
<1>5. RunHolds' /\ RunsAreVisitedOrLive(todo \union tracked)'
  BY <1>4 DEF RunHolds, Holds, RunsAreVisitedOrLive
<1>6. TrackedRuns'
  BY <1>1, <1>2, <1>3 DEF TrackedRuns
<1>7. LiveIsHeld'
  BY DEF Reconcile, Reattach, Collect, Orphan, KeepOrphan, Fence,
     RenewedBy, ReleasedBy, Holds, HeldBy, NoLease, LiveIsHeld
<1>8. todo' \cap tracked' = {}
  BY <1>1 DEF RoundKept, Reconcile, Reattach, Collect, Orphan, KeepOrphan, Fence
<1> QED
  BY <1>1, <1>5, <1>6, <1>7, <1>8 DEF Kept, RoundKept
LEMMA CancelKept ==
    ASSUME RunInv, NEW a \in Attempts, CancelOfEnded(a) \/ ServeInterrupt(a)
    PROVE  Kept'
<1>1. a \in tracked /\ Close(a, "cancelled") /\ at' = at /\ todo' = todo
  BY DEF CancelOfEnded, ServeInterrupt, CancelAttempt
<1>2. at \in {"cancel", "interrupt"}
  BY DEF CancelOfEnded, ServeInterrupt
<1>3. /\ RunHolds' /\ TrackedRuns' /\ LiveIsHeld'
      /\ \A b \in Attempts : row'[b] \notin InFlight
  BY <1>1, CloseKeeps DEF Terminal, Settled
<1> QED
  BY <1>1, <1>2, <1>3 DEF Kept, RoundKept, RunsAreVisitedOrLive

LEMMA PollKept ==
    ASSUME RunInv, NEW a \in Attempts, Poll(a)
    PROVE  Kept'
<1> USE DEF RunInv, TypeOK
<1>1. at = "poll" /\ a \in todo /\ todo' = todo \ {a} /\ a \in tracked
  BY DEF Poll, PollTimeout, PollTimeoutUncertain, PollHeartbeat, Finish, Polling, RoundKept
<1>2. row[a] = "running" /\ lease.holder = a
  BY <1>1 DEF TrackedRuns, RunHolds, Holds, InFlight
<1>3. \A b \in tracked : b = a
  BY <1>2 DEF TrackedRuns, RunHolds, Holds, InFlight
<1>4. todo' = {}
  BY <1>1, <1>3 DEF RoundKept
<1>5. ASSUME NEW s \in Terminal, Close(a, s), at' \in {"poll", "verify"} PROVE Kept'
  <2>1. /\ RunHolds' /\ TrackedRuns' /\ LiveIsHeld'
        /\ \A b \in Attempts : row'[b] \notin InFlight
    BY <1>1, <1>5, CloseKeeps
  <2> QED
    BY <1>4, <1>5, <2>1 DEF Kept, RoundKept, RunsAreVisitedOrLive
<1>6. CASE PollTimeout(a)
  BY <1>1, <1>5, <1>6 DEF PollTimeout, Terminal, Settled
<1>7. CASE Finish(a)
  <2>1. PICK result \in Results(a) : Close(a, result) /\ at' \in {"poll", "verify"}
    BY <1>1, <1>7 DEF Finish
  <2>2. result \in Terminal
    BY DEF Results, Terminal, Settled
  <2> QED
    BY <1>5, <2>1, <2>2
<1>8. CASE PollTimeoutUncertain(a)
  <2>1. \A b \in Attempts : row'[b] \notin InFlight
    BY <1>2, <1>8 DEF PollTimeoutUncertain, RunHolds, Holds, InFlight
  <2>2. tracked' = {} /\ lease' = lease /\ at' = "poll"
    BY <1>1, <1>3, <1>8 DEF PollTimeoutUncertain
  <2> QED
    BY <1>4, <2>1, <2>2 DEF Kept, RunHolds, TrackedRuns, LiveIsHeld, RoundKept, RunsAreVisitedOrLive
<1>9. CASE PollHeartbeat(a)
  <2>1. lease'.holder = a /\ lease'.live /\ row' = row /\ tracked' = tracked /\ at' = "poll"
    BY <1>1, <1>9 DEF PollHeartbeat, HeldBy
  <2> QED
    BY <1>1, <1>2, <1>4, <2>1 DEF Kept, RunHolds, TrackedRuns, LiveIsHeld, RoundKept,
       RunsAreVisitedOrLive, Holds
<1> QED
  BY <1>6, <1>7, <1>8, <1>9 DEF Poll

\* The dispatch of a verifier, from the poll or for a user's request.
LEMMA VerifierKept ==
    ASSUME RunInv, Verify \/ ServeRequest
    PROVE  Kept'
<1> USE DEF RunInv, TypeOK
<1>1. CASE VerifierSpawned /\ (Verify \/ ServeRequest)
  <2>1. NoRun /\ tracked = {}
    BY <1>1, ClaimFindsNoRun DEF Verify, ServeRequest, VerifierSpawned, SpawnVerifier
  <2>2. PICK v \in Verifiers : SpawnVerifier(v, 4) /\ tracked' = tracked \union {v}
    BY <1>1 DEF VerifierSpawned
  <2>3. RunHolds' /\ LiveIsHeld' /\ lease'.live /\ row'[v] = "running"
    BY <2>1, <2>2, SpawnKeeps
  <2>4. TrackedRuns'
    BY <2>1, <2>2, <2>3 DEF TrackedRuns
  <2>5. RoundKept'
    BY <1>1, <2>1, <2>3 DEF Verify, ServeRequest, RoundKept, RunsAreVisitedOrLive
  <2> QED
    BY <2>3, <2>4, <2>5 DEF Kept
<1>2. CASE VerifierNotSpawned /\ (Verify \/ ServeRequest)
  <2>1. row' = row /\ tracked' = tracked
    BY <1>2 DEF VerifierNotSpawned
  <2>2. CASE NoRun /\ tracked = {} /\ lease' \in {lease, NoLease}
    <3>1. RunHolds' /\ TrackedRuns' /\ LiveIsHeld'
      BY <2>1, <2>2 DEF RunHolds, TrackedRuns, LiveIsHeld, NoRun, NoLease
    <3>2. RoundKept'
      BY <1>2, <2>1, <2>2 DEF Verify, ServeRequest, RoundKept, RunsAreVisitedOrLive, NoRun
    <3> QED
      BY <3>1, <3>2 DEF Kept
  <2>3. CASE lease' = lease /\ at = "request"
    BY <1>2, <2>1, <2>3 DEF Verify, ServeRequest, Kept, RunHolds, TrackedRuns, LiveIsHeld,
       RoundKept, RunsAreVisitedOrLive, Holds
  <2>4. lease' \in {lease, NoLease} /\ (lease' # lease => ~VerifierRefused)
    BY <1>2 DEF VerifierNotSpawned
  <2>5. at = "verify" \/ (at = "request" /\ ~VerifierRefused) => NoRun /\ tracked = {}
    BY ClaimFindsNoRun
  <2> QED
    BY <1>2, <2>2, <2>3, <2>4, <2>5 DEF Verify, ServeRequest
<1> QED
  BY <1>1, <1>2 DEF Verify, ServeRequest

LEMMA RoundStepKept ==
    ASSUME RunInv,
           \/ Start \/ BeginRound \/ EndReconcile \/ BeginPoll \/ EndPoll \/ EndInterrupts
           \/ SkipRequest \/ Consume
    PROVE  Kept'
<1>1. row' = row /\ lease' = lease
  BY DEF Start, BeginRound, EndReconcile, BeginPoll, EndPoll, EndInterrupts, SkipRequest,
         Consume, db
<1>2. RunHolds' /\ LiveIsHeld'
  BY <1>1 DEF RunInv, RunHolds, LiveIsHeld, Holds
<1>3. TrackedRuns'
  BY <1>1 DEF RunInv, TrackedRuns, Start, BeginRound, EndReconcile, BeginPoll, EndPoll,
     EndInterrupts, SkipRequest, Consume, Adoptable
<1>4. RoundKept'
  <2> USE <1>1 DEF RunInv, RoundKept, RunsAreVisitedOrLive
  <2>1. CASE Start
    BY <2>1 DEF Start
  <2>2. CASE BeginRound
    BY <2>2 DEF BeginRound, Scanned
  <2>3. CASE EndReconcile
    BY <2>3 DEF EndReconcile, TypeOK
  <2>4. CASE BeginPoll
    BY <2>4 DEF BeginPoll
  <2>5. CASE EndPoll
    BY <2>5 DEF EndPoll
  <2>6. CASE EndInterrupts \/ SkipRequest \/ Consume
    BY <2>6 DEF EndInterrupts, SkipRequest, Consume
  <2> QED
    BY <2>1, <2>2, <2>3, <2>4, <2>5, <2>6
<1> QED
  BY <1>2, <1>3, <1>4 DEF Kept

LEMMA TickKept ==
    ASSUME RunInv, Tick \/ Launch
    PROVE  Kept'
<1> USE DEF RunInv, TypeOK
<1>1. CASE TickIdles \/ JudgeCompletes \/ Expire \/ TickBlocks
  BY <1>1 DEF TickIdles, JudgeCompletes, Expire, TickBlocks, db,
     Kept, RunHolds, TrackedRuns, LiveIsHeld, RoundKept, Holds
<1>2. ASSUME NEW e \in Executors, Dispatch(e) PROVE Kept'
  <2>1. NoRun /\ tracked = {}
    BY <1>2, ClaimFindsNoRun DEF Dispatch
  <2>2. lease'.holder = e /\ lease'.live /\ tracked' = {} /\ todo' = {e} /\ at' = "start"
    BY <1>2, <2>1 DEF Dispatch, HeldBy
  <2>3. row'[e] = "admitted" /\ \A b \in Attempts : b # e => row'[b] = row[b]
    BY <1>2, Roles DEF Dispatch
  <2> QED
    BY <2>1, <2>2, <2>3, Roles DEF Kept, RunHolds, TrackedRuns, LiveIsHeld, RoundKept,
       RunsAreVisitedOrLive, Holds, NoRun
<1>3. ASSUME NEW e \in Executors, StartAttempt(e) \/ StartFails(e) PROVE Kept'
  <2>1. row[e] = "admitted" /\ lease.holder = e
    BY <1>3, Roles DEF StartAttempt, StartFails, RoundKept, RunHolds, Holds, InFlight
  <2>2. \A b \in Attempts : b # e => row[b] \notin InFlight
    BY <2>1 DEF RunHolds, Holds
  <2>3. tracked = {}
    BY <2>1, <2>2 DEF TrackedRuns, InFlight
  <2>4. at' = "top"
    BY <1>3 DEF StartAttempt, StartFails
  <2>5. CASE StartAttempt(e)
    BY <2>1, <2>2, <2>3, <2>4, <2>5, Roles DEF StartAttempt, Kept, RunHolds, TrackedRuns,
       LiveIsHeld, RoundKept, Holds
  <2>6. CASE StartFails(e)
    <3>1. lease' = NoLease /\ tracked' = {} /\ \A b \in Attempts : row'[b] \notin InFlight
      BY <2>1, <2>2, <2>3, <2>6, Roles DEF StartFails, ReleasedBy, Holds, InFlight
    <3> QED
      BY <2>4, <3>1 DEF Kept, RunHolds, TrackedRuns, LiveIsHeld, RoundKept, NoLease
  <2> QED
    BY <1>3, <2>5, <2>6
<1> QED
  BY <1>1, <1>2, <1>3 DEF Tick, Launch

LEMMA NextRun ==
    ASSUME RunInv, [Next]_vars
    PROVE  RunInv'
<1> SUFFICES Kept'
  BY NextTyped DEF RunInv, Kept
<1>1. CASE Daemon
  BY <1>1, ReconcileKept, CancelKept, PollKept, VerifierKept, RoundStepKept, TickKept DEF Daemon
<1>2. CASE Death
  BY <1>2, DeathKept
<1>3. CASE Processes \/ Time \/ Users
  BY <1>3, EnvironmentKept
<1>4. CASE UNCHANGED vars
  BY <1>4 DEF vars, RunInv, Kept, RunHolds, TrackedRuns, LiveIsHeld, RoundKept,
     RunsAreVisitedOrLive, Holds
<1> QED
  BY <1>1, <1>2, <1>3, <1>4 DEF Next

(* A row in flight is that of the lease's holder, and between the steps of a *)
(* round at which a claim may follow, no run is left behind unvisited.       *)
THEOREM RunsOneByOne == Spec => []RunInv
<1>1. Init => RunInv
  BY InitTyped, InitKept DEF RunInv, Kept
<1> QED
  BY <1>1, NextRun, PTL DEF Spec

(* Two attempts of a contract never work at the same time: every claim comes *)
(* after the steps of the round in which each run is renewed, closed or      *)
(* orphaned.                                                                 *)
THEOREM OneAtATime == Spec => []OneInFlight
<1>1. RunInv => OneInFlight
  BY DEF RunInv, RunHolds, Holds, OneInFlight
<1> QED
  BY <1>1, RunsOneByOne, PTL
-----------------------------------------------------------------------------
(* The lease follows the run.                                               *)

\* A step by which the daemon dies has no more to show.
LEMMA DeathCounts ==
    ASSUME TypeOK, Death
    PROVE  crashes' # 0
<1>1. crashes \in Nat /\ crashes' = crashes + 1
  BY DEF TypeOK, Death, Die, DieInVerifierDispatch, DieClosing, DieDispatching, DieStarting, DaemonDies
<1> QED
  BY <1>1

LEMMA NextLeaseKnown ==
    ASSUME RunInv, LeaseIsKnown, [Next]_vars
    PROVE  LeaseIsKnown'
<1> USE DEF RunInv, TypeOK, LeaseIsKnown, Scanned, InFlight
<1>1. CASE Death
  BY <1>1, DeathCounts
<1>2. CASE Processes \/ Time \/ Users
  <2>1. row' = row /\ crashes' = crashes
    BY <1>2 DEF Processes, Exit, Time, LeaseExpires, TimeLimitPasses, Users, Terminate, Resume,
                RequestVerification, Interrupt, db, world
  <2>2. lease' = lease \/ ~lease'.live
    BY <1>2 DEF Processes, Exit, Time, LeaseExpires, TimeLimitPasses, Users, Terminate, Resume,
                RequestVerification, Interrupt, db, world
  <2> QED
    BY <2>1, <2>2
<1>3. CASE Daemon
  <2>1. CASE Start \/ BeginRound \/ EndReconcile \/ BeginPoll \/ EndPoll \/ EndInterrupts
             \/ SkipRequest \/ Consume
    BY <2>1 DEF Start, BeginRound, EndReconcile, BeginPoll, EndPoll, EndInterrupts, SkipRequest,
                Consume, db, world
  <2>2. CASE Verify \/ ServeRequest
    <3>1. CASE VerifierSpawned
      BY <3>1, Roles DEF VerifierSpawned, SpawnVerifier, HeldBy
    <3>2. CASE VerifierNotSpawned
      BY <3>2 DEF VerifierNotSpawned, NoLease, world
    <3> QED
      BY <2>2, <3>1, <3>2 DEF Verify, ServeRequest
  <2>3. CASE Tick
    BY <2>3, Roles DEF Tick, TickIdles, JudgeCompletes, Expire, TickBlocks, Dispatch, HeldBy, db, world
  <2>4. ASSUME NEW e \in Executors, StartAttempt(e) PROVE LeaseIsKnown'
    BY <2>4, Roles DEF StartAttempt, LiveIsHeld
  <2>5. ASSUME NEW a \in Attempts, NEW s \in Terminal, s # "orphaned",
               row' = [row EXCEPT ![a] = s], lease' = ReleasedBy(a), crashes' = crashes
        PROVE  LeaseIsKnown'
    BY <2>5 DEF ReleasedBy, NoLease, Holds, LiveIsHeld
  <2>6. ASSUME NEW e \in Executors, StartFails(e) PROVE LeaseIsKnown'
    BY <2>5, <2>6, Roles DEF StartFails, world, Terminal, Settled
  <2>7. ASSUME NEW a \in Attempts, Reconcile(a) PROVE LeaseIsKnown'
    <3>1. CASE Collect(a)
      BY <2>5, <3>1 DEF Collect, Terminal, Settled
    <3>2. CASE Fence(a)
      BY <3>2 DEF Fence, NoLease
    <3>3. CASE Reattach(a) \/ Orphan(a) \/ KeepOrphan(a)
      BY <3>3 DEF Reattach, Orphan, KeepOrphan, RenewedBy, HeldBy, Holds, LiveIsHeld, world
    <3> QED
      BY <2>7, <3>1, <3>2, <3>3 DEF Reconcile
  <2>8. ASSUME NEW a \in Attempts, CancelOfEnded(a) \/ ServeInterrupt(a) PROVE LeaseIsKnown'
    BY <2>5, <2>8 DEF CancelOfEnded, ServeInterrupt, CancelAttempt, Close, Terminal, Settled
  <2>9. ASSUME NEW a \in Attempts, Poll(a) PROVE LeaseIsKnown'
    <3>1. CASE PollTimeout(a)
      BY <2>5, <3>1 DEF PollTimeout, Close, Terminal, Settled
    <3>2. CASE Finish(a)
      BY <2>5, <3>2 DEF Finish, Close, Results, Terminal, Settled
    <3>3. CASE PollTimeoutUncertain(a)
      BY <3>3 DEF PollTimeoutUncertain, LiveIsHeld
    <3>4. CASE PollHeartbeat(a)
      <4>1. row[a] = "running"
        BY <3>4 DEF PollHeartbeat, Polling, RoundKept, TrackedRuns
      <4> QED
        BY <3>4, <4>1 DEF PollHeartbeat, HeldBy, world
    <3> QED
      BY <2>9, <3>1, <3>2, <3>3, <3>4 DEF Poll
  <2> QED
    BY <1>3, <2>1, <2>2, <2>3, <2>4, <2>6, <2>7, <2>8, <2>9 DEF Daemon, Launch
<1>4. CASE UNCHANGED vars
  BY <1>4 DEF vars
<1> QED
  BY <1>1, <1>2, <1>3, <1>4 DEF Next

(* Whatever the runner tracks is running under the lease, and every way of   *)
(* closing an attempt gives its lease back.                                  *)
THEOREM LeaseFollows == Spec => []LeaseFollowsTheRun
<1>1. Init => LeaseIsKnown
  BY DEF Init, LeaseIsKnown, NoLease
<1>2. RunInv /\ LeaseIsKnown /\ [Next]_vars => LeaseIsKnown'
  BY NextLeaseKnown
<1>3. RunInv /\ LeaseIsKnown => LeaseFollowsTheRun
  BY DEF RunInv, TypeOK, RunHolds, TrackedRuns, LeaseIsKnown, LeaseFollowsTheRun, InFlight
<1> QED
  BY <1>1, <1>2, <1>3, RunsOneByOne, PTL DEF Spec

-----------------------------------------------------------------------------
(* The rows are those of AttemptAxis.                                       *)

\* Every write of a row, by whatever step.
LEMMA RowMoves ==
    ASSUME RunInv, [Next]_vars
    PROVE  \/ row' = row
           \/ \E a \in Attempts, s \in {"absent"} \union InFlight \union Terminal :
                 /\ row' = [row EXCEPT ![a] = s]
                 /\ \/ /\ row[a] = "absent" /\ s \in InFlight
                       /\ a \in Verifiers \/ Dispatch(a)
                    \/ row[a] = "admitted" /\ s \in {"running", "failed", "orphaned"}
                    \/ row[a] = "running" /\ s \in Terminal
<1> DEFINE Moved == \E a \in Attempts, s \in {"absent"} \union InFlight \union Terminal :
                       /\ row' = [row EXCEPT ![a] = s]
                       /\ \/ /\ row[a] = "absent" /\ s \in InFlight
                             /\ a \in Verifiers \/ Dispatch(a)
                          \/ row[a] = "admitted" /\ s \in {"running", "failed", "orphaned"}
                          \/ row[a] = "running" /\ s \in Terminal
<1> SUFFICES row' = row \/ Moved
  OBVIOUS
<1>1. CASE Processes \/ Time \/ Users \/ UNCHANGED vars
  BY <1>1 DEF Processes, Exit, Time, LeaseExpires, TimeLimitPasses, Users, Terminate, Resume,
              RequestVerification, Interrupt, db, vars
<1>2. ASSUME NEW v \in Verifiers, NEW n \in 1..4, SpawnVerifier(v, n) PROVE row' = row \/ Moved
  <2>1. v \in Attempts /\ row[v] = "absent"
    BY <1>2, Roles DEF SpawnVerifier, Fresh
  <2>2. row' = row \/ row' = [row EXCEPT ![v] = "admitted"] \/ row' = [row EXCEPT ![v] = "running"]
    BY <1>2 DEF SpawnVerifier
  <2> QED
    BY <2>1, <2>2 DEF InFlight
<1>3. ASSUME NEW a \in Attempts, NEW s \in Terminal, row[a] = "running",
             row' = [row EXCEPT ![a] = s]
      PROVE  Moved
  BY <1>3
<1>4. \A a \in tracked : a \in Attempts /\ row[a] = "running"
  BY DEF RunInv, TypeOK, TrackedRuns
<1>5. at = "poll" => \A a \in todo : a \in Attempts /\ row[a] = "running"
  BY <1>4 DEF RunInv, RoundKept
<1>6. CASE Death
  <2>1. CASE Die
    BY <2>1 DEF Die, db
  <2>2. CASE DieInVerifierDispatch
    BY <1>2, <2>2 DEF DieInVerifierDispatch
  <2>3. ASSUME NEW a \in Attempts, DieClosing(a) PROVE row' = row \/ Moved
    <3>1. CASE at # "reconcile"
      BY <1>3, <1>4, <2>3, <3>1 DEF DieClosing, Terminal, Settled
    <3>2. CASE at = "reconcile"
      BY <2>3, <3>2 DEF DieClosing, Terminal, Settled, InFlight
    <3> QED
      BY <3>1, <3>2
  <2>4. ASSUME NEW e \in Executors, DieDispatching(e) \/ DieStarting(e) PROVE row' = row
    BY <2>4 DEF DieDispatching, DieStarting
  <2> QED
    BY <1>6, <2>1, <2>2, <2>3, <2>4 DEF Death
<1>7. CASE Daemon
  <2>1. CASE Start \/ BeginRound \/ EndReconcile \/ BeginPoll \/ EndPoll \/ EndInterrupts
             \/ SkipRequest \/ Consume
    BY <2>1 DEF Start, BeginRound, EndReconcile, BeginPoll, EndPoll, EndInterrupts, SkipRequest,
                Consume, db
  <2>2. CASE Verify \/ ServeRequest
    BY <1>2, <2>2 DEF Verify, ServeRequest, VerifierSpawned, VerifierNotSpawned
  <2>3. ASSUME NEW e \in Executors, Dispatch(e) PROVE Moved
    BY <2>3, Roles DEF Dispatch, Fresh, InFlight
  <2>4. CASE TickIdles \/ JudgeCompletes \/ Expire \/ TickBlocks
    BY <2>4 DEF TickIdles, JudgeCompletes, Expire, TickBlocks, db
  <2>5. ASSUME NEW e \in Executors, StartAttempt(e) \/ StartFails(e) PROVE Moved
    <3>1. e \in Attempts /\ row[e] = "admitted"
      BY <2>5, Roles DEF StartAttempt, StartFails, RunInv, RoundKept
    <3> QED
      BY <2>5, <3>1 DEF StartAttempt, StartFails, InFlight, Terminal, Settled
  <2>6. ASSUME NEW a \in Attempts, Reconcile(a) PROVE row' = row \/ Moved
    <3>1. CASE Fence(a) \/ KeepOrphan(a)
      BY <3>1 DEF Fence, KeepOrphan
    <3>2. CASE Reattach(a)
      BY <3>2 DEF Reattach, InFlight, RunInv, TypeOK
    <3>3. CASE Collect(a) \/ Orphan(a)
      BY <3>3 DEF Collect, Orphan, InFlight, Terminal, Settled
    <3> QED
      BY <2>6, <3>1, <3>2, <3>3 DEF Reconcile
  <2>7. ASSUME NEW a \in Attempts, CancelOfEnded(a) \/ ServeInterrupt(a) PROVE Moved
    BY <1>3, <1>4, <2>7 DEF CancelOfEnded, ServeInterrupt, CancelAttempt, Close, Terminal, Settled
  <2>8. ASSUME NEW a \in Attempts, Poll(a) PROVE row' = row \/ Moved
    <3>1. row[a] = "running"
      BY <1>5, <2>8 DEF Poll, PollTimeout, PollTimeoutUncertain, PollHeartbeat, Finish, Polling
    <3> QED
      BY <1>3, <2>8, <3>1 DEF Poll, PollTimeout, PollTimeoutUncertain, PollHeartbeat, Finish,
         Close, Results, Terminal, Settled
  <2> QED
    BY <1>7, <2>1, <2>2, <2>3, <2>4, <2>5, <2>6, <2>7, <2>8 DEF Daemon, Tick, Launch
<1> QED
  BY <1>1, <1>6, <1>7 DEF Next

(* The unchecked writes of attempts.state implement the attempt state        *)
(* machine: terminal rows never move again.                                  *)
THEOREM ImplementsAxis == Spec => RowsFollowTheAxis
<1>1. Init => Axis!Init
  BY DEF Init, Axis!Init
<1>2. RunInv /\ [Next]_vars => [Axis!Next]_row
  <2> SUFFICES ASSUME RunInv, [Next]_vars, row' # row PROVE Axis!Next
    OBVIOUS
  <2>1. PICK a \in Attempts, s \in {"absent"} \union InFlight \union Terminal :
            /\ row' = [row EXCEPT ![a] = s]
            /\ \/ row[a] = "absent" /\ s \in InFlight
               \/ row[a] = "admitted" /\ s \in {"running", "failed", "orphaned"}
               \/ row[a] = "running" /\ s \in Terminal
    BY RowMoves
  <2>2. s \in Axis!RowStates /\ s \in Axis!LegalTransitions[row[a]]
    BY <2>1 DEF Axis!RowStates, Axis!LegalTransitions, Axis!Terminal, Axis!Unsuccessful,
       InFlight, Terminal, Settled
  <2> QED
    BY <2>1, <2>2 DEF Axis!Next, Axis!Move
<1> QED
  BY <1>1, <1>2, RunsOneByOne, PTL DEF Spec, RowsFollowTheAxis, Axis!Spec

-----------------------------------------------------------------------------
(* The budget.                                                              *)

\* An executor process is started for an admitted row only.
LEMMA SpawnsAreAdmitted ==
    ASSUME RunInv, [Next]_vars, NEW e \in (spawned' \ spawned) \cap Executors
    PROVE  row[e] # "absent"
<1>1. CASE Death
  <2>1. PICK f \in Executors : DieStarting(f) /\ f = e
    BY <1>1, Roles DEF Death, Die, DieInVerifierDispatch, SpawnVerifier, DieClosing,
       DieDispatching, DieStarting
  <2> QED
    BY <2>1 DEF DieStarting, RunInv, RoundKept
<1>2. CASE Daemon
  <2>1. ASSUME NEW f \in Executors, StartAttempt(f), f = e PROVE row[e] # "absent"
    BY <2>1 DEF StartAttempt, RunInv, RoundKept
  <2>2. CASE Start \/ BeginRound \/ EndReconcile \/ BeginPoll \/ EndPoll \/ EndInterrupts
             \/ SkipRequest \/ Consume
    BY <2>2 DEF Start, BeginRound, EndReconcile, BeginPoll, EndPoll, EndInterrupts, SkipRequest,
                Consume, world
  <2>3. CASE Verify \/ ServeRequest
    BY <2>3, Roles DEF Verify, ServeRequest, VerifierSpawned, VerifierNotSpawned, SpawnVerifier, world
  <2>4. CASE Tick
    BY <2>4 DEF Tick, TickIdles, JudgeCompletes, Expire, TickBlocks, Dispatch, world
  <2>5. CASE \E a \in Attempts : Reconcile(a) \/ CancelOfEnded(a) \/ Poll(a) \/ ServeInterrupt(a)
    BY <2>5 DEF Reconcile, Reattach, Collect, Orphan, KeepOrphan, Fence, CancelOfEnded,
       ServeInterrupt, CancelAttempt, Poll, PollTimeout, PollTimeoutUncertain, PollHeartbeat,
       Finish, world
  <2>6. CASE Launch
    BY <2>1, <2>6 DEF Launch, StartAttempt, StartFails, world
  <2> QED
    BY <1>2, <2>2, <2>3, <2>4, <2>5, <2>6 DEF Daemon
<1>3. CASE Processes \/ Time \/ Users \/ UNCHANGED vars
  BY <1>3 DEF Processes, Exit, Time, LeaseExpires, TimeLimitPasses, Users, Terminate, Resume,
              RequestVerification, Interrupt, world, vars
<1> QED
  BY <1>1, <1>2, <1>3 DEF Next

LEMMA NextBudget ==
    ASSUME RunInv, BudgetInv, [Next]_vars
    PROVE  BudgetInv'
<1>1. row \in [Attempts -> {"absent"} \union InFlight \union Terminal]
  BY DEF RunInv, TypeOK
<1>2. Dispatched \subseteq Dispatched'
  BY <1>1, RowMoves, Roles DEF Dispatched, InFlight, Terminal, Settled
<1>3. spawned' \cap Executors \subseteq Dispatched'
  BY <1>2, SpawnsAreAdmitted DEF BudgetInv, Dispatched
<1>4. CASE \E e \in Executors : Dispatch(e)
  <2>1. PICK e \in Executors : Dispatch(e)
    BY <1>4
  <2>2. Dispatched' = Dispatched \union {e} /\ e \notin Dispatched
    BY <1>1, <2>1, Roles DEF Dispatch, Fresh, Dispatched
  <2>3. IsFiniteSet(Dispatched') /\ Cardinality(Dispatched') = Cardinality(Dispatched) + 1
    BY <2>2, FS_AddElement DEF BudgetInv
  <2>4. Cardinality(Dispatched) \in Nat
    BY FS_CardinalityType DEF BudgetInv
  <2>5. Cardinality(Dispatched) < MaxDispatches
    BY <2>1 DEF Dispatch, MayDispatch, DispatchesUsed, Dispatched
  <2> QED
    BY <1>3, <2>3, <2>4, <2>5, BudgetAssumption DEF BudgetInv
<1>5. CASE ~\E e \in Executors : Dispatch(e)
  <2>1. Dispatched' = Dispatched
    <3>1. CASE row' = row
      BY <3>1 DEF Dispatched
    <3>2. ASSUME NEW a \in Attempts, NEW t, row' = [row EXCEPT ![a] = t],
                 row[a] # "absent" \/ a \in Verifiers, t # "absent"
          PROVE  Dispatched' = Dispatched
      <4>1. \A e \in Executors : row'[e] = "absent" <=> row[e] = "absent"
        BY <1>1, <3>2, Roles
      <4> QED
        BY <4>1 DEF Dispatched
    <3>3. ASSUME row' # row
          PROVE  \E a \in Attempts, t \in InFlight \union Terminal :
                    /\ row' = [row EXCEPT ![a] = t]
                    /\ row[a] # "absent" \/ a \in Verifiers
      BY <1>5, <3>3, RowMoves DEF Attempts, InFlight, Terminal, Settled
    <3> QED
      BY <3>1, <3>2, <3>3 DEF InFlight, Terminal, Settled
  <2> QED
    BY <1>3, <2>1 DEF BudgetInv
<1> QED
  BY <1>4, <1>5

(* No death of the daemon makes it start more executor processes than        *)
(* budget.max_dispatches.                                                    *)
THEOREM BudgetHolds == Spec => []ExecutorsWithinBudget
<1>1. Init => BudgetInv
  <2> SUFFICES ASSUME Init PROVE BudgetInv
    OBVIOUS
  <2>1. Dispatched = {}
    BY Roles DEF Init, Dispatched
  <2> QED
    BY <2>1, FS_EmptySet, BudgetAssumption DEF Init, BudgetInv
<1>2. RunInv /\ BudgetInv /\ [Next]_vars => BudgetInv'
  BY NextBudget
<1>3. BudgetInv => ExecutorsWithinBudget
  <2> SUFFICES ASSUME BudgetInv PROVE ExecutorsWithinBudget
    OBVIOUS
  <2>1. /\ IsFiniteSet(spawned \cap Executors)
        /\ Cardinality(spawned \cap Executors) <= Cardinality(Dispatched)
    BY FS_Subset DEF BudgetInv
  <2>2. Cardinality(spawned \cap Executors) \in Nat /\ Cardinality(Dispatched) \in Nat
    BY <2>1, FS_CardinalityType DEF BudgetInv
  <2> QED
    BY <2>1, <2>2, BudgetAssumption DEF BudgetInv, ExecutorsWithinBudget
<1> QED
  BY <1>1, <1>2, <1>3, RunsOneByOne, PTL DEF Spec
=============================================================================
