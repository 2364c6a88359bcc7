------------------------- MODULE AttemptLifecycle -------------------------
(***************************************************************************)
(* The attempts of one contract, from admission to settlement: the daemon's *)
(* round (reconcile, adopt, cancel, poll, interrupts, verification          *)
(* requests, tick, start), the external processes it drives through the     *)
(* subprocess adapter, the RPC calls of users, and a daemon that can die    *)
(* between any two writes and be started again.                             *)
(*                                                                          *)
(* What survives a death is the database (the variables of db) and the      *)
(* processes themselves; the adapter's process table and the runner's table *)
(* of running attempts do not.  A round works with one value of the clock,  *)
(* so a lease expires and a time limit passes between rounds only.          *)
(***************************************************************************)
EXTENDS Naturals, FiniteSets

CONSTANTS
    Executors,        \* identifiers of executor attempts
    Verifiers,        \* identifiers of verifier attempts
    None,             \* no holder
    MaxDispatches,    \* budget.max_dispatches
    Reserved,         \* budget.verification_attempts_reserved
    MaxCrashes,       \* bound: deaths of the daemon
    MaxInterrupts     \* bound: attempts a user interrupts

ASSUME RolesAssumption == Executors \cap Verifiers = {}
ASSUME NoneAssumption == None \notin Executors \union Verifiers
ASSUME BudgetAssumption == MaxDispatches \in Nat /\ Reserved \in Nat
ASSUME CrashesAssumption == MaxCrashes \in Nat

Attempts == Executors \union Verifiers

VARIABLES
    \* the database
    row,              \* attempts.state, or "absent"
    handle,           \* attempts whose external handle is persisted
    lease,            \* the contract's lease: its holder, and is it unexpired
    contract,         \* contract state: "ended" is cancelled or expired
    request,          \* the user's verification request
    interrupts,       \* attempts named by a control/interrupt event
    \* the daemon's memory
    at,               \* the step of the round it is at, or "down"
    todo,             \* attempts this step has still to visit
    bound,            \* adapter._procs: how each attempt's process is held
    tracked,          \* runner._running
    \* the world
    alive,            \* attempts whose process runs
    overdue,          \* the time limit (running) or grace (orphaned) has passed
    spawned,          \* history: attempts whose process was ever started
    crashes           \* history: deaths so far

db == <<row, handle, lease, contract, request, interrupts>>
memory == <<at, todo, bound, tracked>>
world == <<alive, overdue, spawned, crashes>>
vars == <<row, handle, lease, contract, request, interrupts,
          at, todo, bound, tracked,
          alive, overdue, spawned, crashes>>

Axis == INSTANCE AttemptAxis

Settled == {"succeeded", "failed", "cancelled", "stale"}
Terminal == Settled \union {"orphaned"}     \* ATTEMPT_TERMINAL_STATES
InFlight == {"admitted", "running"}         \* those this code ever writes
Scanned == InFlight \union {"orphaned"}     \* RECONCILABLE_STATES

NoLease == [holder |-> None, live |-> FALSE]
HeldBy(a) == [holder |-> a, live |-> TRUE]
Holds(a) == lease.holder = a

\* Mutant: a closed attempt keeps its lease until it expires
ReleasedByNone(a) == lease

(* release_lease, by its holder only *)
ReleasedBy(a) == IF Holds(a) THEN NoLease ELSE lease

(* renew_lease, by its holder only *)
RenewedBy(a) == IF Holds(a) THEN HeldBy(a) ELSE lease

Fresh(Ids) == {a \in Ids : row[a] = "absent" /\ a \notin spawned /\ ~Holds(a)}

\* Mutant: a dispatch whose run was orphaned is not counted
DispatchesKnown == Cardinality({e \in Executors : row[e] \notin {"absent", "orphaned"}})

VerifiersUsed == Cardinality({v \in Verifiers : row[v] \in Terminal})
DispatchesUsed == Cardinality({e \in Executors : row[e] # "absent"})

TypeOK ==
    /\ row \in [Attempts -> {"absent"} \union InFlight \union Terminal]
    /\ handle \subseteq Attempts
    /\ lease \in [holder : Attempts \union {None}, live : BOOLEAN]
    /\ contract \in {"active", "blocked", "complete", "ended"}
    /\ request \in {"none", "pending", "served"}
    /\ interrupts \subseteq Attempts
    /\ at \in {"down", "top", "reconcile", "cancel", "poll",
               "verify", "interrupt", "request", "consume", "tick", "start"}
    /\ todo \subseteq Attempts
    /\ bound \in [Attempts -> {"none", "child", "detached"}]
    /\ tracked \subseteq Attempts
    /\ alive \subseteq Attempts
    /\ overdue \subseteq Attempts
    /\ spawned \subseteq Attempts
    /\ crashes \in 0..MaxCrashes

Init ==
    /\ row = [a \in Attempts |-> "absent"]
    /\ handle = {}
    /\ lease = NoLease
    /\ contract = "active"
    /\ request = "none"
    /\ interrupts = {}
    /\ at = "down"
    /\ todo = {}
    /\ bound = [a \in Attempts |-> "none"]
    /\ tracked = {}
    /\ alive = {}
    /\ overdue = {}
    /\ spawned = {}
    /\ crashes = 0

-----------------------------------------------------------------------------
(* The processes. What one does is seen by reconcile and by poll only, so   *)
(* it happens before the one or the other.                                  *)

Between == at \in {"top", "down"}

Exit(a) ==
    /\ Between \/ at = "poll"
    /\ a \in alive
    /\ alive' = alive \ {a}
    /\ UNCHANGED <<db, memory, overdue, spawned, crashes>>

(* Time, between two rounds or while no daemon runs.                        *)

LeaseExpires ==
    /\ Between
    /\ lease.live
    /\ lease' = [lease EXCEPT !.live = FALSE]
    /\ UNCHANGED <<row, handle, contract, request, interrupts, memory, world>>

TimeLimitPasses(a) ==
    /\ Between
    /\ row[a] = "running" \/ (row[a] = "orphaned" /\ Holds(a))
    /\ a \notin overdue
    /\ overdue' = overdue \union {a}
    /\ UNCHANGED <<db, memory, alive, spawned, crashes>>

-----------------------------------------------------------------------------
(* The users' calls. They write the database only; the daemon acts on it in *)
(* the second half of its round or in the next one.                         *)

UsersCall == Between \/ at \in {"interrupt", "start"}

Interrupt(a) ==
    /\ UsersCall
    /\ row[a] # "absent"
    /\ a \notin interrupts
    /\ Cardinality(interrupts) < MaxInterrupts
    /\ interrupts' = interrupts \union {a}
    /\ UNCHANGED <<row, handle, lease, contract, request, memory, world>>

Terminate ==
    /\ UsersCall
    /\ contract \in {"active", "blocked"}
    /\ contract' = "ended"
    /\ UNCHANGED <<row, handle, lease, request, interrupts, memory, world>>

Resume ==
    /\ UsersCall
    /\ contract = "blocked"
    /\ contract' = "active"
    /\ UNCHANGED <<row, handle, lease, request, interrupts, memory, world>>

VerifierInFlight == \E v \in Verifiers : row[v] \in InFlight

(* contract/request-verification; one request is modelled, and a blocked    *)
(* contract is resumed by it                                                *)
RequestVerification ==
    /\ UsersCall
    /\ contract \in {"active", "blocked"}
    /\ request = "none"
    /\ ~VerifierInFlight
    /\ VerifiersUsed < Reserved
    /\ request' = "pending"
    /\ contract' = "active"
    /\ UNCHANGED <<row, handle, lease, interrupts, memory, world>>

-----------------------------------------------------------------------------
(* Life and death of the daemon.                                            *)

Start ==
    /\ at = "down"
    /\ at' = "top"
    /\ UNCHANGED <<db, todo, bound, tracked, world>>

(* What a dying daemon forgets. *)
DaemonDies ==
    /\ crashes < MaxCrashes
    /\ crashes' = crashes + 1
    /\ at' = "down"
    /\ todo' = {}
    /\ bound' = [a \in Attempts |-> "none"]
    /\ tracked' = {}

Die ==
    /\ at # "down"
    /\ DaemonDies
    /\ UNCHANGED <<db, alive, overdue, spawned>>

-----------------------------------------------------------------------------
(* Reconcile: every row of the scan set the runner does not track.          *)

BeginRound ==
    /\ at = "top"
    /\ at' = "reconcile"
    /\ todo' = {a \in Attempts : row[a] \in Scanned} \ tracked
    /\ UNCHANGED <<db, bound, tracked, world>>

Reconciling(a) == at = "reconcile" /\ a \in todo /\ todo' = todo \ {a}

\* Mutant: an orphan found alive is taken back
ReattachOrphan(a) ==
    /\ Reconciling(a)
    /\ row[a] \in Scanned /\ a \in handle /\ a \in alive
    /\ bound' = [bound EXCEPT ![a] = "detached"]
    /\ row' = [row EXCEPT ![a] = "running"]
    /\ lease' = RenewedBy(a)
    /\ UNCHANGED <<handle, contract, request, interrupts, at, tracked, world>>

(* Branch 1: the same run, alive. *)
Reattach(a) ==
    /\ Reconciling(a)
    /\ row[a] \in InFlight /\ a \in handle /\ a \in alive
    /\ bound' = [bound EXCEPT ![a] = "detached"]
    /\ row' = [row EXCEPT ![a] = "running"]
    /\ lease' = RenewedBy(a)
    /\ UNCHANGED <<handle, contract, request, interrupts, at, tracked, world>>

(* Branch 2: the run has ended. Its exit code and output went with the      *)
(* daemon that spawned it, so that it counts as failed; a success never     *)
(* comes out of here, nor the verifier that would follow one.               *)
Collect(a) ==
    /\ Reconciling(a)
    /\ row[a] \in InFlight /\ a \in handle /\ a \notin alive
    /\ row' = [row EXCEPT ![a] = "failed"]
    /\ bound' = [bound EXCEPT ![a] = "detached"]
    /\ lease' = ReleasedBy(a)
    /\ overdue' = overdue \ {a}
    /\ UNCHANGED <<handle, contract, request, interrupts, at, tracked,
                   alive, spawned, crashes>>

(* Branch 3: no handle, or no proof of identity. The grace starts now and   *)
(* the lease is held on the orphan's behalf.                                *)
Orphan(a) ==
    /\ Reconciling(a)
    /\ row[a] \in InFlight
    /\ row' = [row EXCEPT ![a] = "orphaned"]
    /\ overdue' = overdue \ {a}
    /\ lease' = RenewedBy(a)
    /\ UNCHANGED <<handle, contract, request, interrupts, at, bound, tracked,
                   alive, spawned, crashes>>

(* An orphan within its grace is renewed; one without a lease is done with. *)
KeepOrphan(a) ==
    /\ Reconciling(a)
    /\ row[a] = "orphaned"
    /\ a \notin overdue \/ ~Holds(a)
    /\ lease' = IF a \in overdue THEN lease ELSE RenewedBy(a)
    /\ UNCHANGED <<row, handle, contract, request, interrupts, at, bound, tracked, world>>

\* Mutant: the sweep renews an orphan whose grace is over
FenceNever(a) ==
    /\ Reconciling(a)
    /\ row[a] = "orphaned" /\ a \in overdue /\ Holds(a)
    /\ lease' = RenewedBy(a)
    /\ UNCHANGED <<row, handle, contract, request, interrupts, at, bound, tracked, world>>

(* Branch 4: the grace is over. A run whose identity is proved is sent      *)
(* SIGTERM, which it may survive; the lease goes either way.                *)
Fence(a) ==
    /\ Reconciling(a)
    /\ row[a] = "orphaned" /\ a \in overdue /\ Holds(a)
    /\ lease' = NoLease
    /\ overdue' = overdue \ {a}
    /\ \/ UNCHANGED alive
       \/ a \in handle /\ alive' = alive \ {a}
    /\ UNCHANGED <<row, handle, contract, request, interrupts, at, bound, tracked,
                   spawned, crashes>>

(* adopt_reconciled_attempts: the running holder, if its adapter sees it    *)
(* running.                                                                 *)
Adoptable ==
    {a \in Attempts \ tracked :
        row[a] = "running" /\ Holds(a) /\ bound[a] # "none" /\ a \in alive}

EndReconcile ==
    /\ at = "reconcile" /\ todo = {}
    /\ at' = "cancel"
    /\ \/ tracked' = tracked \union Adoptable
       \/ tracked' = tracked                  \* observed as "unknown"
    /\ UNCHANGED <<db, todo, bound, world>>

-----------------------------------------------------------------------------
(* _dispatch_verifier, called from two places of the round. It returns    *)
(* without an effect, blocks the contract, fails before a process runs, or  *)
(* spawns.                                                                  *)

(* A live lease defers the verifier, unless its holder's row is terminal.   *)
\* Mutant: the live lease of a running attempt does not defer the verifier
NeverDeferred == FALSE

\* Mutant: an expired lease defers it too
DeferredByExpired ==
    lease.holder # None /\ (lease.holder \in Attempts => row[lease.holder] \notin Terminal)

LeaseDefers == lease.live /\ (lease.holder \in Attempts => row[lease.holder] \notin Terminal)

VerifierRefused == contract # "active" \/ LeaseDefers \/ VerifierInFlight

BudgetSpent == VerifiersUsed >= Reserved

(* The verifier's lease, process, row and handle are four writes; a death   *)
(* after the n-th leaves the first n of them behind.                        *)
SpawnVerifier(v, n) ==
    /\ ~VerifierRefused
    /\ ~BudgetSpent
    /\ v \in Fresh(Verifiers)
    /\ lease' = HeldBy(v)
    /\ alive' = IF n >= 2 THEN alive \union {v} ELSE alive
    /\ spawned' = IF n >= 2 THEN spawned \union {v} ELSE spawned
    /\ row' = IF n <= 2 THEN row
              ELSE [row EXCEPT ![v] = IF n = 3 THEN "admitted" ELSE "running"]
    /\ handle' = IF n >= 4 THEN handle \union {v} ELSE handle
    /\ UNCHANGED <<request, interrupts, overdue>>

VerifierSpawned ==
    /\ \E v \in Verifiers :
          /\ SpawnVerifier(v, 4)
          /\ bound' = [bound EXCEPT ![v] = "child"]
          /\ tracked' = tracked \union {v}
    /\ UNCHANGED <<contract, crashes>>

VerifierNotSpawned ==
    /\ \/ VerifierRefused
          /\ UNCHANGED <<lease, contract>>
       \/ /\ ~VerifierRefused /\ BudgetSpent
          /\ contract' = "blocked"
          /\ UNCHANGED lease
       \/ /\ ~VerifierRefused /\ ~BudgetSpent    \* no candidate, no adapter
          /\ UNCHANGED <<lease, contract>>
       \/ /\ ~VerifierRefused /\ ~BudgetSpent    \* refused after the claim
          /\ lease' = NoLease
          /\ UNCHANGED contract
    /\ UNCHANGED <<row, handle, request, interrupts, bound, tracked, world>>

DieInVerifierDispatch ==
    /\ at = "verify" \/ (at = "request" /\ request = "pending")
    /\ DaemonDies
    /\ \E v \in Verifiers : \E n \in 1..3 : SpawnVerifier(v, n)
    /\ UNCHANGED contract

-----------------------------------------------------------------------------
(* Closing a row: the runner's ways out of its table.                       *)

(* adapter.cancel: the tree of a child is killed, a reattached process is   *)
(* only sent SIGTERM.                                                       *)
Stopped(a) ==
    \/ alive' = alive \ {a}
    \/ bound[a] = "detached" /\ UNCHANGED alive

Close(a, state) ==
    /\ row' = [row EXCEPT ![a] = state]
    /\ lease' = ReleasedBy(a)
    /\ tracked' = tracked \ {a}
    /\ overdue' = overdue \ {a}

(* cancel_attempt *)
CancelAttempt(a) ==
    /\ a \in tracked
    /\ Close(a, "cancelled")
    /\ Stopped(a)
    /\ UNCHANGED <<handle, contract, request, interrupts, at, todo, bound,
                   spawned, crashes>>

(* _cancel_terminal_contract_attempts *)
CancelOfEnded(a) ==
    /\ at = "cancel"
    /\ contract = "ended"
    /\ CancelAttempt(a)

BeginPoll ==
    /\ at = "cancel"
    /\ contract = "ended" => tracked = {}
    /\ at' = "poll"
    /\ todo' = tracked
    /\ UNCHANGED <<db, bound, tracked, world>>

Polling(a) == at = "poll" /\ a \in todo /\ todo' = todo \ {a}

OutOfTime(a) == row[a] = "running" /\ a \in overdue

(* A run that outlived max_attempt_minutes is cancelled and failed. *)
PollTimeout(a) ==
    /\ Polling(a)
    /\ OutOfTime(a)
    /\ Close(a, "failed")
    /\ Stopped(a)
    /\ UNCHANGED <<handle, contract, request, interrupts, at, bound,
                   spawned, crashes>>

(* The cancellation raised: whether the process runs is unknown. *)
PollTimeoutUncertain(a) ==
    /\ Polling(a)
    /\ OutOfTime(a)
    /\ row' = [row EXCEPT ![a] = "orphaned"]
    /\ overdue' = overdue \ {a}
    /\ tracked' = tracked \ {a}
    /\ UNCHANGED <<handle, lease, contract, request, interrupts, at, bound,
                   alive, spawned, crashes>>

(* A child that has printed its finished event, or exited, is done, and the *)
(* event may come at any time. The status of a reattached process may be    *)
(* unknown, which poll_attempts, unlike reconcile, takes for an end.        *)
PollHeartbeat(a) ==
    /\ Polling(a)
    /\ ~OutOfTime(a)
    /\ a \in alive /\ Holds(a)
    /\ lease' = HeldBy(a)
    /\ UNCHANGED <<row, handle, contract, request, interrupts, at, bound, tracked,
                   world>>

\* Mutant: the state observed is written as it is
ResultsAsObserved(a) == {"failed", "succeeded", "unknown"}

(* What _finish_attempt can make of an end. An executor's success is its    *)
(* word, a verifier's is decided by the evidence; a reattached run has no   *)
(* output to collect.                                                       *)
Results(a) == IF bound[a] = "child" THEN {"failed", "succeeded"} ELSE {"failed"}

(* _finish_attempt: event, row and lease in one transaction, then, for an   *)
(* executor's success, the verifier.                                        *)
Finish(a) ==
    /\ Polling(a)
    /\ ~OutOfTime(a)
    /\ \E result \in Results(a) :
          /\ Close(a, result)
          /\ at' = IF result = "succeeded" /\ a \in Executors THEN "verify" ELSE at
    /\ UNCHANGED <<handle, contract, request, interrupts, bound,
                   alive, spawned, crashes>>

Verify ==
    /\ at = "verify"
    /\ at' = "poll"
    /\ VerifierSpawned \/ VerifierNotSpawned
    /\ UNCHANGED <<todo>>

EndPoll ==
    /\ at = "poll" /\ todo = {}
    /\ at' = "interrupt"
    /\ UNCHANGED <<db, todo, bound, tracked, world>>

(* _consume_interrupt_requests: the events stay, and are read every round.  *)
ServeInterrupt(a) ==
    /\ at = "interrupt"
    /\ a \in interrupts
    /\ CancelAttempt(a)

EndInterrupts ==
    /\ at = "interrupt"
    /\ interrupts \cap tracked = {}
    /\ at' = "request"
    /\ UNCHANGED <<db, todo, bound, tracked, world>>

(* A death between the row of a closed attempt and the release of its       *)
(* lease, or between the mark of an orphan and the renewal for its grace.   *)
DieClosing(a) ==
    /\ a \in tracked \/ at = "reconcile"
    /\ \/ /\ at = "cancel" /\ contract = "ended"
          /\ row' = [row EXCEPT ![a] = "cancelled"]
          /\ Stopped(a) /\ UNCHANGED lease
       \/ /\ at = "interrupt" /\ a \in interrupts
          /\ row' = [row EXCEPT ![a] = "cancelled"]
          /\ Stopped(a) /\ UNCHANGED lease
       \/ /\ at = "poll" /\ a \in todo /\ OutOfTime(a)
          /\ row' = [row EXCEPT ![a] = "failed"]
          /\ Stopped(a) /\ UNCHANGED lease
       \/ /\ at = "reconcile" /\ a \in todo /\ row[a] \in InFlight
          /\ a \in handle /\ a \notin alive
          /\ row' = [row EXCEPT ![a] = "failed"]
          /\ UNCHANGED <<lease, alive>>
       \/ /\ at = "reconcile" /\ a \in todo /\ row[a] \in InFlight
          /\ row' = [row EXCEPT ![a] = "orphaned"]
          /\ UNCHANGED <<lease, alive>>
    /\ DaemonDies
    /\ overdue' = overdue \ {a}
    /\ UNCHANGED <<handle, contract, request, interrupts, spawned>>

-----------------------------------------------------------------------------
(* _consume_verification_requests: a request is consumed, in a transaction  *)
(* of its own, only after a verifier was spawned for it.                    *)

ServeRequest ==
    /\ at = "request" /\ request = "pending"
    /\ contract = "active" /\ ~VerifierInFlight
    /\ \/ VerifierSpawned /\ at' = "consume"
       \/ VerifierNotSpawned /\ at' = "tick"
    /\ UNCHANGED <<todo>>

SkipRequest ==
    /\ at = "request"
    /\ request # "pending" \/ contract # "active" \/ VerifierInFlight
    /\ at' = "tick"
    /\ UNCHANGED <<db, todo, bound, tracked, world>>

Consume ==
    /\ at = "consume"
    /\ request' = "served"
    /\ at' = "tick"
    /\ UNCHANGED <<row, handle, lease, contract, interrupts, todo, bound, tracked, world>>

-----------------------------------------------------------------------------
(* The tick, as far as it touches attempts: the judge may complete the      *)
(* contract after a verifier's success, the deadline may end it, a dead     *)
(* lease and a budget may lead to a dispatch.                               *)

TickIdles ==
    /\ at = "tick"
    /\ at' = "top"
    /\ UNCHANGED <<db, todo, bound, tracked, world>>

JudgeCompletes ==
    /\ at = "tick"
    /\ contract = "active"
    /\ \E v \in Verifiers : row[v] = "succeeded"
    /\ contract' = "complete"
    /\ at' = "top"
    /\ UNCHANGED <<row, handle, lease, request, interrupts, todo, bound, tracked, world>>

Expire ==
    /\ at = "tick"
    /\ contract # "ended"
    /\ contract' = "ended"
    /\ at' = "top"
    /\ UNCHANGED <<row, handle, lease, request, interrupts, todo, bound, tracked, world>>

(* No candidate, or the budget is spent. *)
TickBlocks ==
    /\ at = "tick"
    /\ contract = "active" /\ ~lease.live
    /\ contract' = "blocked"
    /\ at' = "top"
    /\ UNCHANGED <<row, handle, lease, request, interrupts, todo, bound, tracked, world>>

(* _dispatch_attempt: acquire or reclaim the lease, then insert the row;    *)
(* the process is started after the tick.                                   *)
MayDispatch == DispatchesUsed < MaxDispatches

Dispatch(e) ==
    /\ at = "tick"
    /\ contract = "active" /\ ~lease.live
    /\ MayDispatch
    /\ e \in Fresh(Executors)
    /\ lease' = HeldBy(e)
    /\ row' = [row EXCEPT ![e] = "admitted"]
    /\ todo' = {e}
    /\ at' = "start"
    /\ UNCHANGED <<handle, contract, request, interrupts, bound, tracked, world>>

DieDispatching(e) ==
    /\ at = "tick"
    /\ contract = "active" /\ ~lease.live
    /\ MayDispatch
    /\ e \in Fresh(Executors)
    /\ lease' = HeldBy(e)
    /\ DaemonDies
    /\ UNCHANGED <<row, handle, contract, request, interrupts, alive, overdue, spawned>>

(* start_attempt *)
StartAttempt(e) ==
    /\ at = "start" /\ e \in todo
    /\ alive' = alive \union {e}
    /\ spawned' = spawned \union {e}
    /\ handle' = handle \union {e}
    /\ row' = [row EXCEPT ![e] = "running"]
    /\ bound' = [bound EXCEPT ![e] = "child"]
    /\ tracked' = tracked \union {e}
    /\ at' = "top" /\ todo' = {}
    /\ UNCHANGED <<lease, contract, request, interrupts, overdue, crashes>>

(* No adapter, no room for the context, prepare refused, spawn failed. *)
StartFails(e) ==
    /\ at = "start" /\ e \in todo
    /\ row' = [row EXCEPT ![e] = "failed"]
    /\ lease' = ReleasedBy(e)
    /\ at' = "top" /\ todo' = {}
    /\ UNCHANGED <<handle, contract, request, interrupts, bound, tracked, world>>

(* A death after the spawn: without a handle, or with one and no state. *)
DieStarting(e) ==
    /\ at = "start" /\ e \in todo
    /\ DaemonDies
    /\ alive' = alive \union {e}
    /\ spawned' = spawned \union {e}
    /\ handle' \in {handle, handle \union {e}}
    /\ UNCHANGED <<row, lease, contract, request, interrupts, overdue>>

-----------------------------------------------------------------------------
Reconcile(a) == Reattach(a) \/ Collect(a) \/ Orphan(a) \/ KeepOrphan(a) \/ Fence(a)

Poll(a) == PollTimeout(a) \/ PollTimeoutUncertain(a) \/ PollHeartbeat(a) \/ Finish(a)

Tick == TickIdles \/ JudgeCompletes \/ Expire \/ TickBlocks \/ \E e \in Executors : Dispatch(e)

Launch == \E e \in Executors : StartAttempt(e) \/ StartFails(e)

Daemon ==
    \/ Start \/ BeginRound \/ EndReconcile
    \/ BeginPoll \/ Verify \/ EndPoll \/ EndInterrupts
    \/ ServeRequest \/ SkipRequest \/ Consume \/ Tick \/ Launch
    \/ \E a \in Attempts :
          Reconcile(a) \/ CancelOfEnded(a) \/ Poll(a) \/ ServeInterrupt(a)

Death ==
    \/ Die \/ DieInVerifierDispatch
    \/ \E a \in Attempts : DieClosing(a)
    \/ \E e \in Executors : DieDispatching(e) \/ DieStarting(e)

Processes ==
    \E a \in Attempts : Exit(a)

Time == LeaseExpires \/ \E a \in Attempts : TimeLimitPasses(a)

Users == Terminate \/ Resume \/ RequestVerification \/ \E a \in Attempts : Interrupt(a)

Next == Daemon \/ Death \/ Processes \/ Time \/ Users

Spec == Init /\ [][Next]_vars

-----------------------------------------------------------------------------
(* Fairness. A daemon that died is started again and one that runs goes on  *)
(* with its round; a time limit that is not reset is reached; a lease that  *)
(* nobody renews lapses; a living run is not reported "unknown" for ever,   *)
(* and a verifier that is asked for again every round is not refused by its *)
(* environment for ever.                                                    *)

LeaseLapses ==
    /\ lease.holder \in Attempts => row[lease.holder] \notin Scanned
    /\ LeaseExpires

Adopt == EndReconcile /\ tracked' = tracked \union Adoptable

Fairness ==
    /\ WF_vars(Daemon)
    /\ SF_vars(LeaseLapses)
    /\ \A a \in Attempts : SF_vars(TimeLimitPasses(a))
    /\ SF_vars(Adopt)
    /\ SF_vars(ServeRequest /\ VerifierSpawned)

FairSpec == Spec /\ Fairness

-----------------------------------------------------------------------------
(* Properties *)

(* Two attempts of a contract never work at the same time: whatever dies    *)
(* and whenever, a second row is admitted only after the first has left the *)
(* states that count as running (reconcile and poll come before the tick,   *)
(* and hold the lease of what they keep).                                   *)
OneInFlight ==
    \A a, b \in Attempts : row[a] \in InFlight /\ row[b] \in InFlight => a = b

(* No crash makes the daemon start more executor processes than             *)
(* budget.max_dispatches: the row that counts is committed before the       *)
(* process is spawned.                                                      *)
ExecutorsWithinBudget == Cardinality(spawned \cap Executors) <= MaxDispatches

(* Whatever the runner tracks is a running row that holds the contract's    *)
(* lease: no run is ever driven without write authority, though verifiers   *)
(* and executors claim leases that have expired. (With one daemon, then,    *)
(* the branches of poll_attempts for a lease that moved or is gone are      *)
(* never taken, and the model leaves them out.) And every way of closing an *)
(* attempt gives its lease back: as long as the daemon has not died, an     *)
(* unexpired lease between two rounds belongs to a row that still runs or   *)
(* is in its grace. (A leaked one would cap the contract at REMIND until it *)
(* expires.)                                                                *)
LeaseFollowsTheRun ==
    /\ \A a \in tracked : row[a] = "running" /\ Holds(a)
    /\ at = "top" /\ crashes = 0 /\ lease.live => row[lease.holder] \in Scanned

(* The runner's and the reconciler's unchecked writes of attempts.state     *)
(* follow the attempt state machine, and terminal rows never move.          *)
RowsFollowTheAxis == Axis!Spec

(* No attempt keeps its contract for ever: across deaths of the daemon and  *)
(* processes that hang, one that runs, or is in its grace, under the lease  *)
(* is settled or, its grace over, fenced.                                   *)
Occupies(a) == Holds(a) /\ row[a] \in Scanned

LeaseIsReturned == \A a \in Attempts : Occupies(a) ~> ~Occupies(a)

(* A verification request is not lost: it is served, or the contract leaves *)
(* the state in which it could be. (Or the verifier identifiers of the      *)
(* instance are used up.)                                                   *)
RequestIsServed ==
    request = "pending" ~>
        request = "served" \/ contract # "active" \/ Fresh(Verifiers) = {}
=============================================================================
