----------------------------- MODULE LeaseStore -----------------------------
(***************************************************************************)
(* The work lease of one contract (persistence/leases.py) with everything  *)
(* that touches its row at the same time:                                  *)
(*                                                                         *)
(*   - schedulers: a daemon's tick decides that the lease is dead, reads   *)
(*     the row again, and claims it with a CAS on the generation, in three *)
(*     separate transactions (cli/tick.py, cli/dispatch.py); the runner    *)
(*     does the same for a verifier (cli/runner.py);                       *)
(*   - the runner renews and releases for attempts it still follows;       *)
(*   - the attempts themselves renew and write back through the RPC        *)
(*     thread (rpc/executor_api.py), whose requests may be delivered late, *)
(*     several times, and out of order.                                    *)
(*                                                                         *)
(* "terms", "term" and "writer" record history for the properties; the     *)
(* code has no such state.                                                 *)
(***************************************************************************)
EXTENDS Integers, FiniteSets

CONSTANTS
    Attempts,     \* attempt ids; each is granted the lease at most once
    Schedulers,   \* daemons running over the same data directory
    Requests,     \* write-back request ids
    Timeouts,     \* lease timeouts in clock units
    MaxClock,     \* bound on the clock
    NoAttempt     \* the holder of no lease

ASSUME NoAttemptAssumption == NoAttempt \notin Attempts
ASSUME TimeoutsAssumption == Timeouts \subseteq Nat \ {0}
ASSUME MaxClockAssumption == MaxClock \in Nat

VARIABLES
    clock,      \* wall clock
    lease,      \* the row of table leases; NoLease when there is none
    scheduler,  \* per daemon: where it is between deciding and claiming
    token,      \* generation each attempt was told (0: not told yet)
    renewing,   \* per attempt: the renewal the RPC thread is handling
    sent,       \* write-back requests on the wire; they are never lost for good
    settled,    \* attempts whose attempts row is terminal
    answered,   \* request ids found in the event log
    terms,      \* history: number of grants so far
    term,       \* history: the grant of each attempt, 0 before it
    writer      \* history: term of the latest accepted write-back

vars == <<clock, lease, scheduler, token, renewing, sent, settled, answered,
          terms, term, writer>>

history == <<answered, terms, term, writer>>

-----------------------------------------------------------------------------

NoLease == [holder |-> NoAttempt, gen |-> 0, heartbeat |-> 0, timeout |-> 0]

Leases == {NoLease} \cup [holder : Attempts, gen : Nat \ {0},
                          heartbeat : Nat, timeout : Nat]

Idle == [at |-> "idle", now |-> 0, gen |-> 0]

SchedulerStates == [at : {"idle", "decided", "ready"}, now : Nat, gen : Nat]

NotRenewing == [gen |-> 0, now |-> 0]

\* StoredLease.is_alive
Alive(row, now) == row # NoLease /\ now <= row.heartbeat + row.timeout

\* Mutant: fencing by generation alone.
HoldsGenerationOnly(row, a, gen) == row.gen = gen

\* Both halves of the fencing test: generation and holder.
Holds(row, a, gen) == row.holder = a /\ row.gen = gen

\* The row that a claim writes.
Row(a, gen, now, t) ==
    [holder |-> a, gen |-> gen, heartbeat |-> now, timeout |-> t]

\* What a renewal writes: heartbeat and timeout, whoever holds the row.
Renewed(row, now, t) == [row EXCEPT !.heartbeat = now, !.timeout = t]

TypeOK ==
    /\ clock \in 0 .. MaxClock
    /\ lease \in Leases
    /\ scheduler \in [Schedulers -> SchedulerStates]
    /\ token \in [Attempts -> Nat]
    /\ renewing \in [Attempts -> [gen : Nat, now : Nat]]
    /\ sent \subseteq [attempt : Attempts, gen : Nat, request : Requests]
    /\ settled \subseteq Attempts
    /\ terms \in Nat
    /\ term \in [Attempts -> Nat]
    /\ writer \in Nat
    /\ answered \subseteq Requests

Init ==
    /\ clock = 0
    /\ lease = NoLease
    /\ scheduler = [d \in Schedulers |-> Idle]
    /\ token = [a \in Attempts |-> 0]
    /\ renewing = [a \in Attempts |-> NotRenewing]
    /\ sent = {}
    /\ settled = {}
    /\ terms = 0
    /\ term = [a \in Attempts |-> 0]
    /\ writer = 0
    /\ answered = {}

-----------------------------------------------------------------------------
(* Schedulers *)

Advance ==
    /\ clock < MaxClock
    /\ clock' = clock + 1
    /\ UNCHANGED <<lease, scheduler, token, renewing, sent, settled, history>>

\* The tick finds the lease dead and settles on dispatching an executor.
DecideExecutor(d) ==
    /\ scheduler[d].at = "idle"
    /\ ~Alive(lease, clock)
    /\ scheduler' = [scheduler EXCEPT ![d] =
                        [at |-> "decided", now |-> clock, gen |-> 0]]
    /\ UNCHANGED <<clock, lease, token, renewing, sent, settled, history>>

\* The runner settles on a verifier: it defers only to a live lease whose
\* holder is still running.
DecideVerifier(d) ==
    /\ scheduler[d].at = "idle"
    /\ Alive(lease, clock) => lease.holder \in settled
    /\ scheduler' = [scheduler EXCEPT ![d] =
                        [at |-> "decided", now |-> clock, gen |-> 0]]
    /\ UNCHANGED <<clock, lease, token, renewing, sent, settled, history>>

\* The claimant reads the row again for the generation its CAS will expect.
ReadGeneration(d) ==
    /\ scheduler[d].at = "decided"
    /\ scheduler' = [scheduler EXCEPT ![d] =
                        [at |-> "ready", now |-> scheduler[d].now, gen |-> lease.gen]]
    /\ UNCHANGED <<clock, lease, token, renewing, sent, settled, history>>

\* No candidate accepts, the plan gate refuses, or the daemon dies: no claim.
Abandon(d) ==
    /\ scheduler[d].at # "idle"
    /\ scheduler' = [scheduler EXCEPT ![d] = Idle]
    /\ UNCHANGED <<clock, lease, token, renewing, sent, settled, history>>

\* Mutant: a claim that forgets to raise the generation.
InstallSameGeneration(d, a, t) ==
    /\ lease' = Row(a, scheduler[d].gen, scheduler[d].now, t)
    /\ scheduler' = [scheduler EXCEPT ![d] = Idle]
    /\ terms' = terms + 1
    /\ term' = [term EXCEPT ![a] = terms']
    /\ UNCHANGED <<clock, token, renewing, sent, settled, answered, writer>>

\* What a successful CAS leaves behind.
Install(d, a, t) ==
    /\ lease' = Row(a, scheduler[d].gen + 1, scheduler[d].now, t)
    /\ scheduler' = [scheduler EXCEPT ![d] = Idle]
    /\ terms' = terms + 1
    /\ term' = [term EXCEPT ![a] = terms']
    /\ UNCHANGED <<clock, token, renewing, sent, settled, answered, writer>>

\* acquire_lease: expected generation 0 stands for "no row".
AcquireLease(d, a, t) ==
    /\ scheduler[d].at = "ready"
    /\ term[a] = 0
    /\ scheduler[d].gen = lease.gen
    /\ Install(d, a, t)

\* reclaim_lease: the same CAS on a row that must exist.
ReclaimLease(d, a, t) ==
    /\ scheduler[d].at = "ready"
    /\ term[a] = 0
    /\ scheduler[d].gen > 0
    /\ lease # NoLease
    /\ scheduler[d].gen = lease.gen
    /\ Install(d, a, t)

\* LeaseCASError: another claimant changed the row first.
ClaimRefused(d) ==
    /\ scheduler[d].at = "ready"
    /\ scheduler[d].gen # lease.gen
    /\ scheduler' = [scheduler EXCEPT ![d] = Idle]
    /\ UNCHANGED <<clock, lease, token, renewing, sent, settled, history>>

-----------------------------------------------------------------------------
(* The runner, for attempts it follows: it shares the scheduler's thread,  *)
(* so it acts only while some daemon is not in the middle of a claim       *)

RunnerTurn == \E d \in Schedulers : scheduler[d].at = "idle"

\* The attempt input is compiled after the claim and carries the generation
\* of whatever row is there at that moment.
TellToken(a) ==
    /\ RunnerTurn
    /\ term[a] # 0
    /\ token[a] = 0
    /\ lease # NoLease
    /\ token' = [token EXCEPT ![a] = lease.gen]
    /\ UNCHANGED <<clock, lease, scheduler, renewing, sent, settled, history>>

\* poll_attempts renews with the generation it just read.
RunnerRenew(a, t) ==
    /\ RunnerTurn
    /\ lease.holder = a
    /\ lease' = Renewed(lease, clock, t)
    /\ UNCHANGED <<clock, scheduler, token, renewing, sent, settled, history>>

\* release_lease, reached from every way an attempt ends.
ReleaseLease(a) ==
    /\ RunnerTurn
    /\ lease # NoLease
    /\ lease.holder = a
    /\ lease' = NoLease
    /\ settled' = settled \cup {a}
    /\ UNCHANGED <<clock, scheduler, token, renewing, sent, history>>

\* An attempt becomes terminal while its row stays: orphaned after a failed
\* cancel, or marked stale.
SettleKeepingLease(a) ==
    /\ RunnerTurn
    /\ term[a] # 0
    /\ settled' = settled \cup {a}
    /\ UNCHANGED <<clock, lease, scheduler, token, renewing, sent, history>>

-----------------------------------------------------------------------------
(* Attempts, through the RPC thread *)

\* handle_lease_renew reads the row outside the transaction that renews it.
RenewRead(a) ==
    /\ lease.holder = a
    /\ renewing[a] = NotRenewing
    /\ renewing' = [renewing EXCEPT ![a] = [gen |-> lease.gen, now |-> clock]]
    /\ UNCHANGED <<clock, lease, scheduler, token, sent, settled, history>>

\* Mutant: the renewal is fenced by the generation alone.
RenewLeaseByGeneration(a, t) ==
    /\ renewing[a] # NotRenewing
    /\ lease' = IF lease.gen = renewing[a].gen
                THEN Renewed(lease, renewing[a].now, t)
                ELSE lease
    /\ renewing' = [renewing EXCEPT ![a] = NotRenewing]
    /\ UNCHANGED <<clock, scheduler, token, sent, settled, history>>

RenewLease(a, t) ==
    /\ renewing[a] # NotRenewing
    /\ lease' = IF Holds(lease, a, renewing[a].gen)
                THEN Renewed(lease, renewing[a].now, t)
                ELSE lease
    /\ renewing' = [renewing EXCEPT ![a] = NotRenewing]
    /\ UNCHANGED <<clock, scheduler, token, sent, settled, history>>

SendWriteBack(a, r) ==
    /\ token[a] # 0
    /\ \A m \in sent : m.request # r
    /\ sent' = sent \cup {[attempt |-> a, gen |-> token[a], request |-> r]}
    /\ UNCHANGED <<clock, lease, scheduler, token, renewing, settled, history>>

\* write_back: a request id already in the event log answers from the log,
\* otherwise generation and holder must match. Every delivery of m is one step.
WriteBack(m) ==
    /\ m.request \notin answered
    /\ Holds(lease, m.attempt, m.gen)
    /\ writer' = term[m.attempt]
    /\ answered' = answered \cup {m.request}
    /\ UNCHANGED <<clock, lease, scheduler, token, renewing, sent, settled,
                   terms, term>>

-----------------------------------------------------------------------------

ScheduleNext(d) ==
    \/ DecideExecutor(d) \/ DecideVerifier(d) \/ ReadGeneration(d) \/ Abandon(d)
    \/ ClaimRefused(d)
    \/ \E a \in Attempts, t \in Timeouts :
            AcquireLease(d, a, t) \/ ReclaimLease(d, a, t)

RunnerNext(a) ==
    \/ TellToken(a) \/ ReleaseLease(a) \/ SettleKeepingLease(a)
    \/ \E t \in Timeouts : RunnerRenew(a, t)

AttemptNext(a) ==
    \/ RenewRead(a)
    \/ \E t \in Timeouts : RenewLease(a, t)
    \/ \E r \in Requests : SendWriteBack(a, r)

Next ==
    \/ Advance
    \/ \E d \in Schedulers : ScheduleNext(d)
    \/ \E a \in Attempts : RunnerNext(a) \/ AttemptNext(a)
    \/ \E m \in sent : WriteBack(m)

Spec == Init /\ [][Next]_vars

-----------------------------------------------------------------------------
(* Properties *)

\* The lease implements write authority: terms are the grants, the term in
\* force is the latest grant as long as its row exists. Every accepted
\* write-back comes from the term in force, so a superseded attempt that
\* wakes up and retries can never write, although generations repeat.
Authority == INSTANCE WriteAuthority WITH
    issued <- terms,
    current <- IF lease = NoLease THEN 0 ELSE terms,
    lastWriter <- writer

WriteAuthoritySpec == Authority!Spec

\* A renewal keeps alive the grant it was asked for and no other. lease/renew
\* looks at the row in one transaction and renews in the next, with the time
\* of the first: if the lease was released and granted anew in between, under
\* the same generation, the new holder's heartbeat and timeout stay its own.
RenewalIsOfItsGrant ==
    [][\A a \in Attempts :
          renewing[a] # NotRenewing /\ renewing'[a] = NotRenewing /\ lease' # lease
              => term[a] = terms]_vars

\* What DESIGN.md says and the code does not do: as long as the lease is alive
\* nobody takes it over (section 7), unless its holder is done. The tick judges the lease by one read and claims
\* by a later one, and a renewal does not change the generation.
LiveLeaseIsLeftAlone ==
    [][lease # NoLease /\ lease' # NoLease /\ lease'.holder # lease.holder
          => ~Alive(lease, clock) \/ lease.holder \in settled]_vars
=============================================================================
