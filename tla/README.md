# LHGP in TLA+

A verification development for **lhgp / longtask**, the daemon that keeps a
long-running commitment (a *contract*) moving by dispatching coding agents
(*attempts*), fencing them with a *work lease*, and closing the contract only
after a *verifier*, another executor as a rule, has checked it. Paths below are relative to the
repository; `tick.py` is `src/longtask/cli/tick.py`, and so on.

| module | kind | subject | instance (run) |
|---|---|---|---|
| `WriteAuthority` | abstract specification | what a work lease promises | |
| `LeaseStore` | detailed | the lease row and everybody who writes it | `MCLeaseStore` (`lease`) |
| `ContractAcceptance` | detailed | one contract's row, revisions, verdicts and their writers | `MCContractAcceptance` (`acceptance`) |
| `AttemptAxis` | abstract specification | the attempt state machine | |
| `AttemptLifecycle` | detailed | attempts from admission to settlement, over deaths of the daemon | `MCAttemptLifecycle` (`attempts`, `attempts_live`) |
| `Dispatch` | detailed | the tick over several contracts: gate, capacity, blocks | `MCDispatch` (`dispatch`) |
| `Goals` | detailed | goal, stages, grant, promotion | `MCGoals` (`goals`) |
| `Outbox`, `Directives` | components | notices to the user, directives to agents | |
| `Messaging` | composition | both in the daemon's round | `MCMessaging` (`messaging`) |
| `Wakeup` | detailed | alarms and the sleep guard | `MCWakeup` (`wakeup`) |
| `Registry`, `AcceptanceSpec`, `Evidence`, `ChildProcess` | algorithms and components | executor matching, verdict composition, check outcomes, the output of a child | |
| `Verification` | composition | a contract from offer to verdict by those four | `MCVerification` (`algorithms`) |
| `SchemaUpgrade` | component | opening and upgrading the database | |
| `Requests` | composition | repeated commands through several processes, over `SchemaUpgrade` | `MCRequests` (`requests`, `requests_retry`) |
| `DaemonProcess` | detailed | starting and stopping the daemon | `MCDaemonProcess` (`daemon`) |
| `LeaseStoreProofs`, `ContractAcceptanceProofs`, `AttemptLifecycleProofs`, `DispatchProofs`, `GoalsProofs`, `VerificationProofs` | proofs | the module of that name | |
| `CommunicationProofs` | proofs | `Requests` and `Messaging` | |
| `DaemonProofs` | proofs | `DaemonProcess` and `Wakeup` | |

## 1. The system

### 1.1 Processes, threads and transactions

One SQLite database (`state.db`) is the only authority. Every *function* that
writes it runs in one `BEGIN IMMEDIATE` transaction, but almost every *decision*
spans several: a row is read in one transaction, checked in Python, and written
in another. Those who do this at the same time:

* **the daemon thread** (`cli/daemon_loop.py: run_daemon_loop`): auto-approve,
  reconcile, verifiers for reconciled successes, cancel attempts of ended
  contracts, `poll_attempts`, interrupts, verification requests, deadline
  notices, the tick, notifications, `start_attempt`, alarms, sleep. There is no
  exception handler around a round: what a step raises ends the process;
* **the RPC thread** of the daemon, with a connection of its own, serving one
  request after another (`rpc/transport.py: _serve_connections`);
* **MCP servers and command lines**, processes that route into the same
  handlers, so several handlers are between their read and their write at once;
* **a second daemon**, when somebody starts one;
* **attempts**, external processes that renew and write back through RPC,
  possibly late, repeatedly, or after they have been superseded;
* **the operating system**: its task scheduler, which wakes the machine, and
  the suspension of an idle one.

### 1.2 Components

`PROJECT.json` lists the components with their files, modules and status, and says of each
what is left out. In short:

| component | state | what must hold | modelled in |
|---|---|---|---|
| work leases and fencing | row of `leases` | only the latest grant writes | `LeaseStore` |
| contract store, RPC handlers | `contracts`, `contract_revisions`, events | only legal transitions; a terminal contract is final; a check on an old row authorises no write on a new one | `ContractAcceptance`, `Dispatch`, `Requests` |
| acceptance judgement | verifier events, evidence, acceptance axis | a verdict is that of what was checked, and no more than it | `ContractAcceptance`, `Verification` |
| verifiers | attempts with role verifier, requests | budget, one at a time, within the grant | `ContractAcceptance`, `AttemptLifecycle`, `Verification` |
| attempts and restart | `attempts`, handles, the runner's memory | no second run beside a first; every attempt ends; rows follow their axis | `AttemptLifecycle` |
| executor dispatch, plan gate | plan events, blocks, slots | no dispatch on a plan for another content; nobody waits for ever for a free slot | `Dispatch` |
| goals and stages | `goals` row, its contracts | progress is not lost; promotion within the grant | `Goals` |
| outbox, directives | `notification_outbox`, messages, cursors | at least once; nothing skipped | `Messaging` |
| wake-up, sleep guard | registered tasks, power request | no sleep past a decision | `Wakeup` |
| registry, admission | registry file, switches, load | work stays inside the contract's authority | `Registry` |
| subprocess adapter | child's pipe, event, block | nothing completes on what was not seen | `ChildProcess` |
| schema, transport, retries | version stamp, request ids | what the stamp vouches for; a command takes effect once | `SchemaUpgrade`, `Requests` |
| daemon process | lock, pid file, stop marker | one daemon | `DaemonProcess` |

### 1.3 What is hard here

`PROJECT.json` lists the hazards at the lines where they bite, each with the properties
that would catch it going wrong, or the reason why none does. They fall into these groups: a
fencing number that starts again; decisions made on an old row or an old
snapshot; events without a revision; slots and budgets shared by several
dispatchers; crashes between transactions (spawn and row, delivery and mark,
completion and goal advance, claim and spawn); recovery of processes whose
identity is uncertain; commands repeated through another process; schema
statements that overlap; alarms that are coarser than the clock.

## 2. The modules

### 2.1 `LeaseStore`

`lease` is the row; no row has generation 0, which is what
`expected_generation=0` means to `acquire_lease`. A scheduler goes through
three transactions, `DecideExecutor`/`DecideVerifier` (the lease is read and found dead),
`ReadGeneration` (`_dispatch_attempt` reads the row again), and
`AcquireLease`/`ReclaimLease`/`ClaimRefused` (the compare-and-swap). Between the
steps of one scheduler the others run: a second daemon, the RPC thread
(`RenewRead`, then `RenewLease`, which sets the heartbeat and the timeout of the row
it finds and nothing else), the runner's renewal, and write-backs. A write-back stays in `sent`
and is delivered any number of times, in any order, at any time; one that is
fenced or was answered before changes nothing. `terms`, `term`, `writer` and
`seen` are history variables.

A renewal goes by the generation its read found and by its own attempt's name.
As generations repeat, the name is what keeps it from the heartbeat of a later grant
(`RenewalIsOfItsGrant`).

`WriteAuthority` knows no generations: authority is issued in numbered terms, at
most one is in force, only that one writes. The mapping takes a term to be a
grant. That the store implements it is the fencing guarantee: a superseded
attempt that wakes up and retries never writes *although* generations repeat,
because `write_back` compares the holder as well and an attempt is granted the
lease once.

### 2.2 `ContractAcceptance`

`contract` is the row, `snapshots` the table `contract_revisions`, `verdicts`
the verifiers' terminal events in log order, `verifier` the one in flight,
`used` what `_count_verifier_attempts` counts, `requested` a pending request.
`daemon` and `rpc` say what a process carries from its read to its write. An
acceptance content stands for the acceptance object; two contents differ exactly
when `acceptance_fingerprint` differs. `Judge…` and `Commit…` are
`_judge_verifier_outcomes`; `Call…` and `Commit…` the handlers; `DispatchVerifier`,
`SpawnVerifier`, `Finish/Fail/LoseVerifier`, `VerifierWriteBack` the ways of a
verifier; `Update` is `update_contract_state` with its legality check, revision
and snapshot in one transaction.

How a specification composes outcomes is a choice here (`Verification` computes
it). `expected_revision` of pause, resume, cancel, approve and arbitrate is
optional, so these writes may meet any state; that of patch is mandatory.

### 2.3 `AttemptLifecycle` and `AttemptAxis`

One contract's attempts. `at` is the step of the daemon's round and `todo` the
attempts that step has still to visit: reconcile (branch by branch: `Reattach`,
`Collect`, `Orphan`, `KeepOrphan`, `Fence`), the cancelling of an ended
contract's attempts, poll (`PollTimeout`, `PollTimeoutUncertain`,
`PollHeartbeat`, `Finish`), interrupts, requests, tick (`Dispatch`), start
(`StartAttempt`, `StartFails`). The database survives a death (`Die…`), `bound`
(the adapter's table) and `tracked` (the runner's) do not. A death may fall
between any two transactions: `DieDispatching`, `DieStarting`,
`DieInVerifierDispatch`, `DieClosing` leave a claim without a row, a row without a
process, a process without a handle, a terminal row with its lease. A process
may end by itself at any time, hang, or be unobservable.

`AttemptAxis` is `ATTEMPT_LEGAL_TRANSITIONS`; the runner and the reconciler
write `attempts.state` without consulting it, and `RowsFollowTheAxis` says they
follow it all the same.

### 2.4 `Dispatch`

The tick over several contracts. `BeginTick` takes the snapshot (`snap`);
each turn goes by it through expiry, escalation (`Decide` is
`escalation.decide`, the urgency tier is chosen), the workspace rule, capacity
(`HasRoom`), the plan gate (`Approved`) and then commits in later transactions.
Users' calls and plan tools (`SubmitPlan`, `ApprovePlan`, `RejectPlan`,
`WakeAfterApproval`) come between any two. `Restamped` is the re-stamping of an
approval with each new revision; `content` is what the approval is bound to, so
a patch voids it and a pause does not. `Binds` is an approval that counts for the
row as it is; `ApprovalOutlivesBookkeeping` says that it goes on to, through every
write but a new content, a new verdict and its age, the wake-up after the
approval itself included. `Mark` and `CommitCapacity` are the
bookkeeping writes that raise no revision.

### 2.5 `Goals`

`goal` is the row with its plan, grant and progress. The daemon completes a
contract, reads the goal, advances it by compare-and-swap, looks for the next
stage, saves a contract for it, binds it, authorises and promotes it, each a
transaction of its own (`op["daemon"].step`), and may die after each. A client
prepares, binds and advances stages in the same way, and submits plans in three
steps: `ClientPlans` dates the verdict, `ClientChecks` reads the grant and judges the plan,
`ClientRecords` appends the approval. The user approves, confirms, signs plans
off, cancels, and writes plans: `UpdateGoal` is `goal/update`, which replaces grant,
bindings and progress as the caller sends them, whatever revision the caller
had read. A grant is a set of actions, or everything; a claim is what a contract
asks for. `trail` is whether the newest amendment carries a plan, without which
`_grant_as_of` finds none.

A replaced plan keeps its stages 1..N. Amendments are dated in the order in which they are
written; those of the daemon carry the time of its round, one more way of misdating that
`exact` excludes in the same manner. The current stage after a user's progress is the first
that is not completed. `proposal apply` writes the goal and then an amendment
without a plan (`main.py:1675`); the model has the two in one step.

### 2.6 `Outbox`, `Directives`, `Messaging`

`Outbox`: a row's status, lease and retry time, with claim, delivery, mark and
back-off. `Directives`: per agent a cursor, compiled with the injection limit
and the time to live into a snapshot that is marked consumed only after the
process was spawned. `Messaging` puts both into the daemon's round with a crash
between any two steps.

### 2.7 `Wakeup`

A tick of the clock is half a minute, so that points fall within the minutes
of the operating system's task scheduler. `Refresh` registers and removes tasks,
any of which may raise; `RefreshUnavailable` is a round without the port;
`Guard`/`Unguard` hold and release the power request. `Suspend` is enabled when
nothing holds the machine; a task that fires wakes it.

### 2.8 `Registry`, `ChildProcess`, `Evidence`, `AcceptanceSpec`, `Verification`

The algorithms as operators: `CapabilityMatch`, `Candidates`, `Preferred` and
`Offered` (matching, ordering by load and cost, the offer made at preparation);
`Scan`, `Drained`, `Observed` (what is seen of a child that prints events and
blocks, is cut off, exits); `Evaluate`, `Merge`, `Settled` (a check's outcome in
the workspace, merged with the verifier's word, and the settlement of the
attempt); `Compose`, `SpecOutcome` (the specification, two combinators deep).
`Verification` runs a contract through them while switches and load change. Upon
a success the verifier is another executor than the worker (`StartVerifier`). At the
user's request it is another than the goal's last executor, who need not be the
worker (`RequestedVerifier`); a request also takes up a contract that was handed
to the user. A verifier that runs may write its report back
(`WriteBack`), with the contract's completion or without: `JudgeWritten` judges what
it wrote, and `vouched` is a contract complete on that. A write-back that does not
suffice delays nothing, the settlement of the attempt is judged all the same
(`Judge`). The judge knows three forms of a verifier's word; the specification is
composed from the outcomes of the evidence list, because the settlement stores its block
as bare names and nothing writes the third form (`tick.py:1020`).

The references they are compared with, `Permits`, `Backed`, `SpecHolds`, are
written independently: what the grant says, what stands behind a check, and the
truth value of the specification.

### 2.9 `SchemaUpgrade`, `Requests`

`SchemaUpgrade` is `ensure_schema`, an action per statement group, for several
processes at once; a file is a version and the set of parts it has. The columns
added to old tables are five parts, by who names them: the back-fills (`keys`), an
index (`indexed`), the one-time rewrite of a first-version file (`deadline`), and
nobody later on (`contract`, `attempt`); two more are the later additions to
attempts (`usage`) and to goals (`goals`). A part stands for several columns and is
there when all of them are. Each addition may meet a lock and be passed over, and `locked`
remembers that it did. A statement that names a part is disabled without it, which
leaves the process `Fail`; a command or a round of the daemon is disabled without the
columns every read of a contract names (`Readable`). The tables are created in one step. In
`Requests` those processes, once open, serve commands step by step: look for the
key, look at the contract, check, write with the look repeated in the
transaction. Keys are derived from the arguments by the MCP server or chosen by
the client. An answer may be lost, the client sends again under the same key
through any process; the router logs a transient failure under the command's
key and tries again.

### 2.10 `DaemonProcess`

`spawn_daemon` and `halt_daemon` statement by statement on lock, pid file and
stop marker, for any number of callers that may die. `lapsed` is set by the
three steps that leave a running daemon without a record or a start without its lock.

## 3. The runs

| run | instance | states |
|---|---|---|
| `lease` | 2 schedulers, 2 attempts, 1 request, clock to 2 | 0.15 million |
| `acceptance` | 2 handlers, 2 contents of which one is judged by the user, 5 revisions, 1 verdict, reserve 1 | 2.8 million |
| `attempts` | 2 executors, 2 verifiers, 1 dispatch, reserve 1, 2 deaths, 1 interrupt | 0.5 million |
| `attempts_live` | 1 executor, 1 verifier, 1 death, with fairness | 44 thousand |
| `dispatch` | 2 contracts, one gated, 1 executor with 1 slot, 2 calls, with fairness | 0.28 million |
| `goals` | 2 stages, 2 contracts, 4 grants (one action, another, everything, one switched off), 2 updates | 2.1 million |
| `messaging` | 2 notices, 2 agents, 2 directives of which 1 fits, 1 crash, with fairness | 0.23 million |
| `wakeup` | 2 contracts, points up to a minute ahead, 1 failure, 1 lapse | 1.0 million |
| `algorithms` | 2 executors, 2 checks, 2 models, 7 acceptances, 4 grants, 2 rounds, 1 change of switch or load | 1.4 million |
| `requests` | 2 processes, a key per method, 3 sends with 2 openings or 2 with 4, 1 failure, all file versions | 4.8 million |
| `daemon` | 4 calls, 3 daemons | 30 thousand |
| `requests_retry` | the same with 3 sends and 3 openings | finding |

What each property says stands above its definition in the module. Every property of a passing
run has a mutant in `PROJECT.json`: a mapped definition changed the way a slip in
that code would change it, under which TLC finds the property violated.

**Bounds and why they are enough.**

* *lease*: a superseded writer needs an old attempt, a new one and one request;
  a lost claim a second scheduler. Clock 2 and timeout 1 have leases that are alive, at their
  limit and expired.
* *acceptance*: five revisions fit approve, snapshot, patch, pause or hold,
  write; a confirmation asks whether a content was passed, for which one verdict
  does. `FewOverlaps` bounds the instance: two handlers are in flight together
  only when both patch or confirm, before the deadline and with no request
  pending; every handler overlaps freely with the daemon and the verifier. The
  theorems have no such bound.
* *attempts*: one dispatch is enough for a second row to be wrong, two verifiers for the reserve of one;
  the second death hits the recovery from the first.
* *dispatch*: one slot makes two contracts contend, one of them gated. The instance has
  no two contracts in one workspace.
* *goals*: two stages have a previous and a next, and two contracts can be bound the
  wrong way round; two updates are an edit before a plan's check and one after it.
  The instance looks at two things in turn (`Bound`): at the stages under grants that
  promote everything or nothing (`AboutStages`), and at one contract under every grant, claim
  and plan (`AboutTheGrant`). `FirstUpdate` lets the first of the two
  updates leave one stage bound at most, the second is any.
* *messaging*: one directive fits into a snapshot, so the second is cut; one tick of
  lease, retry and quiet each orders them all.
* *wakeup*: a horizon of two half minutes has both halves of a minute and the
  next one.
* *algorithms*: every combination of facts and reports over two checks, of all
  kinds in seven acceptances, among them criteria that are no typed checks and a contract
  without a workspace; grants that bind one executor twice, that bind
  models, that are empty under both policies.
* *requests*: two processes are needed for a race on a key, and one of them is left
  when the other has died; the third sending is a repetition after a repetition. Pause, resume,
  verify, confirm and prepare share the contract. Two processes also race on the schema; a
  third opening follows a stamp that two made, or a death, and the fourth finds what a
  lock left out; for these two sends are enough, which
  complete a contract under the present schema (`Bound`).
* *daemon*: the third daemon and the fourth call come after a first fault was
  repaired.

`CHECK_DEADLOCK FALSE` stands where the system comes to rest (an ended contract
with settled attempts, a call that has returned) or a bound is reached. Symmetry
is used only in runs without liveness.

**Fairness.** Weak fairness of the daemon's round (`Daemon`, `Tick`,
`DaemonRound`)
is what `while not should_stop` gives; in `attempts_live` and `messaging` it includes the restart, that is, a user
who starts a daemon that died. The rest is about the
environment and strong, because the steps of the round disable it again and
again: a time limit that is not reset passes, a lease nobody renews lapses, a
living run is observable now and then (`Adopt`), a verifier asked for every
round is spawned now and then, an attempt ends (`AttemptEnds`, bounded by
`max_attempt_minutes`), the channel takes a notice now and then (`Hands`), and the clock moves.
No user and no client is assumed to do anything. `RequestIsServed` says what it
excuses: an ended contract, and an instance out of verifier identifiers.

## 4. What is proved

For all values of the constants, by `tlapm` from the assumptions named in the modules.

* **`LeaseStoreProofs`**: `TypeCorrect`, `ImplementsWriteAuthority`,
  `RenewalsAreFenced`. The invariant adds to the types that the row is that of the
  latest grant (`RowOfLatestGrant`) and exists only after one. Every step is a
  Grant, a Revoke, a Write or a stutter of `WriteAuthority`; a renewal whose read
  was of an earlier grant finds another attempt in the row and leaves it alone.
* **`ContractAcceptanceProofs`**: `TypeCorrect`, `EvidenceHolds`, `BudgetHolds`,
  `TerminalStays`, `ConfirmationHolds`. The inductive invariant has
  `SnapshotOfRow`, `VerifierBound`, `DispatchBound`, `PatchBound` and
  `CandidateBound`: evidence names what was checked because the verifier in flight
  names a revision whose snapshot it was given, because the dispatcher read it so,
  because a snapshot is the row of its revision. The revision check of
  `user_confirm` carries its evidence check over to the write.
* **`AttemptLifecycleProofs`**: `TypeCorrect`, `OneAtATime`, `LeaseFollows`,
  `BudgetHolds`, `ImplementsAxis`. That no claim finds a run is not inductive by
  itself: the dispatch looks at the lease, not at the rows. `RunInv` follows the
  round: while the reconciler, the cancelling of ended contracts and the poll
  visit their attempts (`todo`), every row in flight is still to be visited or
  holds an unexpired lease, so once they are through, a lease found dead means
  that nothing runs, and a row in flight always belongs to the lease's holder.
  A death anywhere re-establishes it, as the reconciler starts over from all rows. Every
  step moves one row along `AttemptAxis` or none.
* **`DispatchProofs`**: `TypeCorrect`, `CapacityRespected`, `AdmittedIsPlanned`,
  `BookkeepingKeepsApprovals`. `DecisionStands` carries what a turn found (a free
  slot, a dispatch left in the budget, for a gated contract an approval of a
  planned content) to the transaction that commits it; calls of users and plan
  tools in between take away none of the three. That bookkeeping keeps approvals
  is proved of `Binds`, write by write, the wake-up after an approval among them:
  each re-stamps the approval with the revision it makes or raises none. The slots are counted with the
  library's cardinality theorems: an admission adds one attempt to one executor.
* **`GoalsProofs`**: `TypeCorrect`, `NothingIsLost`, `PassedFirst`,
  `WithinTheGrant`. `WriterKnows` and `BinderKnows` say what a process holds
  between its look at the goal and its write *as long as the revision it
  read stands*; the compare-and-swap refuses the write otherwise, and the user's
  own `UpdateGoal`, which nothing refuses, raises the revision. The daemon
  advances for contracts that have passed only (`AdvancesPassed`). `WithinTheGrant`
  proves `OldApprovalsLapse` from `PlannerKnows`, `CoveredVerdict` and
  `ApprovalsAreCovered`: an approval whose date finds the grant it was checked against
  (`exact`) lies within the claim or that grant. For the others the code gives no
  guarantee (`PromotionIsWithinTheGrant`, section 5).
  The first unfinished stage exists because the numbers are well-founded.
* **`VerificationProofs`**: `TypeCorrect`, `WorkIsPermitted`,
  `CompletionBacked`, `VerdictExact`, and of the operators `SpecIsExact` (the
  verdict is the specification's truth value whatever the pending criteria become, for
  every specification two combinators deep) and `OfferedIsCandidate` (what the
  offer promises the dispatch takes, unless a grant binds an executor twice:
  `authority.py:66` then reads the first binding and `registry.py:86` the last).
  `SettledInv` ties the phase to the settlement it came from: a completion upon a
  settled success has its checks behind it (`SuccessBacked`), every verdict is that of the
  specification on the outcomes it was given (`JudgedBySpec`), a write-back's too.
  `Declared` says that switches leave the file's declarations alone. `WorkIsPermitted`
  covers the verifiers asked for by the user; that they are not the worker is not
  claimed (`NobodyVerifiesItsOwnWork`, section 5).
* **`CommunicationProofs`**, of `Requests`: `TypeCorrect`; `SchemaHolds`
  (that is, `StampedIsWhole` and `OpenedIsWhole`) and `RenamedInARace` from `UpgradeInv`: a process past a statement has
  the parts that statement needs in the file, and all of them unless it met a lock
  (`HasItsParts`), parts are never taken away, an open store is stamped
  (`PastTheStamp`), and who renames read a version that was
  stamped over since (`Overtaken`); `OncePerKey` from `OnceInv` (the second look for the key
  is in the transaction that writes its event). Of `Messaging`: `MessagingTypes`,
  `SentWasDelivered`, `NothingIsSkipped` from `MessagingInv`. For the outbox it
  says that what is in hand is leased, and counts the deliveries of each notice against the
  crashes that left one unmarked; for the directives that a snapshot holds the oldest owed ones
  (`OldestFirst`), that nothing behind a cursor is still owed (`NothingSkipped`), and
  that a directive told twice was in hand at a crash (`TellingsAccountedFor`).
* **`DaemonProofs`**: `OneDaemon` (as long as nothing lapsed, whoever is
  between lock and record owns the lock and is alone, and a running daemon is
  recorded or watched by the start that spawned it); of `Wakeup`, `TypeCorrect`,
  `AlarmIsSet`, `GuardKeepsAwake` from `WakeupInv`: what the daemon remembers as
  registered is registered or has fired (`ArmedIsRegistered`), what the refresh
  has passed is armed no later than its point (`WatchedIsArmed`, which needs
  that rounding to the scheduler's minute only ever goes down), and outside the lapses it names
  no task is forgotten (`NothingForgotten`).

The formulas of `Messaging` and `DaemonProcess` carry the component's name
(`MessagingSpec`, `ProcessSpec`), because their proofs share a module with
those of another component.

**Assumptions on the constants.** Identities of different kinds are different
(attempts and "none", executors and the tick's other outcomes, a snapshot and
its absence), bounds are natural numbers, a cap is not 0, a scope is not
empty, the contracts whose alarms are watched are finitely many. Nothing is
assumed about the sizes of the sets, or about what the configurations bound.

**Only model-checked.** Every invariant, action property and refinement a passing run checks is
a theorem. The four properties that need fairness, `LeaseIsReturned`,
`RequestIsServed`, `CapacityIsAwaited` and `EveryNoticeIsSent`, are beyond the
prover and stay with TLC, and so do the counterexamples of the next section.

## 5. Where code and documents part

**Finding** (`requests_retry`): `user_confirm` (`contract.py:855`) passes no request id
on, so a confirmation sent again after a lost answer is refused, against the comment at
`cli/main.py:1602` and `DESIGN.md:724`.

**Statements of the documents the models refute.** Each is a definition of its module and the
only property of the configuration named with it, which TLC ends with a counterexample.

* `LiveLeaseIsLeftAlone` (`MCLeaseTakeover.cfg`, `tick.py:321`): the tick judges the lease dead by one read and
  reclaims it by the generation, which a renewal leaves as it is. A holder that renews in
  between has a live lease and loses it, against `DESIGN.md:481`.
* `PromotionIsWithinTheGrant` (`MCGoalsMisdated.cfg`, `store.py:904`): `lhgp_submit_plan` takes the time, then reads the
  grant, then records the verdict under that time. The amendment found for the time
  need not be the grant the plan was checked against, as `store.py:897` says it is,
  and a plan outside the grant is promoted.
* `NobodyVerifiesItsOwnWork` (`MCSelfVerification.cfg`, `daemon_loop.py:559`): a verification the user requests passes
  over the goal's last executor, or nobody. With a sibling contract the worker
  may verify its own work, against `runner.py:1067`.
* `BlockReachesTheJudge` (`MCVerdictBlock.cfg`, `runner.py:745`): the settlement stores the names of a block's
  checks without their outcomes, so the form `tick.py:1033` documents and
  `test_spec_payload_shapes.py:119` asserts never reaches the judge.
* `DeterministicResultStands` (`MCWriteBackFirst.cfg`, `tick.py:795`): the success a running verifier writes back completes
  the contract before the runtime evaluates the checks, against `LHGP-SPEC.md:772`.

**Observations.** Most of these are behaviours of the models, which have them because
the code has; the properties above neither exclude them nor claim them away.

* `release_lease` deletes the generation, so a compare-and-swap of a second
  scheduler does not notice a grant and a release in between
  (`leases.py:108`, `DESIGN.md:488`).
* `write_back` never looks at the heartbeat (`store.py:2002`, `LHGP-SPEC.md:1039`).
* The judge writes without `expected_revision`: a content patched after the
  verdict completes, a pause in between is undone; failures without a revision
  outlive a later success (`tick.py:838`, `:883`, `:775`); arbitration to active leaves the deadline behind
  (`contract.py:1259`).
* A run may be respawned while its predecessor is in the recovery grace
  (`runner.py:620`); a crash between settlement and verifier dispatch loses the
  verification (`runner.py:889`); a request is served twice after a crash
  between spawn and `VERIFICATION_CONSUMED`.
* The block the tick writes after the gate's look overwrites an approval's wake
  (`tick.py:569`); a contract paused in mid-tick is still dispatched, also into an
  occupied workspace (`tick.py:129`, `:697`); the starvation rule of
  the fairness order is not wired (`tick.py:155`).
* A crash between completion and advance, or a conflict in the advance, leaves
  the goal behind its contract (`tick.py:851`, `store.py:1078`); after a conflict the next stage is not
  prepared (`_lifecycle.py:158`), and the daemon does not come back to it.
* A `goal/update` without a revision, and the command line's `proposal apply`, replace
  plan, bindings and progress whatever happened since the caller read them
  (`store.py:564`, `main.py:1659`).
* The composition lets an undetermined criterion pass for settled
  (`spec.py:222`, `LHGP-SPEC.md:779`); the verifier's overall verdict is not
  used (`runner.py:744`).
* A lock met by an `ALTER TABLE` is suppressed (`schema.py:566`): a stamped file may lack
  the column until somebody opens it again without meeting one.
* The rename of `complete` to `satisfied` trusts a version read earlier
  (`schema.py:621`); a transient failure's log entry makes a repeated command
  look answered (`server.py:104`).
* Three steps let two daemons run: `daemon_proc.py:180`, `:248`, `:309`; a
  foreground daemon takes no lock at all and is not modelled.

## 6. Not modelled

* Enforcement levels: recomputed from the deadline every round, they only notify.
* Forecasts, statistics, event queries, projections, memory, wiki, feedback,
  lessons, flow diagrams, portfolio: they read, or write records no transition
  depends on.
* Parsing and validation of drafts and messages, printing, the doctor, the watch screen, the
  move of a data directory: pure or one-off input and output; where a caller
  asks for their outcome it is a choice.
* `contract/auto-approve` over RPC, which no client in the repository calls; the
  per-tick cap of dispatches, off by default.
* Exact times: deadlines, leases and look-back windows pass as events, only
  `Wakeup`, `Messaging` and `LeaseStore` count ticks.

Within the modelled parts the following is left out.

* `Wakeup`: a `daemon/wake` call lost while the daemon is up (`daemon_loop.py:124`, `:160`).
* `Requests`: one explicit `request_id` used for several methods
  (`mcp_server.py:64`), and the refusal of a key that comes with other arguments
  (`IdempotencyMismatch`, `store.py:1236`).
* `DaemonProcess`: a start interrupted after `Popen`, which unlocks with the child
  unrecorded; the death of the start is the nearest step.
* `Verification`: a write-back that does not suffice changes nothing.
* `SchemaUpgrade`: the creation of all tables is one step.
* `Goals`: no property speaks of what a crash between completion and advance loses; the
  crash itself is modelled, the code has no repair.

What remains to be done, in this order: the promises of `Outbox` as an abstract
queue, and of `Dispatch`'s plan gate as an abstract authorisation, each with
its refinement; two contracts in one workspace as an instance of `Dispatch`;
lemmas on the matching and ordering of executors beyond `OfferedIsCandidate`.

## 7. Reproducing

In this directory `tlc -workers 2 -config MCGoals.cfg MCGoals`, and likewise for
the other configurations (`MCAttemptLiveness.cfg` belongs to
`MCAttemptLifecycle`; `MCRequestsRetry.cfg` to `MCRequests`;
`MCLeaseTakeover.cfg` to `MCLeaseStore`; `MCGoalsMisdated.cfg` to `MCGoals`; `MCSelfVerification.cfg`, `MCVerdictBlock.cfg` and `MCWriteBackFirst.cfg` to
`MCVerification`); none takes more than about three minutes. `tlapm GoalsProofs.tla`, and likewise for
the other proof modules, take from seconds to a few minutes.
