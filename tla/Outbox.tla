------------------------------- MODULE Outbox -------------------------------
(***************************************************************************)
(* The notification outbox (persistence/notifications.py): rows queued by  *)
(* contract writes and by the tick, leased in a batch by the daemon's      *)
(* drain, handed to the channel one by one and marked afterwards.  Times   *)
(* are kept as what is left of them: `wait' counts down to available_at on *)
(* a pending row and to lease_until on a leased one.  The claim's limit of *)
(* twenty rows is not reached.                                             *)
(***************************************************************************)
EXTENDS Naturals, FiniteSets

CONSTANTS
    Notices,      \* idempotency keys
    NoNotice,
    LeaseTicks,   \* lease_seconds of a claim
    RetryTicks,   \* retry_delay_seconds after a refusal
    QuietTicks    \* the longest a quiet hour defers a notice

ASSUME NoticeAssumption == NoNotice \notin Notices
ASSUME TicksAssumption == {LeaseTicks, RetryTicks, QuietTicks} \subseteq Nat

VARIABLES
    outbox,       \* notification_outbox: [status, wait] of each key
    batch,        \* the claimed rows drain_notifications has yet to finish
    inHand,       \* the notice the channel took and no mark records yet
    deliveries    \* how often the channel took each notice

outboxVars == <<outbox, batch, inHand, deliveries>>

Longest == CHOOSE t \in {LeaseTicks, RetryTicks, QuietTicks} :
               \A u \in {LeaseTicks, RetryTicks, QuietTicks} : u <= t

Row(status, wait) == [status |-> status, wait |-> wait]

OutboxInit ==
    /\ outbox = [n \in Notices |-> Row("none", 0)]
    /\ batch = {}
    /\ inHand = NoNotice
    /\ deliveries = [n \in Notices |-> 0]

\* enqueue_notification.  A key that is known keeps its row; quiet hours set
\* available_at to their end, unless the kind bypasses them.
Enqueue(n) ==
    /\ outbox[n].status = "none"
    /\ \E wait \in {0, QuietTicks} : outbox' = [outbox EXCEPT ![n] = Row("pending", wait)]
    /\ UNCHANGED <<batch, inHand, deliveries>>

\* Mutant: rows a crashed drain left behind are not taken up again.
PendingIsDue(n) == outbox[n].status = "pending" /\ outbox[n].wait = 0

\* A pending row that is available, or a leased one whose claimer is overdue.
IsDue(n) == outbox[n].status \in {"pending", "leased"} /\ outbox[n].wait = 0

\* claim_notifications: one transaction.
Claim ==
    /\ batch' = {n \in Notices : IsDue(n)}
    /\ outbox' = [n \in Notices |-> IF IsDue(n) THEN Row("leased", LeaseTicks) ELSE outbox[n]]
    /\ UNCHANGED <<inHand, deliveries>>

\* deliver() returned: the channel has the notice, the row does not say so.
ChannelTakes(n) ==
    /\ n \in batch /\ inHand = NoNotice
    /\ inHand' = n
    /\ deliveries' = [deliveries EXCEPT ![n] = @ + 1]
    /\ UNCHANGED <<outbox, batch>>

\* The row a mark leaves: both marks are conditional on the lease.
Marked(n, row) == IF outbox[n].status = "leased" THEN row ELSE outbox[n]

\* Mutant: one mark for the whole batch, after the first notice is out.
MarkBatchSent(n) ==
    /\ n = inHand
    /\ outbox' = [k \in Notices |-> IF k \in batch THEN Row("sent", 0) ELSE outbox[k]]
    /\ batch' = {}
    /\ inHand' = NoNotice
    /\ UNCHANGED deliveries

\* mark_sent.
MarkSent(n) ==
    /\ n = inHand
    /\ outbox' = [outbox EXCEPT ![n] = Marked(n, Row("sent", 0))]
    /\ batch' = batch \ {n}
    /\ inHand' = NoNotice
    /\ UNCHANGED deliveries

\* deliver() raised: mark_failed makes the row pending again, a delay later.
ChannelRefuses(n) ==
    /\ n \in batch /\ inHand = NoNotice
    /\ outbox' = [outbox EXCEPT ![n] = Marked(n, Row("pending", RetryTicks))]
    /\ batch' = batch \ {n}
    /\ UNCHANGED <<inHand, deliveries>>

Drained == batch = {} /\ inHand = NoNotice

\* The process dies: the claimed batch is forgotten, the rows stay leased.
OutboxCrash ==
    /\ batch' = {}
    /\ inHand' = NoNotice
    /\ UNCHANGED <<outbox, deliveries>>

OutboxElapse ==
    /\ outbox' = [n \in Notices |->
                    Row(outbox[n].status, IF outbox[n].wait = 0 THEN 0 ELSE outbox[n].wait - 1)]
    /\ UNCHANGED <<batch, inHand, deliveries>>

OutboxTypeOK ==
    /\ outbox \in [Notices -> [status : {"none", "pending", "leased", "sent"}, wait : 0 .. Longest]]
    /\ batch \subseteq Notices
    /\ inHand \in Notices \cup {NoNotice}
    /\ deliveries \in [Notices -> Nat]
=============================================================================
