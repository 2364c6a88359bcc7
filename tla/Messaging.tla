------------------------------ MODULE Messaging ------------------------------
(***************************************************************************)
(* What the daemon tells the user and the agents: the outbox and the       *)
(* directives in the order of the daemon's round (cli/daemon_loop.py), with *)
(* the RPC thread and the tools queueing notices and directives at any     *)
(* time and the process dying between any two steps.                       *)
(***************************************************************************)
EXTENDS Outbox, Directives

CONSTANT MaxCrashes   \* bound on the crashes

ASSUME CrashesAssumption == MaxCrashes \in Nat

VARIABLES
    turn,      \* where the daemon's round is
    crashes    \* crashes so far

messagingVars == <<outboxVars, directiveVars, turn, crashes>>

Turns == {"poll", "drain", "start", "starting", "asleep", "down"}

MessagingInit == OutboxInit /\ DirectivesInit /\ turn = "poll" /\ crashes = 0

\* Contract writes and tools, whoever runs them.
Enqueues(n) == Enqueue(n) /\ UNCHANGED <<directiveVars, turn, crashes>>
Directs(to) == SendDirective(to) /\ UNCHANGED <<outboxVars, turn, crashes>>

\* drain_notifications after the tick.
BeginDrain == turn = "poll" /\ turn' = "drain" /\ Claim /\ UNCHANGED <<directiveVars, crashes>>

Hands(n) == turn = "drain" /\ ChannelTakes(n) /\ UNCHANGED <<directiveVars, turn, crashes>>
Refused(n) == turn = "drain" /\ ChannelRefuses(n) /\ UNCHANGED <<directiveVars, turn, crashes>>
Marks(n) == turn = "drain" /\ MarkSent(n) /\ UNCHANGED <<directiveVars, turn, crashes>>

EndDrain == turn = "drain" /\ Drained /\ turn' = "start" /\ UNCHANGED <<outboxVars, directiveVars, crashes>>

\* start_attempt for the attempt the tick dispatched, if it dispatched one.
BeginStart(a) ==
    /\ turn = "start" /\ turn' = "starting"
    /\ Compile(a)
    /\ UNCHANGED <<outboxVars, crashes>>

NothingToStart ==
    /\ turn = "start" /\ turn' = "asleep"
    /\ UNCHANGED <<outboxVars, directiveVars, crashes>>

Spawns == turn = "starting" /\ Spawn /\ UNCHANGED <<outboxVars, turn, crashes>>
EndStart ==
    /\ turn = "starting" /\ turn' = "asleep"
    /\ StartRefused \/ MarkConsumed
    /\ UNCHANGED <<outboxVars, crashes>>

\* The wait between two rounds ends early when a control call sets the event.
WokenEarly == turn = "asleep" /\ turn' = "poll" /\ UNCHANGED <<outboxVars, directiveVars, crashes>>

Elapse ==
    /\ turn \in {"asleep", "down"}
    /\ turn' = IF turn = "asleep" THEN "poll" ELSE turn
    /\ OutboxElapse /\ DirectivesElapse
    /\ UNCHANGED crashes

Crash ==
    /\ turn # "down" /\ crashes < MaxCrashes
    /\ turn' = "down" /\ crashes' = crashes + 1
    /\ OutboxCrash /\ DirectivesCrash

Restart == turn = "down" /\ turn' = "poll" /\ UNCHANGED <<outboxVars, directiveVars, crashes>>

DaemonRound ==
    \/ BeginDrain \/ EndDrain
    \/ \E n \in Notices : Hands(n) \/ Refused(n) \/ Marks(n)
    \/ \E a \in Agents : BeginStart(a)
    \/ NothingToStart \/ Spawns \/ EndStart

MessagingNext ==
    \/ DaemonRound
    \/ \E n \in Notices : Enqueues(n)
    \/ \E to \in Agents \cup {Everyone} : Directs(to)
    \/ WokenEarly \/ Elapse \/ Crash \/ Restart

MessagingSpec == MessagingInit /\ [][MessagingNext]_messagingVars

\* The daemon goes on with its round, the clock with its ticks, a crashed
\* daemon is started again, and the channel does not refuse a notice for ever.
FairMessagingSpec ==
    /\ MessagingSpec
    /\ WF_messagingVars(DaemonRound)
    /\ SF_messagingVars(Elapse)
    /\ WF_messagingVars(Restart)
    /\ \A n \in Notices : SF_messagingVars(Hands(n))

-----------------------------------------------------------------------------
MessagingTypeOK ==
    /\ OutboxTypeOK
    /\ DirectivesTypeOK
    /\ turn \in Turns
    /\ crashes \in 0 .. MaxCrashes

\* A row says sent only of a notice the channel took: crash, refusal and retry
\* lose none (mark_sent after deliver, notifications.py:252). And the channel
\* sees a notice again only for a crash between delivery and mark (the lease a
\* crashed claim left, notifications.py:150).
RowsTellWhatWasDelivered ==
    \A n \in Notices :
        /\ outbox[n].status = "sent" => deliveries[n] > 0
        /\ deliveries[n] <= 1 + crashes

\* Every queued notice is sent in the end, also one whose drain crashed or was
\* refused (claim_notifications takes up overdue leases).
EveryNoticeIsSent == \A n \in Notices : outbox[n].status # "none" ~> outbox[n].status = "sent"

\* An agent's cursor passes a directive addressed to it only when the agent was
\* told it or its time to live had run out: not when the snapshot's process was
\* refused, was cut at the injection limit, or a directive came in meanwhile
\* (mark_directives_consumed after the spawn, runner.py:569). And an agent is
\* told a directive again only after a crash between the spawn and the mark
\* (the deduplication of context.py:222-279).
NoDirectiveIsSkipped ==
    \A a \in Agents :
        /\ \A i \in 1 .. cursor[a] : AddressedTo(a, i) /\ told[a][i] = 0 => i <= stale
        /\ \A i \in Sent : told[a][i] <= 1 + crashes
=============================================================================
