----------------------------- MODULE Directives -----------------------------
(***************************************************************************)
(* Directives on one contract (lhgp/persistence/messages.py and the        *)
(* directive cursor of persistence/context.py): messages of the event log  *)
(* that the next snapshot of an agent injects once.  A directive has a     *)
(* position in the log, an addressee or none, and a time to live; what an  *)
(* agent has consumed is a cursor and a set of acknowledged positions,     *)
(* both moved after the agent's process was started.  A verifier's snapshot *)
(* moves neither.                                                          *)
(***************************************************************************)
EXTENDS Naturals, FiniteSets, Sequences, FiniteSetsExt

CONSTANTS
    Agents,          \* registry executor ids
    Everyone,        \* to_agent=None of a broadcast
    NoSnapshot,
    MaxDirectives,   \* bound on the directives sent
    MaxInjected      \* _MAX_DIRECTIVES_INJECTED

ASSUME LimitsAssumption == MaxDirectives \in Nat /\ MaxInjected \in Nat
ASSUME SnapshotAssumption ==
    NoSnapshot \notin [agent : Agents, given : SUBSET (1 .. MaxDirectives), spawned : BOOLEAN]

VARIABLES
    log,             \* the addressee of each directive, by position
    stale,           \* directives up to here have outlived their time to live
    cursor,          \* _directive_cursor::<agent>
    acked,           \* the agent's acknowledged directives
    snapshot,        \* the snapshot being handed to an agent
    told             \* how often each agent was told each directive

directiveVars == <<log, stale, cursor, acked, snapshot, told>>

Positions == 1 .. MaxDirectives
Sent == 1 .. Len(log)

DirectivesInit ==
    /\ log = <<>>
    /\ stale = 0
    /\ cursor = [a \in Agents |-> 0]
    /\ acked = [a \in Agents |-> {}]
    /\ snapshot = NoSnapshot
    /\ told = [a \in Agents |-> [i \in Positions |-> 0]]

\* send_message of a directive, by the user or another agent, at any time.
SendDirective(to) ==
    /\ Len(log) < MaxDirectives
    /\ log' = Append(log, to)
    /\ UNCHANGED <<stale, cursor, acked, snapshot, told>>

AddressedTo(a, i) == log[i] \in {a, Everyone}

\* pending_directives for agent a.
Pending(a) == {i \in Sent : i > cursor[a] /\ i > stale /\ AddressedTo(a, i) /\ i \notin acked[a]}

\* Mutant: of too many directives the newest are kept.
NewestInjected(S) == {i \in S : Cardinality({j \in S : j > i}) < MaxInjected}

\* compile_context_snapshot injects the oldest MaxInjected of the pending ones.
Injected(S) == {i \in S : Cardinality({j \in S : j < i}) < MaxInjected}

\* build_attempt_input of an executor attempt.
Compile(a) ==
    /\ snapshot = NoSnapshot
    /\ snapshot' = [agent |-> a, given |-> Injected(Pending(a)), spawned |-> FALSE]
    /\ UNCHANGED <<log, stale, cursor, acked, told>>

\* The capacity contract, prepare or spawn refuses: nothing was consumed.
StartRefused ==
    /\ snapshot # NoSnapshot /\ ~snapshot.spawned
    /\ snapshot' = NoSnapshot
    /\ UNCHANGED <<log, stale, cursor, acked, told>>

\* The process is started with its snapshot.
Spawn ==
    /\ snapshot # NoSnapshot /\ ~snapshot.spawned
    /\ snapshot' = [snapshot EXCEPT !.spawned = TRUE]
    /\ told' = [told EXCEPT ![snapshot.agent] =
                  [i \in Positions |-> @[i] + (IF i \in snapshot.given THEN 1 ELSE 0)]]
    /\ UNCHANGED <<log, stale, cursor, acked>>

\* Mutant: the cursor names the next position to read.
MovedPast(at, given) == Max(given \cup {at}) + 1

\* The cursor after a snapshot that gave these: never back, and no further than
\* what was given.
Moved(at, given) == Max(given \cup {at})

\* mark_directives_consumed: cursor and acknowledgements in one transaction.
MarkConsumed ==
    /\ snapshot # NoSnapshot /\ snapshot.spawned
    /\ cursor' = [cursor EXCEPT ![snapshot.agent] = Moved(@, snapshot.given)]
    /\ acked' = [acked EXCEPT ![snapshot.agent] = @ \cup snapshot.given]
    /\ snapshot' = NoSnapshot
    /\ UNCHANGED <<log, stale, told>>

\* The process dies between two steps of an attempt's start.
DirectivesCrash ==
    /\ snapshot' = NoSnapshot
    /\ UNCHANGED <<log, stale, cursor, acked, told>>

\* Time passes, and the oldest directives outlive their time to live.
DirectivesElapse ==
    /\ stale' \in stale .. Len(log)
    /\ UNCHANGED <<log, cursor, acked, snapshot, told>>

DirectivesTypeOK ==
    /\ log \in Seq(Agents \cup {Everyone}) /\ Len(log) <= MaxDirectives
    /\ stale \in 0 .. Len(log)
    /\ cursor \in [Agents -> 0 .. Len(log)]
    /\ acked \in [Agents -> SUBSET Sent]
    /\ snapshot = NoSnapshot \/ snapshot \in [agent : Agents, given : SUBSET Sent, spawned : BOOLEAN]
    /\ told \in [Agents -> [Positions -> Nat]]
=============================================================================
