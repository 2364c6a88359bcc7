------------------------------ MODULE Requests ------------------------------
(***************************************************************************)
(* Commands and their idempotency keys (rpc/server.py, rpc/handlers,        *)
(* mcp_server.py): clients that lose an answer send the command again under *)
(* the key it had, through whatever process is at hand: the daemon's RPC    *)
(* thread, an MCP server, a command line.  A handler looks for its key      *)
(* among the events, reads the contract and writes in a later transaction;  *)
(* it may meet a transient failure, which the router logs and tries again,  *)
(* and its process may die.                                                 *)
(*                                                                          *)
(* The keys are abstract: of one method each, derived from the arguments or *)
(* chosen by the client, so two clients may share one.                      *)
(***************************************************************************)
EXTENDS SchemaUpgrade

CONSTANTS
    PrepareKeys, PauseKeys, ResumeKeys, VerifyKeys, ConfirmKeys,
    NoKey,
    MaxSends,        \* bound: commands sent
    MaxRevision,     \* bound: revisions of the contract
    MaxFailures      \* bound: transient failures

\* Arguments that derive a key, and clients that choose one, name the method.
ASSUME KeysAssumption ==
    /\ (PrepareKeys \cup PauseKeys \cup ResumeKeys) \cap (VerifyKeys \cup ConfirmKeys) = {}
    /\ VerifyKeys \cap ConfirmKeys = {}
    /\ PrepareKeys \cap (PauseKeys \cup ResumeKeys) = {}
    /\ PauseKeys \cap ResumeKeys = {}
ASSUME BoundsAssumption ==
    /\ MaxSends \in Nat /\ MaxOpenings \in Nat /\ MaxFailures \in Nat
    /\ MaxRevision \in Nat \ {0}

Keys == PrepareKeys \cup PauseKeys \cup ResumeKeys \cup VerifyKeys \cup ConfirmKeys

\* The events of these methods carry the key; a request for verification and
\* a confirmation write theirs without it.
Keyed == PrepareKeys \cup PauseKeys \cup ResumeKeys

VARIABLES
    effects,     \* per key: commands that took effect
    retried,     \* keys under which a transient failure was logged
    failures,
    pending,     \* verification requests the daemon has not consumed
    sends,       \* commands sent
    call,        \* per process: the command in service
    answered,    \* keys whose client has received an answer of success
    disowned     \* keys refused to a client that sent them after such an answer

service == <<effects, retried, failures, pending, sends, call, answered, disowned>>
vars == <<database, row, service>>

Steps == {"idle", "replay", "look", "check", "resume", "append", "commit"}
NoCall == [key |-> NoKey, step |-> "idle", revision |-> 0, blocked |-> FALSE, late |-> FALSE]

TypeOK ==
    /\ openings \in 0..MaxOpenings
    /\ schema \in [version : 0..Version, has : SUBSET Parts]
    /\ opening \in [Processes -> [at : Places, fresh : BOOLEAN, locked : BOOLEAN]]
    /\ row \in [state : {"none", "drafted", "active", "paused", "blocked", "complete",
                         "satisfied"},
                revision : 0..MaxRevision, candidate : BOOLEAN, old : BOOLEAN]
    /\ raced \in BOOLEAN /\ renamed \in BOOLEAN
    /\ effects \in [Keys -> Nat]
    /\ retried \subseteq Keys /\ answered \subseteq Keys /\ disowned \subseteq Keys
    /\ failures \in 0..MaxFailures
    /\ sends \in 0..MaxSends
    /\ pending \in Nat
    /\ call \in [Processes -> [key : Keys \cup {NoKey}, step : Steps, revision : 0..MaxRevision,
                               blocked : BOOLEAN, late : BOOLEAN]]
    /\ \A p \in Processes : call[p].step # "idle" => call[p].key \in Keys /\ At(p, "open")

NewRow == [state |-> "none", revision |-> 0, candidate |-> FALSE, old |-> FALSE]
DraftedRow == [state |-> "drafted", revision |-> 1, candidate |-> FALSE, old |-> FALSE]
OldRow(state) == [state |-> state, revision |-> 1, candidate |-> FALSE, old |-> TRUE]

Init ==
    /\ schema \in Files
    /\ openings = 0 /\ opening = [p \in Processes |-> Closed]
    /\ row \in IF schema.version = 0 THEN {NewRow}
               ELSE {OldRow("active"), OldRow("complete")}
    /\ raced = FALSE /\ renamed = FALSE
    /\ effects = [k \in Keys |-> 0] /\ sends = 0
    /\ retried = {} /\ answered = {} /\ disowned = {}
    /\ failures = 0 /\ pending = 0
    /\ call = [p \in Processes |-> NoCall]

-----------------------------------------------------------------------------
(* What the handlers share. *)

InService(p, step) == call[p].step = step
Moves(p, step) == call' = [call EXCEPT ![p].step = step]

\* The contract has an event with the key.
Replayed(k) == effects[k] > 0 /\ k \in Keyed

\* idempotent_replay takes an event of no contract for the contract's own;
\* the same look inside the writing transaction takes it for another's.
Seen(k) == Replayed(k) \/ k \in retried
Mismatched(k) == k \in retried

Legal(from, to) ==
    \/ from = to
    \/ from = "drafted" /\ to = "active"
    \/ from = "active" /\ to \in {"paused", "blocked", "complete"}
    \/ from = "paused" /\ to = "active"
    \/ from = "blocked" /\ to \in {"active", "complete"}

Target(k) == IF k \in PauseKeys THEN "paused"
             ELSE IF k \in ConfirmKeys THEN "complete" ELSE "active"

\* The answer may be lost on its way.
Answer(p) ==
    /\ answered' \in {answered, answered \cup {call[p].key}}
    /\ call' = [call EXCEPT ![p] = NoCall]
    /\ UNCHANGED disowned

Refuse(p) ==
    /\ disowned' = IF call[p].late THEN disowned \cup {call[p].key} ELSE disowned
    /\ call' = [call EXCEPT ![p] = NoCall]
    /\ UNCHANGED answered

\* update_contract_state on the row as the transaction finds it.
Update(p, state) ==
    /\ row.revision < MaxRevision
    /\ row' = [row EXCEPT !.state = state, !.revision = @ + 1, !.old = FALSE,
                          !.candidate = @ /\ state # "complete"]

TakesEffect(p) == effects' = [effects EXCEPT ![call[p].key] = @ + 1]

-----------------------------------------------------------------------------
(* One action per transaction or read of a handler. *)

\* Mutant: a connection is served while its schema is still upgraded.
BeginUnopened(p, k) ==
    /\ InService(p, "idle")
    /\ sends < MaxSends
    /\ sends' = sends + 1
    /\ call' = [call EXCEPT ![p] = [NoCall EXCEPT
                  !.key = k, !.late = k \in answered,
                  !.step = IF k \in PrepareKeys THEN "commit" ELSE "replay"]]
    /\ UNCHANGED <<database, row, effects, retried, failures, pending, answered, disowned>>

\* A file that lacks a column of the contracts fails the command at its first
\* read, with nothing done.
Begin(p, k) ==
    /\ At(p, "open") /\ InService(p, "idle") /\ Readable
    /\ sends < MaxSends
    /\ sends' = sends + 1
    /\ call' = [call EXCEPT ![p] = [NoCall EXCEPT
                  !.key = k, !.late = k \in answered,
                  !.step = IF k \in PrepareKeys THEN "commit" ELSE "replay"]]
    /\ UNCHANGED <<database, row, effects, retried, failures, pending, answered, disowned>>

Replay(p) ==
    /\ InService(p, "replay")
    /\ IF Seen(call[p].key) /\ row.state # "none"
         THEN Answer(p)
         ELSE Moves(p, "look") /\ UNCHANGED <<answered, disowned>>
    /\ UNCHANGED <<database, row, effects, retried, failures, pending, sends>>

\* Where the state read lets a command go on.
Admits(k) ==
    CASE k \in PauseKeys -> row.state = "active"
      [] k \in ResumeKeys -> row.state \in {"paused", "blocked"}
      [] k \in VerifyKeys -> row.state \in {"drafted", "active", "paused", "blocked"}
      [] k \in ConfirmKeys -> row.candidate

Look(p) ==
    /\ InService(p, "look")
    /\ LET k == call[p].key IN
         IF Admits(k)
           THEN /\ call' = [call EXCEPT ![p].step = IF k \in VerifyKeys THEN "check" ELSE "commit",
                                        ![p].revision = row.revision,
                                        ![p].blocked = (row.state = "blocked")]
                /\ UNCHANGED <<answered, disowned>>
           ELSE Refuse(p)
    /\ UNCHANGED <<database, row, effects, retried, failures, pending, sends>>

\* No request may be pending, no verifier running, and the budget must hold;
\* the evidence of a confirmation must be current.
Check(p) ==
    /\ InService(p, "check")
    /\ IF pending = 0
         THEN Moves(p, IF call[p].blocked THEN "resume" ELSE "append")
              /\ UNCHANGED <<answered, disowned>>
         ELSE Refuse(p)
    /\ UNCHANGED <<database, row, effects, retried, failures, pending, sends>>

Forbidden(p) ==
    /\ \/ InService(p, "check")
       \/ InService(p, "commit") /\ call[p].key \in ConfirmKeys
    /\ Refuse(p)
    /\ UNCHANGED <<database, row, effects, retried, failures, pending, sends>>

\* A blocked contract is resumed before its verification is asked for.
ResumeFirst(p) ==
    /\ InService(p, "resume")
    /\ IF Legal(row.state, "active")
         THEN Update(p, "active") /\ Moves(p, "append") /\ UNCHANGED <<answered, disowned>>
         ELSE Refuse(p) /\ UNCHANGED row
    /\ UNCHANGED <<database, effects, retried, failures, pending, sends>>

AppendEvent(p) ==
    /\ InService(p, "append")
    /\ pending' = pending + 1
    /\ TakesEffect(p) /\ Answer(p)
    /\ UNCHANGED <<database, row, retried, failures, sends>>

\* save_contract: the contract of the key is returned, provided its draft is
\* the caller's; a contract of another key is not replaced.
Save(p) ==
    /\ InService(p, "commit") /\ call[p].key \in PrepareKeys
    /\ LET k == call[p].key IN
         \/ Seen(k) /\ row.state # "none" /\ Answer(p) /\ UNCHANGED <<row, effects>>
         \/ ~Replayed(k) /\ row.state # "none" /\ Refuse(p) /\ UNCHANGED <<row, effects>>
         \/ /\ row.state = "none"
            /\ row' = DraftedRow
            /\ TakesEffect(p) /\ Answer(p)
    /\ UNCHANGED <<database, retried, failures, pending, sends>>

\* Mutant: the writing transaction trusts the look before it.
WriteUnseen(p) ==
    /\ InService(p, "commit") /\ call[p].key \in PauseKeys \cup ResumeKeys
    /\ IF Legal(row.state, Target(call[p].key))
         THEN Update(p, Target(call[p].key)) /\ TakesEffect(p) /\ Answer(p)
         ELSE Refuse(p) /\ UNCHANGED <<row, effects>>
    /\ UNCHANGED <<database, retried, failures, pending, sends>>

\* pause and resume: replay, legality, write and event in one transaction.
Write(p) ==
    /\ InService(p, "commit") /\ call[p].key \in PauseKeys \cup ResumeKeys
    /\ LET k == call[p].key IN
         \/ Mismatched(k) /\ Refuse(p) /\ UNCHANGED <<row, effects>>
         \/ ~Mismatched(k) /\ Replayed(k) /\ Answer(p) /\ UNCHANGED <<row, effects>>
         \/ /\ ~Mismatched(k) /\ ~Replayed(k)
            /\ IF Legal(row.state, Target(k))
                 THEN Update(p, Target(k)) /\ TakesEffect(p) /\ Answer(p)
                 ELSE Refuse(p) /\ UNCHANGED <<row, effects>>
    /\ UNCHANGED <<database, retried, failures, pending, sends>>

\* A confirmation writes the revision it looked at, or nothing.
Confirm(p) ==
    /\ InService(p, "commit") /\ call[p].key \in ConfirmKeys
    /\ IF row.revision = call[p].revision /\ Legal(row.state, "complete")
         THEN Update(p, "complete") /\ TakesEffect(p) /\ Answer(p)
         ELSE Refuse(p) /\ UNCHANGED <<row, effects>>
    /\ UNCHANGED <<database, retried, failures, pending, sends>>

-----------------------------------------------------------------------------
(* Failures, and the daemon beside the commands. *)

\* with_transient_retry: the failure is logged under the command's key and
\* for no contract, if the log can be written, and the handler runs again
\* from its start.
Transient(p) ==
    /\ failures < MaxFailures /\ ~InService(p, "idle")
    /\ failures' = failures + 1
    /\ retried' \in {retried, retried \cup {call[p].key}}
    /\ Moves(p, IF call[p].key \in PrepareKeys THEN "commit" ELSE "replay")
    /\ UNCHANGED <<database, row, effects, pending, sends, answered, disowned>>

\* The process dies, or a command line ends, or the RPC thread closes its
\* connection; the client of a command in service hears nothing.
Close(p) ==
    /\ At(p, "open")
    /\ opening' = [opening EXCEPT ![p] = Closed]
    /\ call' = [call EXCEPT ![p] = NoCall]
    /\ UNCHANGED <<schema, openings, raced, renamed, row, effects, retried, failures, pending, sends,
                   answered, disowned>>

\* The rounds of the daemon: a draft is promoted, a verifier is dispatched for
\* a request, a verdict makes a candidate, or the contract is blocked.
Round(state, candidate) ==
    /\ row.revision < MaxRevision
    /\ row' = [state |-> state, revision |-> row.revision + 1, candidate |-> candidate,
               old |-> FALSE]
    /\ UNCHANGED <<database, service>>

Promote == row.state = "drafted" /\ Round("active", row.candidate)
Judge == row.state = "active" /\ ~row.candidate /\ Round("active", TRUE)
Block == row.state = "active" /\ Round("blocked", row.candidate)

Consume ==
    /\ pending > 0 /\ pending' = pending - 1
    /\ UNCHANGED <<database, row, effects, retried, failures, sends, call, answered, disowned>>

Serve(p) ==
    \/ \E k \in Keys : Begin(p, k)
    \/ Replay(p) \/ Look(p) \/ Check(p) \/ Forbidden(p) \/ ResumeFirst(p) \/ AppendEvent(p)
    \/ Save(p) \/ Write(p) \/ Confirm(p) \/ Transient(p) \/ Close(p)

DaemonOpen == Readable /\ \E p \in Processes : At(p, "open")

Next ==
    \/ \E p \in Processes : Open(p) /\ UNCHANGED service
    \/ \E p \in Processes : Serve(p)
    \/ DaemonOpen /\ (Promote \/ Consume \/ Judge \/ Block)

Spec == Init /\ [][Next]_vars

-----------------------------------------------------------------------------
(* Properties. *)

\* A command whose events carry its key takes effect at most once, whichever
\* processes serve its repetitions at the same time, and whatever dies between
\* their looks and their writes; and a client that was told of success is not
\* deceived.  Only the log of a transient failure makes it so: it leaves the
\* key behind with nothing done, and the repetition answers for it.
KeyedExactlyOnce ==
    /\ \A k \in Keyed : effects[k] <= 1
    /\ \A k \in answered : effects[k] = 0 => k \in retried

\* The stamp comes last: a file of the present version has every table, and
\* every column that a back-fill or an index names, whoever died before or
\* opens it at the same time.  It may lack the other columns: a lock met by
\* their ALTER TABLE passes unnoticed.
StampedIsWhole ==
    schema.version = Version =>
        {"ledger", "tables", "keys", "indexed", "feedback", "evidence"} \subseteq schema.has

\* And no longer than until the next opening: every one tries every column
\* again, so a process that met no lock has opened a file that lacks nothing,
\* whatever the version said and whoever was interrupted before.
OpenedIsWhole == \A p \in Processes : At(p, "open") /\ ~opening[p].locked => schema.has = Parts

\* What a stamp and an opening promise together of the file (ensure_schema).
SchemaIsWhole == StampedIsWhole /\ OpenedIsWhole

\* The words of the first version are rewritten once.  A completion written
\* under the present schema is rewritten only by a process that had read the
\* version before another stamped it.
RenamingNeedsARace == renamed => raced

\* A command that was answered with success is answered so again.
RetryIsAnsweredAlike == disowned \cap ConfirmKeys = {}
=============================================================================
