---------------------------- MODULE SchemaUpgrade ----------------------------
(***************************************************************************)
(* Opening the database (persistence/schema.py).  Every command, every RPC  *)
(* connection and every MCP server runs ensure_schema before its first      *)
(* read: tables, columns, back-fills, indexes and the version stamp, each   *)
(* statement a transaction of its own.  Nothing orders two processes that   *)
(* open the same file; only the version, read at one statement, tells a     *)
(* file that still speaks the first version's words from one that does not. *)
(*                                                                          *)
(* A file is the set of parts of the present schema it has, and the one     *)
(* contract that matters to the renaming of states.  The columns added to   *)
(* old tables are told apart by who names them: a statement that names a    *)
(* column the file lacks fails, and adding one is given up without a word   *)
(* when the file is locked.                                                 *)
(***************************************************************************)
EXTENDS Naturals

CONSTANTS
    Processes,
    MaxOpenings      \* bound: times a process opens the file

VARIABLES
    schema,      \* version: PRAGMA user_version; has: the parts present
    openings,
    opening,     \* per process: where it is, whether it saw a first-version file,
                 \* and (ghost) whether a lock kept a column out
    row,         \* the contract's state, revision and candidacy; "none" before prepare
    raced,       \* ghost: a version was stamped while another process held an older reading
    renamed      \* ghost: a completion written under the present schema was renamed

database == <<schema, openings, opening, raced, renamed>>

Version == 6

\* keys: the columns the back-fills name (goal_id, contract_id, the payload
\* versions); indexed: those an index names (request_id, a decision's
\* contract); deadline: deadline_status; contract and attempt: the other
\* columns of contracts and events, and of attempts, which no later statement
\* of the upgrade names.
Columns == {"keys", "indexed", "deadline", "contract", "attempt"}
Parts == {"ledger", "tables", "feedback", "usage", "goals", "evidence"} \cup Columns

\* Files of earlier programs: the first version's three tables, and those of
\* the second, which was stamped before all its columns were there.
Files == {[version |-> 0, has |-> {}],
          [version |-> 1, has |-> {"ledger"}],
          [version |-> 2, has |-> {"ledger", "tables"}],
          [version |-> 4, has |-> {"ledger", "tables", "feedback"} \cup Columns],
          [version |-> Version, has |-> Parts]}

Places == {"closed", "created", "read", "altered", "renamed", "filled", "migrated",
           "indexed", "completed", "open"}
Closed == [at |-> "closed", fresh |-> FALSE, locked |-> FALSE]

At(p, place) == opening[p].at = place
Goes(p, from, to) == At(p, from) /\ opening' = [opening EXCEPT ![p].at = to]
Gains(parts) == schema' = [schema EXCEPT !.has = @ \cup parts]

\* Each column is added unless it is there, or unless the file stays locked
\* for longer than the busy timeout: both errors are suppressed.
GainsColumns(p, to, columns) ==
    \E added \in SUBSET (columns \ schema.has) :
        /\ Gains(added)
        /\ opening' = [opening EXCEPT ![p] = [at |-> to, fresh |-> opening[p].fresh,
                locked |-> opening[p].locked \/ ~(columns \subseteq schema.has \cup added)]]

\* What a command or a round of the daemon reads of a contract.
Readable == {"deadline", "contract"} \subseteq schema.has

\* Mutant: the rewriting of states is taken for an idempotent step.
RenamedAlways(p) == IF row.state = "complete" THEN "satisfied" ELSE row.state

\* The first version's word for a contract that came to its end.
RenamedState(p) ==
    IF opening[p].fresh /\ row.state = "complete" THEN "satisfied" ELSE row.state

-----------------------------------------------------------------------------
\* CREATE TABLE IF NOT EXISTS: a new table has every column, an old one keeps
\* those it has.
Created ==
    IF "ledger" \notin schema.has THEN {"ledger", "tables", "usage", "goals"} \cup Columns
    ELSE IF "tables" \notin schema.has THEN {"tables", "usage", "goals", "attempt"} ELSE {}

\* A file of a newer program is refused.
Connect(p) ==
    /\ openings < MaxOpenings /\ openings' = openings + 1
    /\ schema.version <= Version
    /\ Goes(p, "closed", "created")
    /\ Gains(Created)
    /\ UNCHANGED <<row, raced, renamed>>

ReadVersion(p) ==
    /\ At(p, "created")
    /\ opening' = [opening EXCEPT ![p].at = "read", ![p].fresh = schema.version < 2]
    /\ UNCHANGED <<openings, schema, row, raced, renamed>>

\* Mutant: a file of the second version or later is taken to have its columns.
AddColumnsOnce(p) ==
    /\ At(p, "read")
    /\ GainsColumns(p, "altered", IF opening[p].fresh THEN Columns ELSE {})
    /\ UNCHANGED <<openings, row, raced, renamed>>

\* Whatever the version: an interrupted upgrade is taken up again.
AddColumns(p) ==
    /\ At(p, "read")
    /\ GainsColumns(p, "altered", Columns)
    /\ UNCHANGED <<openings, row, raced, renamed>>

\* The back-fills, and in a file of the first version the state's new word.
Rename(p) ==
    /\ "keys" \in schema.has
    /\ Goes(p, "altered", "renamed")
    /\ row' = [row EXCEPT !.state = RenamedState(p)]
    /\ renamed' = (renamed \/ (RenamedState(p) # row.state /\ ~row.old))
    /\ UNCHANGED <<openings, schema, raced>>

\* The deadline's new word, in the same file.  What was read of the version
\* is forgotten.
Redate(p) ==
    /\ opening[p].fresh => "deadline" \in schema.has
    /\ At(p, "renamed")
    /\ opening' = [opening EXCEPT ![p].at = "filled", ![p].fresh = FALSE]
    /\ UNCHANGED <<openings, schema, row, raced, renamed>>

\* The tables of versions 3 and 4: feedback, diffs, memories.
MigrateTables(p) ==
    /\ At(p, "filled") /\ "feedback" \notin schema.has
    /\ Gains({"feedback"})
    /\ UNCHANGED <<opening, openings, row, raced, renamed>>

MigrateUsage(p) ==
    /\ At(p, "filled") /\ "feedback" \in schema.has
    /\ GainsColumns(p, "migrated", {"usage"})
    /\ UNCHANGED <<openings, row, raced, renamed>>

\* Evidence, and the indexes on added columns.
Index(p) ==
    /\ {"keys", "indexed"} \subseteq schema.has
    /\ Goes(p, "migrated", "indexed")
    /\ Gains({"evidence"})
    /\ UNCHANGED <<openings, row, raced, renamed>>

\* The goals' own columns; the goals of old contracts need none of them.
AddGoalColumns(p) ==
    /\ At(p, "indexed")
    /\ GainsColumns(p, "completed", {"goals"})
    /\ UNCHANGED <<openings, row, raced, renamed>>

Stamp(p) ==
    /\ Goes(p, "completed", "open")
    /\ schema' = [schema EXCEPT !.version = Version]
    /\ raced' = (raced \/ \E q \in Processes \ {p} :
                            opening[q].fresh /\ opening[q].at \in {"read", "altered"})
    /\ UNCHANGED <<openings, row, renamed>>

\* Any statement may fail, and the process may die at any of them; what the
\* earlier statements did stays.
Fail(p) ==
    /\ opening[p].at \notin {"closed", "open"}
    /\ opening' = [opening EXCEPT ![p] = Closed]
    /\ UNCHANGED <<openings, schema, row, raced, renamed>>

Open(p) ==
    \/ Connect(p) \/ ReadVersion(p) \/ AddColumns(p) \/ Rename(p) \/ Redate(p)
    \/ MigrateTables(p) \/ MigrateUsage(p) \/ Index(p) \/ AddGoalColumns(p)
    \/ Stamp(p) \/ Fail(p)
=============================================================================
