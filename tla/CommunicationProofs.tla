------------------------- MODULE CommunicationProofs -------------------------
(***************************************************************************)
(* What passes between the daemon and those it works with: Requests and    *)
(* SchemaUpgrade for any number of processes and keys, Messaging for any   *)
(* number of notices, agents and directives, and any bounds.               *)
(***************************************************************************)
EXTENDS Requests, Messaging, FiniteSetTheorems, WellFoundedInduction, TLAPS

-----------------------------------------------------------------------------
(* Types. *)

Rows == [state : {"none", "drafted", "active", "paused", "blocked", "complete", "satisfied"},
         revision : 0..MaxRevision, candidate : BOOLEAN, old : BOOLEAN]
CallRecords == [key : Keys \cup {NoKey}, step : Steps, revision : 0..MaxRevision,
                blocked : BOOLEAN, late : BOOLEAN]

Openings == [at : Places, fresh : BOOLEAN, locked : BOOLEAN]

DatabaseTyped ==
    /\ openings \in 0..MaxOpenings
    /\ schema \in [version : 0..Version, has : SUBSET Parts]
    /\ opening \in [Processes -> Openings]
    /\ raced \in BOOLEAN /\ renamed \in BOOLEAN

ServiceTyped ==
    /\ effects \in [Keys -> Nat]
    /\ retried \subseteq Keys /\ answered \subseteq Keys /\ disowned \subseteq Keys
    /\ failures \in 0..MaxFailures
    /\ sends \in 0..MaxSends
    /\ pending \in Nat
    /\ call \in [Processes -> CallRecords]

ServedWhenOpen ==
    \A p \in Processes : call[p].step # "idle" => call[p].key \in Keys /\ At(p, "open")

LEMMA TypeParts ==
    TypeOK <=> DatabaseTyped /\ row \in Rows /\ ServiceTyped /\ ServedWhenOpen
  BY DEF TypeOK, DatabaseTyped, Openings, Rows, ServiceTyped, CallRecords, ServedWhenOpen

LEMMA InitTyped == Init => TypeOK
<1> SUFFICES ASSUME Init PROVE TypeOK
  OBVIOUS
<1>1. DatabaseTyped
  <2>1. schema \in [version : 0..Version, has : SUBSET Parts]
    <3>1. Files \subseteq [version : 0..Version, has : SUBSET Parts]
      <4> DEFINE F == [version : 0..6, has : SUBSET Parts]
      <4>1. [version |-> 0, has |-> {}] \in F
        OBVIOUS
      <4>2. [version |-> 1, has |-> {"ledger"}] \in F
        BY DEF Parts
      <4>3. [version |-> 2, has |-> {"ledger", "tables"}] \in F
        BY DEF Parts
      <4>7. [version |-> 4, has |-> {"ledger", "tables", "feedback"} \cup Columns] \in F
        BY DEF Parts
      <4>4. [version |-> 6, has |-> Parts] \in F
        OBVIOUS
      <4>5. F = [version : 0..Version, has : SUBSET Parts]
        BY DEF Version
      <4> HIDE DEF F
      <4>6. \A f \in Files : f \in F
        BY <4>1, <4>2, <4>3, <4>4, <4>7 DEF Files, Version
      <4> QED
        BY <4>5, <4>6
    <3> QED
      BY <3>1 DEF Init
  <2>2. Closed \in Openings
    BY DEF Closed, Openings, Places
  <2>3. opening \in [Processes -> Openings]
    BY <2>2 DEF Init
  <2>4. openings \in 0..MaxOpenings
    BY BoundsAssumption DEF Init
  <2>5. raced \in BOOLEAN /\ renamed \in BOOLEAN
    BY DEF Init
  <2> QED
    BY <2>1, <2>3, <2>4, <2>5 DEF DatabaseTyped
<1>2. row \in Rows
  <2>1. NewRow \in Rows /\ OldRow("active") \in Rows /\ OldRow("complete") \in Rows
    BY BoundsAssumption DEF NewRow, OldRow, Rows
  <2> QED
    BY <2>1 DEF Init
<1>3. NoCall \in CallRecords
  BY BoundsAssumption DEF NoCall, CallRecords, Steps
<1>4. ServiceTyped
  BY <1>3, BoundsAssumption DEF Init, ServiceTyped
<1>5. ServedWhenOpen
  BY DEF Init, ServedWhenOpen, NoCall
<1> QED
  BY <1>1, <1>2, <1>4, <1>5, TypeParts

LEMMA RenamedRow ==
    ASSUME row \in Rows, NEW p \in Processes, row' = [row EXCEPT !.state = RenamedState(p)]
    PROVE  row' \in Rows
  BY DEF Rows, RenamedState

\* Columns are gained one by one, and only a lock keeps one out.
LEMMA ColumnsGained ==
    ASSUME DatabaseTyped, NEW p \in Processes, NEW to \in Places, NEW columns \in SUBSET Parts,
           GainsColumns(p, to, columns)
    PROVE  /\ schema' \in [version : 0..Version, has : SUBSET Parts]
           /\ schema'.version = schema.version /\ schema.has \subseteq schema'.has
           /\ opening' \in [Processes -> Openings]
           /\ \A q \in Processes \ {p} : opening'[q] = opening[q]
           /\ opening'[p].at = to /\ opening'[p].fresh = opening[p].fresh
           /\ ~opening'[p].locked => ~opening[p].locked /\ columns \subseteq schema'.has
<1>1. PICK added \in SUBSET (columns \ schema.has) :
        /\ Gains(added)
        /\ opening' = [opening EXCEPT ![p] = [at |-> to, fresh |-> opening[p].fresh,
                locked |-> opening[p].locked \/ ~(columns \subseteq schema.has \cup added)]]
  BY DEF GainsColumns
<1>2. /\ schema' \in [version : 0..Version, has : SUBSET Parts]
      /\ schema'.version = schema.version /\ schema'.has = schema.has \cup added
  BY <1>1 DEF DatabaseTyped, Gains
<1>3. opening[p] \in Openings
  BY DEF DatabaseTyped
<1> DEFINE locked == opening[p].locked \/ ~(columns \subseteq schema.has \cup added)
<1>4. opening' = [opening EXCEPT ![p] = [at |-> to, fresh |-> opening[p].fresh,
                                         locked |-> locked]]
  BY <1>1
<1>5. locked \in BOOLEAN /\ (~locked => ~opening[p].locked /\ columns \subseteq schema'.has)
  BY <1>2, <1>3 DEF Openings
<1> HIDE DEF locked
<1>6. /\ opening' \in [Processes -> Openings]
      /\ \A q \in Processes \ {p} : opening'[q] = opening[q]
      /\ opening'[p].at = to /\ opening'[p].fresh = opening[p].fresh
      /\ opening'[p].locked = locked
  BY <1>3, <1>4, <1>5 DEF DatabaseTyped, Openings
<1> QED
  BY <1>2, <1>5, <1>6

\* The three statements that add columns.
LEMMA ColumnSteps ==
    ASSUME NEW p \in Processes
    PROVE  /\ AddColumns(p) => GainsColumns(p, "altered", Columns) /\ "altered" \in Places
           /\ MigrateUsage(p) => GainsColumns(p, "migrated", {"usage"}) /\ "migrated" \in Places
           /\ AddGoalColumns(p) => GainsColumns(p, "completed", {"goals"}) /\ "completed" \in Places
           /\ Columns \in SUBSET Parts /\ {"usage"} \in SUBSET Parts /\ {"goals"} \in SUBSET Parts
  BY DEF AddColumns, MigrateUsage, AddGoalColumns, Places, Parts

LEMMA CreatedParts == Created \in SUBSET Parts
<1>1. {"ledger", "tables", "usage", "goals"} \cup Columns \in SUBSET Parts
  BY DEF Parts
<1>2. {"tables", "usage", "goals", "attempt"} \in SUBSET Parts
  BY DEF Parts, Columns
<1> QED
  BY <1>1, <1>2 DEF Created

LEMMA OpenTyped ==
    ASSUME TypeOK, NEW p \in Processes, Open(p), UNCHANGED service
    PROVE  TypeOK'
<1>1. DatabaseTyped /\ row \in Rows /\ ServiceTyped /\ ServedWhenOpen
  BY TypeParts
<1>2. ServiceTyped'
  BY <1>1 DEF service, ServiceTyped
<1>3. row' \in Rows
  BY <1>1, RenamedRow DEF Open, Connect, ReadVersion, AddColumns, Rename, Redate, MigrateTables,
         MigrateUsage, Index, AddGoalColumns, Stamp, Fail
<1>c. Closed \in Openings
  BY DEF Closed, Openings, Places
<1>5. DatabaseTyped' /\ (opening[p].at = "open" => opening' = opening)
                     /\ \A q \in Processes \ {p} : opening'[q] = opening[q]
  <2>1. CASE Connect(p)
    BY <1>1, <2>1, BoundsAssumption, CreatedParts
      DEF Connect, Goes, At, Gains, DatabaseTyped, Openings, Places, Version
  <2>2. CASE ReadVersion(p)
    <3>1. (schema.version < 2) \in BOOLEAN /\ "read" \in Places
      BY DEF Places
    <3>2. opening' \in [Processes -> Openings]
      BY <1>1, <2>2, <3>1 DEF ReadVersion, DatabaseTyped, Openings
    <3> QED
      BY <1>1, <2>2, <3>2 DEF ReadVersion, At, DatabaseTyped
  <2>3. CASE AddColumns(p)
    BY <1>1, <2>3, ColumnsGained, ColumnSteps DEF AddColumns, At, DatabaseTyped
  <2>4. CASE Rename(p)
    BY <1>1, <2>4 DEF Rename, Goes, At, DatabaseTyped, Openings, Places
  <2>5. CASE Redate(p)
    BY <1>1, <2>5 DEF Redate, At, DatabaseTyped, Openings, Places
  <2>6. CASE MigrateTables(p)
    BY <1>1, <2>6 DEF MigrateTables, At, Gains, DatabaseTyped, Openings, Parts, Version
  <2>7. CASE MigrateUsage(p)
    BY <1>1, <2>7, ColumnsGained, ColumnSteps DEF MigrateUsage, At, DatabaseTyped
  <2>8. CASE Index(p)
    BY <1>1, <2>8 DEF Index, Goes, At, Gains, DatabaseTyped, Openings, Places, Parts, Version
  <2>9. CASE AddGoalColumns(p)
    BY <1>1, <2>9, ColumnsGained, ColumnSteps DEF AddGoalColumns, At, DatabaseTyped
  <2>10. CASE Stamp(p)
    BY <1>1, <2>10 DEF Stamp, Goes, At, DatabaseTyped, Openings, Places, Version
  <2>11. CASE Fail(p)
    BY <1>1, <1>c, <2>11 DEF Fail, At, DatabaseTyped, Openings
  <2> QED
    BY <2>1, <2>2, <2>3, <2>4, <2>5, <2>6, <2>7, <2>8, <2>9, <2>10, <2>11 DEF Open
<1>4. ServedWhenOpen'
  BY <1>1, <1>5 DEF service, ServedWhenOpen, At
<1> QED
  BY <1>2, <1>3, <1>4, <1>5 DEF TypeOK, DatabaseTyped, Openings, Rows, ServiceTyped, CallRecords,
    ServedWhenOpen, At

\* What the handlers share keeps the types.
LEMMA UpdatedRow ==
    ASSUME row \in Rows, NEW p \in Processes, NEW to \in {"active", "paused", "complete"},
           Update(p, to)
    PROVE  row' \in Rows
<1>1. row.revision \in Nat /\ row.revision + 1 \in 0..MaxRevision
  BY BoundsAssumption DEF Rows, Update
<1>2. (row.candidate /\ to # "complete") \in BOOLEAN
  OBVIOUS
<1>3. row' = [row EXCEPT !.state = to, !.revision = row.revision + 1, !.old = FALSE,
                         !.candidate = (row.candidate /\ to # "complete")]
  BY DEF Update
<1> QED
  BY <1>1, <1>2, <1>3 DEF Rows

LEMMA AnswerTyped ==
    ASSUME ServiceTyped, NEW p \in Processes, ~InService(p, "idle"), ServedWhenOpen,
           Answer(p) \/ Refuse(p)
    PROVE  /\ answered' \subseteq Keys /\ disowned' \subseteq Keys
           /\ call' = [call EXCEPT ![p] = NoCall]
           /\ call' \in [Processes -> CallRecords]
<1>1. call[p].key \in Keys
  BY DEF ServedWhenOpen, InService
<1>2. NoCall \in CallRecords
  BY BoundsAssumption DEF NoCall, CallRecords, Steps
<1>3. call' = [call EXCEPT ![p] = NoCall]
  BY DEF Answer, Refuse
<1>4. call' \in [Processes -> CallRecords]
  BY <1>2, <1>3 DEF ServiceTyped
<1>5. CASE Answer(p)
  BY <1>1, <1>3, <1>4, <1>5 DEF Answer, ServiceTyped
<1>6. CASE Refuse(p)
  BY <1>1, <1>3, <1>4, <1>6 DEF Refuse, ServiceTyped
<1> QED
  BY <1>5, <1>6

\* The handlers that end and leave the tables alone.
LEMMA ServeTyped ==
    ASSUME TypeOK, NEW p \in Processes, Serve(p)
    PROVE  TypeOK'
<1>0. DatabaseTyped /\ row \in Rows /\ ServiceTyped /\ ServedWhenOpen
  BY TypeParts
<1>a. ASSUME ServiceTyped', ServedWhenOpen', row' \in Rows, DatabaseTyped'
      PROVE  TypeOK'
  BY <1>a DEF TypeOK, DatabaseTyped, Openings, Rows, ServiceTyped, CallRecords, ServedWhenOpen, At
<1>b. ASSUME UNCHANGED database
      PROVE  DatabaseTyped'
  BY <1>0, <1>b DEF DatabaseTyped, database
<1>c. ASSUME ~InService(p, "idle"), Answer(p) \/ Refuse(p), UNCHANGED opening
      PROVE  /\ answered' \subseteq Keys /\ disowned' \subseteq Keys
             /\ call' \in [Processes -> CallRecords] /\ ServedWhenOpen'
  BY <1>0, <1>c, AnswerTyped DEF ServedWhenOpen, At, NoCall, ServiceTyped
<1>d. ASSUME NEW step \in Steps, ~InService(p, "idle"), Moves(p, step), UNCHANGED opening
      PROVE  call' \in [Processes -> CallRecords] /\ ServedWhenOpen'
  BY <1>0, <1>d DEF Moves, ServedWhenOpen, At, ServiceTyped, CallRecords, InService
<1>1. ASSUME NEW k \in Keys, Begin(p, k)
      PROVE  TypeOK'
  <2>1. [NoCall EXCEPT !.key = k, !.late = k \in answered,
                       !.step = IF k \in PrepareKeys THEN "commit" ELSE "replay"] \in CallRecords
    <3>1. (k \in answered) \in BOOLEAN
      OBVIOUS
    <3>2. (IF k \in PrepareKeys THEN "commit" ELSE "replay") \in Steps
      BY DEF Steps
    <3>3. NoCall \in CallRecords
      BY BoundsAssumption DEF NoCall, CallRecords, Steps
    <3> QED
      BY <3>1, <3>2, <3>3 DEF CallRecords
  <2>2. sends' \in 0..MaxSends
    BY <1>0, <1>1, BoundsAssumption DEF Begin, ServiceTyped
  <2>3. ServiceTyped'
    BY <1>0, <1>1, <2>1, <2>2 DEF Begin, ServiceTyped
  <2>4. ServedWhenOpen'
    BY <1>0, <1>1 DEF Begin, ServedWhenOpen, At, ServiceTyped, database, NoCall
  <2> QED
    BY <1>0, <1>1, <1>a, <1>b, <2>3, <2>4 DEF Begin
<1>2. CASE Replay(p)
  <2>1. ~InService(p, "idle") /\ "look" \in Steps
    BY <1>2 DEF Replay, InService, Steps
  <2>2. ServiceTyped' /\ ServedWhenOpen'
    BY <1>0, <1>2, <1>c, <1>d, <2>1 DEF Replay, database, ServiceTyped
  <2> QED
    BY <1>0, <1>2, <1>a, <1>b, <2>2 DEF Replay
<1>3. CASE Look(p)
  <2>1. ~InService(p, "idle")
    BY <1>3 DEF Look, InService
  <2>2. ASSUME NEW step \in {"check", "commit"}, NEW b \in BOOLEAN,
               call' = [call EXCEPT ![p].step = step, ![p].revision = row.revision, ![p].blocked = b]
        PROVE  call' \in [Processes -> CallRecords] /\ (UNCHANGED opening => ServedWhenOpen')
    <3>1. row.revision \in 0..MaxRevision /\ step \in Steps
      BY <1>0 DEF Rows, Steps
    <3>2. call' = [call EXCEPT ![p] = [call[p] EXCEPT !.step = step, !.revision = row.revision,
                                                       !.blocked = b]]
      BY <2>2
    <3>3. [call[p] EXCEPT !.step = step, !.revision = row.revision, !.blocked = b] \in CallRecords
      BY <1>0, <3>1 DEF ServiceTyped, CallRecords
    <3>4. call' \in [Processes -> CallRecords]
      BY <1>0, <3>2, <3>3 DEF ServiceTyped
    <3>5. ASSUME UNCHANGED opening PROVE ServedWhenOpen'
      BY <1>0, <2>1, <3>2, <3>5 DEF ServiceTyped, CallRecords, ServedWhenOpen, At, InService
    <3> QED
      BY <3>4, <3>5
  <2>3. ServiceTyped' /\ ServedWhenOpen'
    BY <1>0, <1>3, <1>c, <2>1, <2>2 DEF Look, database, ServiceTyped
  <2> QED
    BY <1>0, <1>3, <1>a, <1>b, <2>3 DEF Look
<1>4. CASE Check(p)
  <2>1. ~InService(p, "idle") /\ {"resume", "append"} \subseteq Steps
    BY <1>4 DEF Check, InService, Steps
  <2>2. ServiceTyped' /\ ServedWhenOpen'
    BY <1>0, <1>4, <1>c, <1>d, <2>1 DEF Check, database, ServiceTyped
  <2> QED
    BY <1>0, <1>4, <1>a, <1>b, <2>2 DEF Check
<1>5. CASE Forbidden(p)
  <2>1. ~InService(p, "idle")
    BY <1>5 DEF Forbidden, InService
  <2>2. ServiceTyped' /\ ServedWhenOpen'
    BY <1>0, <1>5, <1>c, <2>1 DEF Forbidden, database, ServiceTyped
  <2> QED
    BY <1>0, <1>5, <1>a, <1>b, <2>2 DEF Forbidden
<1>6. CASE ResumeFirst(p)
  <2>1. ~InService(p, "idle") /\ "append" \in Steps
    BY <1>6 DEF ResumeFirst, InService, Steps
  <2>2. row' \in Rows
    BY <1>0, <1>6, UpdatedRow DEF ResumeFirst
  <2>3. ServiceTyped' /\ ServedWhenOpen'
    BY <1>0, <1>6, <1>c, <1>d, <2>1 DEF ResumeFirst, database, ServiceTyped
  <2> QED
    BY <1>6, <1>a, <1>b, <2>2, <2>3 DEF ResumeFirst
<1>7. CASE AppendEvent(p)
  <2>1. ~InService(p, "idle") /\ call[p].key \in Keys
    BY <1>0, <1>7 DEF AppendEvent, InService, ServedWhenOpen
  <2>2. ServiceTyped' /\ ServedWhenOpen'
    BY <1>0, <1>7, <1>c, <2>1 DEF AppendEvent, TakesEffect, database, ServiceTyped
  <2> QED
    BY <1>0, <1>7, <1>a, <1>b, <2>2 DEF AppendEvent
<1>8. CASE Save(p)
  <2>1. ~InService(p, "idle") /\ call[p].key \in Keys
    BY <1>0, <1>8 DEF Save, InService, ServedWhenOpen
  <2>2. DraftedRow \in Rows
    BY BoundsAssumption DEF DraftedRow, Rows
  <2>3. row' \in Rows
    BY <1>0, <1>8, <2>2 DEF Save
  <2>4. effects' \in [Keys -> Nat] /\ UNCHANGED opening /\ (Answer(p) \/ Refuse(p))
    BY <1>0, <1>8, <2>1 DEF Save, TakesEffect, database, ServiceTyped
  <2>5. ServiceTyped' /\ ServedWhenOpen'
    BY <1>0, <1>8, <1>c, <2>1, <2>4 DEF Save, ServiceTyped
  <2> QED
    BY <1>8, <1>a, <1>b, <2>3, <2>5 DEF Save
<1>9. CASE Write(p)
  <2>1. ~InService(p, "idle") /\ call[p].key \in Keys
    BY <1>0, <1>9 DEF Write, InService, ServedWhenOpen
  <2>2. Target(call[p].key) \in {"active", "paused", "complete"}
    BY DEF Target
  <2>3. row' \in Rows
    BY <1>0, <1>9, <2>2, UpdatedRow DEF Write
  <2>4. effects' \in [Keys -> Nat] /\ UNCHANGED opening /\ (Answer(p) \/ Refuse(p))
    BY <1>0, <1>9, <2>1 DEF Write, TakesEffect, database, ServiceTyped
  <2>5. ServiceTyped' /\ ServedWhenOpen'
    BY <1>0, <1>9, <1>c, <2>1, <2>4 DEF Write, ServiceTyped
  <2> QED
    BY <1>9, <1>a, <1>b, <2>3, <2>5 DEF Write
<1>10. CASE Confirm(p)
  <2>1. ~InService(p, "idle") /\ call[p].key \in Keys
    BY <1>0, <1>10 DEF Confirm, InService, ServedWhenOpen
  <2>2. row' \in Rows
    BY <1>0, <1>10, UpdatedRow DEF Confirm
  <2>3. effects' \in [Keys -> Nat] /\ UNCHANGED opening /\ (Answer(p) \/ Refuse(p))
    BY <1>0, <1>10, <2>1 DEF Confirm, TakesEffect, database, ServiceTyped
  <2>4. ServiceTyped' /\ ServedWhenOpen'
    BY <1>0, <1>10, <1>c, <2>1, <2>3 DEF Confirm, ServiceTyped
  <2> QED
    BY <1>10, <1>a, <1>b, <2>2, <2>4 DEF Confirm
<1>11. CASE Transient(p)
  <2>1. ~InService(p, "idle") /\ {"commit", "replay"} \subseteq Steps /\ call[p].key \in Keys
    BY <1>0, <1>11 DEF Transient, InService, Steps, ServedWhenOpen
  <2>2. failures' \in 0..MaxFailures
    BY <1>0, <1>11, BoundsAssumption DEF Transient, ServiceTyped
  <2>3. ServiceTyped' /\ ServedWhenOpen'
    BY <1>0, <1>11, <1>d, <2>1, <2>2 DEF Transient, database, ServiceTyped
  <2> QED
    BY <1>0, <1>11, <1>a, <1>b, <2>3 DEF Transient
<1>12. CASE Close(p)
  <2>1. NoCall \in CallRecords /\ "closed" \in Places
    BY BoundsAssumption DEF NoCall, CallRecords, Steps, Places
  <2>2. DatabaseTyped'
    BY <1>0, <1>12, <2>1 DEF Close, Closed, DatabaseTyped, Openings, Places, At
  <2>3. ServiceTyped' /\ ServedWhenOpen'
    BY <1>0, <1>12, <2>1 DEF Close, DatabaseTyped, ServiceTyped, ServedWhenOpen, At, NoCall
  <2> QED
    BY <1>0, <1>12, <1>a, <2>2, <2>3 DEF Close
<1> QED
  BY <1>1, <1>2, <1>3, <1>4, <1>5, <1>6, <1>7, <1>8, <1>9, <1>10, <1>11, <1>12 DEF Serve

LEMMA DaemonTyped ==
    ASSUME TypeOK, Promote \/ Consume \/ Judge \/ Block
    PROVE  TypeOK'
<1>1. DatabaseTyped /\ row \in Rows /\ ServiceTyped /\ ServedWhenOpen
  BY TypeParts
<1>2. ASSUME NEW state \in {"active", "blocked"}, NEW c \in BOOLEAN, Round(state, c)
      PROVE  row' \in Rows /\ UNCHANGED <<database, service>>
  BY <1>1, <1>2, BoundsAssumption DEF Round, Rows
<1>3. row.candidate \in BOOLEAN
  BY <1>1 DEF Rows
<1>4. CASE Promote \/ Judge \/ Block
  <2>1. row' \in Rows /\ UNCHANGED <<database, service>>
    BY <1>2, <1>3, <1>4 DEF Promote, Judge, Block
  <2> QED
    BY <1>1, <2>1 DEF TypeOK, DatabaseTyped, Rows, ServiceTyped, CallRecords, ServedWhenOpen, At,
                      database, service
<1>5. CASE Consume
  <2>1. pending' \in Nat
    BY <1>1, <1>5 DEF Consume, ServiceTyped
  <2> QED
    BY <1>1, <1>5, <2>1 DEF Consume, TypeOK, DatabaseTyped, Rows, ServiceTyped, CallRecords,
                            ServedWhenOpen, At, database
<1> QED
  BY <1>4, <1>5

LEMMA NextTyped == TypeOK /\ [Next]_vars => TypeOK'
<1> SUFFICES ASSUME TypeOK, [Next]_vars PROVE TypeOK'
  OBVIOUS
<1>1. CASE UNCHANGED vars
  BY <1>1 DEF vars, database, service, TypeOK, At
<1> QED
  BY <1>1, OpenTyped, ServeTyped, DaemonTyped DEF Next

\* The tables stay well-typed under any interleaving of openings, commands
\* and rounds (schema.py, rpc/handlers).
THEOREM TypeCorrect == Spec => []TypeOK
  BY InitTyped, NextTyped, PTL DEF Spec

-----------------------------------------------------------------------------
(* The schema. *)

\* A place past a statement has what the statement made, or names; nothing is
\* dropped.  Without a lock it has the columns as well.
HasItsParts(p) ==
    /\ opening[p].at \notin {"closed", "open"} => {"ledger", "tables"} \subseteq schema.has
    /\ opening[p].at \in {"renamed", "filled", "migrated", "indexed", "completed"}
         => "keys" \in schema.has
    /\ opening[p].at \in {"migrated", "indexed", "completed"} => "feedback" \in schema.has
    /\ opening[p].at \in {"indexed", "completed"} => {"indexed", "evidence"} \subseteq schema.has
    /\ ~opening[p].locked =>
         /\ opening[p].at \notin {"closed", "created", "read"} => Columns \subseteq schema.has
         /\ opening[p].at \in {"migrated", "indexed", "completed", "open"} => "usage" \in schema.has
         /\ opening[p].at \in {"completed", "open"} => "goals" \in schema.has

OpeningKeepsParts == \A p \in Processes : HasItsParts(p)

\* Who is past the stamp, and what was written by one who is.
PastTheStamp ==
    /\ \A p \in Processes : opening[p].at = "open" => schema.version = Version
    /\ ~row.old /\ row.state # "none" => schema.version = Version

\* A reading older than the stamp was overtaken.
Overtaken ==
    \A p \in Processes :
        opening[p].fresh /\ opening[p].at \in {"read", "altered"} /\ schema.version = Version
          => raced

UpgradeInv ==
    TypeOK /\ OpeningKeepsParts /\ StampedIsWhole /\ PastTheStamp /\ Overtaken /\ RenamingNeedsARace

LEMMA UpgradeInit == Init => UpgradeInv
<1> SUFFICES ASSUME Init PROVE UpgradeInv
  OBVIOUS
<1>1. StampedIsWhole
  <2>1. \A f \in Files : f.version = Version => f.has = Parts
    BY DEF Files, Version
  <2> QED
    BY <2>1 DEF Init, StampedIsWhole, Parts, Columns
<1>2. OpeningKeepsParts /\ Overtaken /\ RenamingNeedsARace
  BY DEF Init, Closed, OpeningKeepsParts, HasItsParts, Overtaken, RenamingNeedsARace
<1>3. PastTheStamp
  <2>1. ~row.old => row.state = "none"
    BY DEF Init, NewRow, OldRow
  <2> QED
    BY <2>1 DEF Init, Closed, PastTheStamp
<1> QED
  BY <1>1, <1>2, <1>3, InitTyped DEF UpgradeInv

\* A statement that adds to the file, before the stamp.
LEMMA StatementUpgrades ==
    ASSUME UpgradeInv, TypeOK', NEW p \in Processes,
           schema'.version = schema.version, schema.has \subseteq schema'.has,
           \A q \in Processes \ {p} : opening'[q] = opening[q],
           UNCHANGED <<row, raced, renamed>>,
           HasItsParts(p)', opening'[p].at # "open",
           opening'[p].fresh /\ opening'[p].at \in {"read", "altered"} =>
             schema.version < 2 \/ (opening[p].fresh /\ opening[p].at \in {"read", "altered"})
    PROVE  UpgradeInv'
<1>1. OpeningKeepsParts'
  <2> SUFFICES ASSUME NEW q \in Processes PROVE HasItsParts(q)'
    BY DEF OpeningKeepsParts
  <2>1. CASE q # p
    <3>1. HasItsParts(q) /\ opening'[q] = opening[q]
      BY <2>1 DEF UpgradeInv, OpeningKeepsParts
    <3> QED
      BY <3>1 DEF HasItsParts
  <2> QED
    BY <2>1
<1>2. StampedIsWhole'
  BY DEF UpgradeInv, StampedIsWhole
<1>3. PastTheStamp'
  BY DEF UpgradeInv, PastTheStamp
<1>4. Overtaken'
  BY DEF UpgradeInv, Overtaken, Version
<1>5. RenamingNeedsARace'
  BY DEF UpgradeInv, RenamingNeedsARace
<1> QED
  BY <1>1, <1>2, <1>3, <1>4, <1>5 DEF UpgradeInv

LEMMA OpenUpgrades ==
    ASSUME UpgradeInv, NEW p \in Processes, Open(p), UNCHANGED service
    PROVE  UpgradeInv'
<1>1. DatabaseTyped /\ row \in Rows /\ HasItsParts(p) /\ opening[p] \in Openings
  BY TypeParts DEF UpgradeInv, OpeningKeepsParts, DatabaseTyped
<1>2. TypeOK'
  BY OpenTyped DEF UpgradeInv
<1>3. CASE Connect(p)
  <2>1. /\ schema'.version = schema.version /\ schema.has \subseteq schema'.has
        /\ \A q \in Processes \ {p} : opening'[q] = opening[q]
        /\ opening'[p].at = "created"
    BY <1>1, <1>3 DEF Connect, Goes, Gains, DatabaseTyped, Openings
  <2>2. "ledger" \in schema.has => "tables" \in schema.has \cup Created
    BY DEF Created
  <2>3. {"ledger", "tables"} \subseteq schema'.has
    BY <1>1, <1>3, <2>1, <2>2 DEF Connect, Gains, DatabaseTyped, Created
  <2>4. HasItsParts(p)'
    BY <2>1, <2>3 DEF HasItsParts
  <2> QED
    BY <1>2, <1>3, <2>1, <2>4, StatementUpgrades DEF Connect
<1>4. CASE ReadVersion(p)
  <2>1. /\ \A q \in Processes \ {p} : opening'[q] = opening[q]
        /\ opening'[p].at = "read" /\ (opening'[p].fresh => schema.version < 2)
    BY <1>1, <1>4 DEF ReadVersion, DatabaseTyped, Openings
  <2>2. HasItsParts(p)'
    BY <1>1, <1>4, <2>1 DEF ReadVersion, At, HasItsParts
  <2> QED
    <3>1. UNCHANGED <<schema, row, raced, renamed>>
      BY <1>4 DEF ReadVersion
    <3>2. schema'.version = schema.version /\ schema.has \subseteq schema'.has
      BY <3>1
    <3>3. /\ opening'[p].at # "open"
          /\ opening'[p].fresh /\ opening'[p].at \in {"read", "altered"} =>
               schema.version < 2 \/ (opening[p].fresh /\ opening[p].at \in {"read", "altered"})
      BY <2>1
    <3> QED
      BY <1>2, <2>1, <2>2, <3>1, <3>2, <3>3, StatementUpgrades
<1>5. CASE AddColumns(p)
  <2>1. HasItsParts(p)'
    BY <1>1, <1>5, ColumnsGained, ColumnSteps DEF AddColumns, At, HasItsParts
  <2> QED
    BY <1>1, <1>2, <1>5, <2>1, ColumnsGained, ColumnSteps, StatementUpgrades DEF AddColumns, At
<1>6. CASE Rename(p)
  <2>1. /\ \A q \in Processes \ {p} : opening'[q] = opening[q]
        /\ opening'[p].at = "renamed" /\ opening'[p].locked = opening[p].locked
    BY <1>1, <1>6 DEF Rename, Goes, DatabaseTyped, Openings
  <2>2. HasItsParts(p)'
    BY <1>1, <1>6, <2>1 DEF Rename, Goes, At, HasItsParts
  <2>3. OpeningKeepsParts'
    BY <1>6, <2>1, <2>2 DEF Rename, UpgradeInv, OpeningKeepsParts, HasItsParts
  <2>4. StampedIsWhole'
    BY <1>6 DEF Rename, UpgradeInv, StampedIsWhole
  <2>5. PastTheStamp'
    BY <1>1, <1>6, <2>1 DEF Rename, RenamedState, Rows, UpgradeInv, PastTheStamp
  <2>6. Overtaken'
    BY <1>6, <2>1 DEF Rename, UpgradeInv, Overtaken
  <2>7. RenamingNeedsARace'
    BY <1>1, <1>6 DEF Rename, Goes, At, UpgradeInv, RenamingNeedsARace, PastTheStamp, Overtaken,
                      RenamedState, Rows
  <2> QED
    BY <1>2, <2>3, <2>4, <2>5, <2>6, <2>7 DEF UpgradeInv
<1>7. CASE Redate(p)
  <2>1. /\ \A q \in Processes \ {p} : opening'[q] = opening[q]
        /\ opening'[p].at = "filled" /\ opening'[p].locked = opening[p].locked
    BY <1>1, <1>7 DEF Redate, DatabaseTyped, Openings
  <2>2. HasItsParts(p)'
    BY <1>1, <1>7, <2>1 DEF Redate, At, HasItsParts
  <2> QED
    BY <1>2, <1>7, <2>1, <2>2, StatementUpgrades DEF Redate
<1>8. CASE MigrateTables(p)
  <2>1. schema'.version = schema.version /\ schema.has \subseteq schema'.has
    BY <1>1, <1>8 DEF MigrateTables, Gains, DatabaseTyped
  <2>2. HasItsParts(p)'
    BY <1>1, <1>8, <2>1 DEF MigrateTables, At, HasItsParts
  <2> QED
    BY <1>2, <1>8, <2>1, <2>2, StatementUpgrades DEF MigrateTables, At
<1>9. CASE MigrateUsage(p)
  <2>1. HasItsParts(p)'
    BY <1>1, <1>9, ColumnsGained, ColumnSteps DEF MigrateUsage, At, HasItsParts
  <2> QED
    BY <1>1, <1>2, <1>9, <2>1, ColumnsGained, ColumnSteps, StatementUpgrades DEF MigrateUsage
<1>10. CASE Index(p)
  <2>1. /\ schema'.version = schema.version /\ schema'.has = schema.has \cup {"evidence"}
        /\ \A q \in Processes \ {p} : opening'[q] = opening[q]
        /\ opening'[p].at = "indexed" /\ opening'[p].locked = opening[p].locked
    BY <1>1, <1>10 DEF Index, Goes, Gains, DatabaseTyped, Openings
  <2>2. HasItsParts(p)'
    BY <1>1, <1>10, <2>1 DEF Index, Goes, At, HasItsParts
  <2> QED
    BY <1>2, <1>10, <2>1, <2>2, StatementUpgrades DEF Index
<1>11. CASE AddGoalColumns(p)
  <2>1. HasItsParts(p)'
    BY <1>1, <1>11, ColumnsGained, ColumnSteps DEF AddGoalColumns, At, HasItsParts
  <2> QED
    BY <1>1, <1>2, <1>11, <2>1, ColumnsGained, ColumnSteps, StatementUpgrades DEF AddGoalColumns
<1>12. CASE Stamp(p)
  <2>1. /\ schema'.version = Version /\ schema'.has = schema.has
        /\ \A q \in Processes \ {p} : opening'[q] = opening[q]
        /\ opening'[p].at = "open" /\ opening'[p].locked = opening[p].locked
    BY <1>1, <1>12 DEF Stamp, Goes, DatabaseTyped, Openings
  <2>2. HasItsParts(p)'
    BY <1>1, <1>12, <2>1 DEF Stamp, Goes, At, HasItsParts
  <2>3. OpeningKeepsParts'
    BY <2>1, <2>2 DEF UpgradeInv, OpeningKeepsParts, HasItsParts
  <2>4. StampedIsWhole'
    BY <1>1, <1>12, <2>1 DEF Stamp, Goes, At, StampedIsWhole, HasItsParts
  <2>5. PastTheStamp'
    BY <1>12, <2>1 DEF Stamp, PastTheStamp
  <2>6. Overtaken'
    BY <1>12, <2>1 DEF Stamp, UpgradeInv, Overtaken
  <2>7. RenamingNeedsARace'
    BY <1>12 DEF Stamp, UpgradeInv, RenamingNeedsARace
  <2> QED
    BY <1>2, <2>3, <2>4, <2>5, <2>6, <2>7 DEF UpgradeInv
<1>13. CASE Fail(p)
  <2>1. /\ \A q \in Processes \ {p} : opening'[q] = opening[q]
        /\ opening'[p].at = "closed"
    BY <1>1, <1>13 DEF Fail, DatabaseTyped, Closed
  <2>2. HasItsParts(p)'
    BY <2>1 DEF HasItsParts
  <2> QED
    BY <1>2, <1>13, <2>1, <2>2, StatementUpgrades DEF Fail
<1> QED
  BY <1>3, <1>4, <1>5, <1>6, <1>7, <1>8, <1>9, <1>10, <1>11, <1>12, <1>13 DEF Open

\* Commands and rounds write rows only through an open database.
LEMMA RowsKeepUpgrade ==
    ASSUME UpgradeInv, TypeOK', UNCHANGED <<schema, raced, renamed>>,
           \A p \in Processes : opening'[p] = opening[p] \/ opening'[p].at = "closed",
           row' = row \/ \E p \in Processes : At(p, "open")
    PROVE  UpgradeInv'
<1>1. OpeningKeepsParts' /\ StampedIsWhole' /\ Overtaken' /\ RenamingNeedsARace'
  BY DEF UpgradeInv, OpeningKeepsParts, HasItsParts, StampedIsWhole, Overtaken, RenamingNeedsARace
<1>2. PastTheStamp'
  BY DEF UpgradeInv, PastTheStamp, At
<1> QED
  BY <1>1, <1>2 DEF UpgradeInv

LEMMA ServeUpgrades ==
    ASSUME UpgradeInv, NEW p \in Processes, Serve(p)
    PROVE  UpgradeInv'
<1>1. DatabaseTyped /\ ServedWhenOpen
  BY TypeParts DEF UpgradeInv
<1>2. TypeOK'
  BY ServeTyped DEF UpgradeInv
<1>3. UNCHANGED <<schema, raced, renamed>>
  BY DEF Serve, Begin, Replay, Look, Check, Forbidden, ResumeFirst, AppendEvent, Save, Write, Confirm,
         Transient, Close, database
<1>4. \A q \in Processes : opening'[q] = opening[q] \/ opening'[q].at = "closed"
  <2>1. CASE Close(p)
    BY <1>1, <2>1 DEF Close, Closed, DatabaseTyped
  <2>2. CASE UNCHANGED opening
    BY <2>2
  <2> QED
    BY <2>1, <2>2 DEF Serve, Begin, Replay, Look, Check, Forbidden, ResumeFirst, AppendEvent, Save, Write,
                      Confirm, Transient, database
<1>5. row' = row \/ At(p, "open")
  BY <1>1 DEF Serve, Begin, Replay, Look, Check, Forbidden, ResumeFirst, AppendEvent, Save, Write, Confirm,
              Transient, Close, ServedWhenOpen, InService
<1> QED
  BY <1>2, <1>3, <1>4, <1>5, RowsKeepUpgrade DEF UpgradeInv

LEMMA NextUpgrades == UpgradeInv /\ [Next]_vars => UpgradeInv'
<1> SUFFICES ASSUME UpgradeInv, [Next]_vars PROVE UpgradeInv'
  OBVIOUS
<1>1. TypeOK'
  BY NextTyped DEF UpgradeInv
<1>2. CASE UNCHANGED vars
  BY <1>1, <1>2, RowsKeepUpgrade DEF vars, database
<1>3. CASE DaemonOpen /\ (Promote \/ Consume \/ Judge \/ Block)
  BY <1>1, <1>3, RowsKeepUpgrade DEF DaemonOpen, Promote, Consume, Judge, Block, Round, database
<1> QED
  BY <1>2, <1>3, OpenUpgrades, ServeUpgrades DEF Next

\* A process that opened the file and met no lock has it whole: every opening
\* tries every column again, whatever the version (_migrate_v1_to_v2).
LEMMA OpeningRepairs == UpgradeInv => OpenedIsWhole
<1> SUFFICES ASSUME UpgradeInv, NEW p \in Processes, At(p, "open"), ~opening[p].locked
             PROVE  schema.has = Parts
  BY DEF OpenedIsWhole
<1>1. schema.has \subseteq Parts
  BY TypeParts DEF UpgradeInv, DatabaseTyped
<1>2. {"ledger", "tables", "keys", "indexed", "feedback", "evidence"} \subseteq schema.has
  BY DEF UpgradeInv, PastTheStamp, StampedIsWhole, At
<1>3. Columns \subseteq schema.has /\ {"usage", "goals"} \subseteq schema.has
  BY DEF UpgradeInv, OpeningKeepsParts, HasItsParts, At
<1> QED
  BY <1>1, <1>2, <1>3 DEF Parts

\* Whoever opens the file at the same time, and dies at whatever statement:
\* a stamped file has every table, and every column that a back-fill or an
\* index names (ensure_schema stamps last), and who opened it without meeting
\* a lock has all of it.
THEOREM SchemaHolds == Spec => []SchemaIsWhole
<1>1. UpgradeInv => SchemaIsWhole
  BY OpeningRepairs DEF UpgradeInv, SchemaIsWhole
<1> QED
  BY UpgradeInit, NextUpgrades, <1>1, PTL DEF Spec

\* Only a version read before another process stamped it lets a completion of
\* the present schema be rewritten (_migrate_v1_to_v2).
THEOREM RenamedInARace == Spec => []RenamingNeedsARace
<1>1. UpgradeInv => RenamingNeedsARace
  BY DEF UpgradeInv
<1> QED
  BY UpgradeInit, NextUpgrades, <1>1, PTL DEF Spec

-----------------------------------------------------------------------------
(* The keys. *)

\* Where a command stands tells its method.
StepsOfMethods ==
    \A p \in Processes :
        /\ call[p].step \in {"check", "resume", "append"} => call[p].key \in VerifyKeys
        /\ call[p].step \in {"replay", "look"} => call[p].key \notin PrepareKeys

PreparedIsThere == \A k \in PrepareKeys : effects[k] > 0 => row.state # "none"

OnceInv == TypeOK /\ StepsOfMethods /\ PreparedIsThere /\ KeyedExactlyOnce

LEMMA OnceInit == Init => OnceInv
<1> SUFFICES ASSUME Init PROVE OnceInv
  OBVIOUS
<1>1. StepsOfMethods
  BY DEF Init, StepsOfMethods, NoCall
<1>2. PreparedIsThere /\ KeyedExactlyOnce
  BY DEF Init, PreparedIsThere, KeyedExactlyOnce, Keys, Keyed
<1> QED
  BY <1>1, <1>2, InitTyped DEF OnceInv

\* A step that takes no effect and answers no key keeps what is known of them.
LEMMA NoEffect ==
    ASSUME OnceInv, UNCHANGED <<effects, answered>>, retried \subseteq retried',
           row.state # "none" => row'.state # "none"
    PROVE  PreparedIsThere' /\ KeyedExactlyOnce'
  BY DEF OnceInv, PreparedIsThere, KeyedExactlyOnce

\* The effect or the earlier one of the key that is answered.
LEMMA EffectOnce ==
    ASSUME OnceInv, NEW k \in Keys, retried' = retried, row'.state # "none",
           answered' \in {answered, answered \cup {k}},
           \/ effects' = effects /\ Seen(k)
           \/ effects' = [effects EXCEPT ![k] = @ + 1] /\ (k \in Keyed => effects[k] = 0)
    PROVE  PreparedIsThere' /\ KeyedExactlyOnce'
<1>1. effects \in [Keys -> Nat]
  BY DEF OnceInv, TypeOK
<1>2. CASE effects' = effects /\ Seen(k)
  BY <1>1, <1>2 DEF OnceInv, PreparedIsThere, KeyedExactlyOnce, Seen, Replayed
<1>3. CASE effects' = [effects EXCEPT ![k] = @ + 1] /\ (k \in Keyed => effects[k] = 0)
  BY <1>1, <1>3 DEF OnceInv, PreparedIsThere, KeyedExactlyOnce, Keyed, Keys
<1> QED
  BY <1>2, <1>3

LEMMA ServeOnce ==
    ASSUME OnceInv, NEW p \in Processes, Serve(p)
    PROVE  OnceInv'
<1>0. /\ call \in [Processes -> CallRecords] /\ effects \in [Keys -> Nat] /\ row \in Rows
      /\ call[p].step # "idle" => call[p].key \in Keys
  BY DEF OnceInv, TypeOK, CallRecords, Rows
<1>a. TypeOK'
  BY ServeTyped DEF OnceInv
<1>b. ASSUME call' = [call EXCEPT ![p] = NoCall]
      PROVE  StepsOfMethods'
  BY <1>0, <1>b DEF OnceInv, StepsOfMethods, NoCall
<1>c. ASSUME Answer(p) \/ Refuse(p)
      PROVE  StepsOfMethods'
  BY <1>b, <1>c DEF Answer, Refuse
<1>d. ASSUME StepsOfMethods', PreparedIsThere' /\ KeyedExactlyOnce'
      PROVE  OnceInv'
  BY <1>a, <1>d DEF OnceInv
<1>e. ASSUME Refuse(p), effects' = effects, retried' = retried, row'.state # "none" \/ row' = row
      PROVE  OnceInv'
  BY <1>c, <1>d, <1>e, NoEffect DEF Refuse
<1>1. ASSUME NEW k \in Keys, Begin(p, k)
      PROVE  OnceInv'
  <2>1. StepsOfMethods'
    BY <1>0, <1>1 DEF Begin, OnceInv, StepsOfMethods, NoCall
  <2> QED
    BY <1>1, <1>d, <2>1, NoEffect DEF Begin
<1>2. CASE Replay(p)
  <2>1. CASE Seen(call[p].key) /\ row.state # "none"
    <3>1. PreparedIsThere' /\ KeyedExactlyOnce'
      BY <1>0, <1>2, <2>1, EffectOnce DEF Replay, Answer, InService
    <3> QED
      BY <1>2, <1>c, <1>d, <2>1, <3>1 DEF Replay
  <2>2. CASE ~(Seen(call[p].key) /\ row.state # "none")
    <3>1. StepsOfMethods'
      BY <1>0, <1>2, <2>2 DEF Replay, Moves, InService, OnceInv, StepsOfMethods, CallRecords
    <3> QED
      BY <1>2, <1>d, <2>2, <3>1, NoEffect DEF Replay
  <2> QED
    BY <2>1, <2>2
<1>3. CASE Look(p)
  <2>1. CASE Admits(call[p].key)
    <3>1. StepsOfMethods'
      BY <1>0, <1>3, <2>1 DEF Look, InService, OnceInv, StepsOfMethods, CallRecords
    <3> QED
      BY <1>3, <1>d, <2>1, <3>1, NoEffect DEF Look
  <2>2. CASE ~Admits(call[p].key)
    BY <1>3, <1>e, <2>2 DEF Look
  <2> QED
    BY <2>1, <2>2
<1>4. CASE Check(p)
  <2>1. CASE pending = 0
    <3>1. StepsOfMethods'
      BY <1>0, <1>4, <2>1 DEF Check, Moves, InService, OnceInv, StepsOfMethods, CallRecords
    <3> QED
      BY <1>4, <1>d, <2>1, <3>1, NoEffect DEF Check
  <2>2. CASE pending # 0
    BY <1>4, <1>e, <2>2 DEF Check
  <2> QED
    BY <2>1, <2>2
<1>5. CASE Forbidden(p)
  BY <1>5, <1>e DEF Forbidden
<1>6. CASE ResumeFirst(p)
  <2>1. CASE Legal(row.state, "active")
    <3>1. StepsOfMethods'
      BY <1>0, <1>6, <2>1 DEF ResumeFirst, Moves, InService, OnceInv, StepsOfMethods, CallRecords
    <3>2. row'.state # "none"
      BY <1>0, <1>6, <2>1 DEF ResumeFirst, Update, Rows
    <3> QED
      BY <1>6, <1>d, <2>1, <3>1, <3>2, NoEffect DEF ResumeFirst
  <2>2. CASE ~Legal(row.state, "active")
    BY <1>6, <1>e, <2>2 DEF ResumeFirst
  <2> QED
    BY <2>1, <2>2
<1>7. CASE AppendEvent(p)
  <2>1. call[p].key \in VerifyKeys \ Keyed
    BY <1>7, KeysAssumption DEF AppendEvent, InService, OnceInv, StepsOfMethods, Keyed
  <2>2. KeyedExactlyOnce' /\ PreparedIsThere'
    BY <1>0, <1>7, <2>1 DEF AppendEvent, TakesEffect, Answer, OnceInv, KeyedExactlyOnce, PreparedIsThere,
                            Keyed, Keys
  <2> QED
    BY <1>7, <1>c, <1>d, <2>2 DEF AppendEvent
<1>8. CASE Save(p)
  <2>1. call[p].key \in Keys /\ call[p].key \in PrepareKeys
    BY <1>0, <1>8 DEF Save, InService
  <2>2. CASE Seen(call[p].key) /\ row.state # "none" /\ Answer(p) /\ UNCHANGED <<row, effects>>
    BY <1>8, <1>c, <1>d, <2>1, <2>2, EffectOnce DEF Save, Answer
  <2>3. CASE Refuse(p) /\ UNCHANGED <<row, effects>>
    BY <1>8, <1>e, <2>3 DEF Save
  <2>4. CASE row.state = "none" /\ row' = DraftedRow /\ TakesEffect(p) /\ Answer(p)
    <3>1. effects[call[p].key] = 0
      BY <1>0, <2>1, <2>4 DEF OnceInv, PreparedIsThere
    <3> QED
      BY <1>8, <1>c, <1>d, <2>1, <2>4, <3>1, EffectOnce DEF Save, Answer, TakesEffect, DraftedRow
  <2> QED
    BY <1>8, <2>2, <2>3, <2>4 DEF Save
<1>9. CASE Write(p)
  <2>1. call[p].key \in Keys
    BY <1>0, <1>9 DEF Write, InService
  <2>2. CASE Refuse(p) /\ UNCHANGED <<row, effects>>
    BY <1>9, <1>e, <2>2 DEF Write
  <2>3. CASE Replayed(call[p].key) /\ Answer(p) /\ UNCHANGED <<row, effects>>
    <3>1. PreparedIsThere' /\ KeyedExactlyOnce'
      BY <1>0, <1>9, <2>1, <2>3 DEF Write, Answer, OnceInv, PreparedIsThere, KeyedExactlyOnce, Replayed
    <3> QED
      BY <1>c, <1>d, <2>3, <3>1
  <2>4. CASE /\ ~Replayed(call[p].key) /\ TakesEffect(p) /\ Answer(p)
             /\ Update(p, Target(call[p].key))
    <3>1. row'.state # "none"
      BY <1>0, <2>4 DEF Update, Target, Rows
    <3>2. call[p].key \in Keyed => effects[call[p].key] = 0
      BY <1>0, <2>1, <2>4 DEF Replayed
    <3> QED
      BY <1>9, <1>c, <1>d, <2>1, <2>4, <3>1, <3>2, EffectOnce DEF Write, Answer, TakesEffect
  <2> QED
    BY <1>9, <2>2, <2>3, <2>4 DEF Write
<1>10. CASE Confirm(p)
  <2>1. call[p].key \in Keys /\ call[p].key \notin Keyed
    BY <1>0, <1>10, KeysAssumption DEF Confirm, InService, Keyed
  <2>2. CASE Refuse(p) /\ UNCHANGED <<row, effects>>
    BY <1>10, <1>e, <2>2 DEF Confirm
  <2>3. CASE Update(p, "complete") /\ TakesEffect(p) /\ Answer(p)
    <3>1. row'.state # "none"
      BY <1>0, <2>3 DEF Update, Rows
    <3> QED
      BY <1>10, <1>c, <1>d, <2>1, <2>3, <3>1, EffectOnce DEF Confirm, Answer, TakesEffect
  <2> QED
    BY <1>10, <2>2, <2>3 DEF Confirm
<1>11. CASE Transient(p)
  <2>1. StepsOfMethods'
    BY <1>0, <1>11 DEF Transient, Moves, InService, OnceInv, StepsOfMethods, CallRecords
  <2> QED
    BY <1>11, <1>d, <2>1, NoEffect DEF Transient
<1>12. CASE Close(p)
  BY <1>12, <1>b, <1>d, NoEffect DEF Close
<1> QED
  BY <1>1, <1>2, <1>3, <1>4, <1>5, <1>6, <1>7, <1>8, <1>9, <1>10, <1>11, <1>12 DEF Serve

LEMMA NextOnce == OnceInv /\ [Next]_vars => OnceInv'
<1> SUFFICES ASSUME OnceInv, [Next]_vars PROVE OnceInv'
  OBVIOUS
<1>1. TypeOK'
  BY NextTyped DEF OnceInv
<1>2. row \in Rows
  BY TypeParts DEF OnceInv
<1>3. ASSUME UNCHANGED <<effects, answered, retried, call>>, row.state # "none" => row'.state # "none"
      PROVE  OnceInv'
  BY <1>1, <1>3, NoEffect DEF OnceInv, StepsOfMethods
<1>4. CASE UNCHANGED vars
  BY <1>3, <1>4 DEF vars, service
<1>5. ASSUME NEW p \in Processes, Open(p), UNCHANGED service
      PROVE  OnceInv'
  <2>1. row.state # "none" => row'.state # "none"
    BY <1>2, <1>5 DEF Open, Connect, ReadVersion, AddColumns, Rename, Redate, MigrateTables,
                      MigrateUsage, Index, AddGoalColumns, Stamp, Fail, RenamedState, Rows
  <2> QED
    BY <1>3, <1>5, <2>1 DEF service
<1>6. CASE Promote \/ Consume \/ Judge \/ Block
  BY <1>3, <1>6 DEF Promote, Consume, Judge, Block, Round, service
<1> QED
  BY <1>4, <1>5, <1>6, ServeOnce DEF Next

\* Commands repeated under their key, by any number of processes and through
\* any transient failure, take effect at most once (idempotent_replay and the
\* replay inside update_contract_state and save_contract).
THEOREM OncePerKey == Spec => []KeyedExactlyOnce
<1>1. OnceInv => KeyedExactlyOnce
  BY DEF OnceInv
<1> QED
  BY OnceInit, NextOnce, <1>1, PTL DEF Spec
-----------------------------------------------------------------------------
(* Messaging: the inductive invariant.                                      *)

\* What is claimed is leased, and what is in hand was taken.
BatchIsLeased ==
    /\ \A n \in batch : outbox[n].status = "leased"
    /\ inHand # NoNotice => inHand \in batch /\ deliveries[inHand] > 0

\* Every delivery that is neither marked nor in hand was cut off by a crash.
DeliveriesAccountedFor ==
    \A n \in Notices :
        /\ outbox[n].status = "sent" => deliveries[n] > 0
        /\ deliveries[n] <= crashes + (IF outbox[n].status = "sent" \/ n = inHand THEN 1 ELSE 0)

\* The directive is with the agent, marked or to be marked.
Reached(a, i) ==
    \/ i \in acked[a]
    \/ snapshot # NoSnapshot /\ snapshot.agent = a /\ snapshot.spawned /\ i \in snapshot.given

TellingsAccountedFor ==
    \A a \in Agents, i \in Sent :
        /\ Reached(a, i) => told[a][i] > 0
        /\ told[a][i] <= crashes + (IF Reached(a, i) THEN 1 ELSE 0)

\* A snapshot gives what was not acknowledged, and with a directive every older
\* one that is owed.
Owed(a, i) == i > cursor[a] /\ i > stale /\ AddressedTo(a, i) /\ told[a][i] = 0

OldestFirst ==
    snapshot # NoSnapshot =>
        /\ ~snapshot.spawned => snapshot.given \cap acked[snapshot.agent] = {}
        /\ \A g \in snapshot.given : \A i \in Sent :
              i < g /\ Owed(snapshot.agent, i) => i \in snapshot.given

NothingSkipped ==
    \A a \in Agents : \A i \in 1 .. cursor[a] : AddressedTo(a, i) /\ told[a][i] = 0 => i <= stale

\* What was not sent was not told.
NotToldAhead == \A a \in Agents, i \in Positions \ Sent : told[a][i] = 0

OutboxInv ==
    /\ OutboxTypeOK
    /\ turn # "drain" => Drained
    /\ BatchIsLeased
    /\ DeliveriesAccountedFor

DirectivesInv ==
    /\ DirectivesTypeOK
    /\ turn # "starting" => snapshot = NoSnapshot
    /\ TellingsAccountedFor
    /\ OldestFirst
    /\ NothingSkipped
    /\ NotToldAhead

MessagingInv ==
    /\ turn \in Turns /\ crashes \in 0 .. MaxCrashes
    /\ OutboxInv
    /\ DirectivesInv

-----------------------------------------------------------------------------
(* Messaging: the outbox.                                                   *)

\* The longest wait is one of the three and no shorter than the others.
LEMMA LongestWait ==
    /\ Longest \in Nat
    /\ LeaseTicks \in 0 .. Longest /\ RetryTicks \in 0 .. Longest /\ QuietTicks \in 0 .. Longest
<1> DEFINE ticks == {LeaseTicks, RetryTicks, QuietTicks}
<1>1. \E t \in ticks : \A u \in ticks : u <= t
  BY TicksAssumption
<1>2. Longest \in ticks /\ \A u \in ticks : u <= Longest
  BY <1>1 DEF Longest
<1> QED
  BY <1>2, TicksAssumption

\* A row is written whole; the others stay.
LEMMA RowWritten ==
    ASSUME OutboxTypeOK, NEW n \in Notices,
           NEW status \in {"none", "pending", "leased", "sent"}, NEW wait \in 0 .. Longest,
           outbox' = [outbox EXCEPT ![n] = Row(status, wait)]
    PROVE  /\ outbox' \in [Notices -> [status : {"none", "pending", "leased", "sent"},
                                      wait : 0 .. Longest]]
           /\ outbox'[n].status = status
           /\ \A m \in Notices \ {n} : outbox'[m] = outbox[m]
  BY DEF OutboxTypeOK, Row

LEMMA OutboxStays ==
    ASSUME OutboxInv, UNCHANGED outboxVars, crashes' = crashes, turn' # "drain" => Drained
    PROVE  OutboxInv'
  BY DEF OutboxInv, outboxVars, OutboxTypeOK, Drained, BatchIsLeased, DeliveriesAccountedFor

LEMMA OutboxEnqueues ==
    ASSUME OutboxInv, crashes \in Nat, NEW n \in Notices, Enqueues(n)
    PROVE  OutboxInv'
<1>1. PICK wait \in {0, QuietTicks} : outbox' = [outbox EXCEPT ![n] = Row("pending", wait)]
  BY DEF Enqueues, Enqueue
<1>2. wait \in 0 .. Longest
  BY LongestWait
<1>3. outbox[n].status = "none" /\ UNCHANGED <<batch, inHand, deliveries, turn, crashes>>
  BY DEF Enqueues, Enqueue
<1>4. /\ outbox' \in [Notices -> [status : {"none", "pending", "leased", "sent"}, wait : 0 .. Longest]]
      /\ outbox'[n].status = "pending"
      /\ \A m \in Notices \ {n} : outbox'[m] = outbox[m]
  BY <1>1, <1>2, RowWritten DEF OutboxInv
<1>5. n \notin batch
  BY <1>3 DEF OutboxInv, BatchIsLeased
<1>6. OutboxTypeOK' /\ (turn' # "drain" => Drained')
  BY <1>3, <1>4 DEF OutboxInv, OutboxTypeOK, Drained
<1>7. BatchIsLeased'
  BY <1>3, <1>4, <1>5 DEF OutboxInv, BatchIsLeased, OutboxTypeOK
<1>8. DeliveriesAccountedFor'
  BY <1>3, <1>4, <1>5 DEF OutboxInv, BatchIsLeased, DeliveriesAccountedFor, OutboxTypeOK
<1> QED
  BY <1>6, <1>7, <1>8 DEF OutboxInv

LEMMA OutboxClaims ==
    ASSUME OutboxInv, crashes \in Nat, BeginDrain
    PROVE  OutboxInv'
<1>1. /\ outbox' = [n \in Notices |-> IF IsDue(n) THEN Row("leased", LeaseTicks) ELSE outbox[n]]
      /\ batch' = {n \in Notices : IsDue(n)}
      /\ UNCHANGED <<inHand, deliveries, crashes>> /\ turn' = "drain" /\ inHand = NoNotice
  BY DEF BeginDrain, Claim, OutboxInv, Drained
<1>2. \A n \in Notices : outbox'[n].status = IF IsDue(n) THEN "leased" ELSE outbox[n].status
  BY <1>1 DEF Row
<1>3. OutboxTypeOK'
  BY <1>1, LongestWait DEF OutboxInv, OutboxTypeOK, Row
<1>4. BatchIsLeased'
  BY <1>1, <1>2 DEF BatchIsLeased
<1>5. DeliveriesAccountedFor'
  BY <1>1, <1>2 DEF OutboxInv, DeliveriesAccountedFor, IsDue
<1> QED
  BY <1>1, <1>3, <1>4, <1>5 DEF OutboxInv

LEMMA OutboxHands ==
    ASSUME OutboxInv, crashes \in Nat, NEW n \in Notices, Hands(n)
    PROVE  OutboxInv'
<1>1. /\ n \in batch /\ inHand = NoNotice /\ inHand' = n
      /\ deliveries' = [deliveries EXCEPT ![n] = @ + 1]
      /\ UNCHANGED <<outbox, batch, turn, crashes>> /\ turn = "drain"
  BY DEF Hands, ChannelTakes
<1>2. deliveries \in [Notices -> Nat]
  BY DEF OutboxInv, OutboxTypeOK
<1>3. OutboxTypeOK'
  BY <1>1, <1>2 DEF OutboxInv, OutboxTypeOK
<1>4. BatchIsLeased'
  BY <1>1, <1>2 DEF OutboxInv, BatchIsLeased
<1>5. DeliveriesAccountedFor'
  BY <1>1, <1>2, NoticeAssumption DEF OutboxInv, DeliveriesAccountedFor, BatchIsLeased
<1> QED
  BY <1>1, <1>3, <1>4, <1>5 DEF OutboxInv

LEMMA OutboxRefused ==
    ASSUME OutboxInv, crashes \in Nat, NEW n \in Notices, Refused(n)
    PROVE  OutboxInv'
<1>1. /\ n \in batch /\ inHand = NoNotice /\ batch' = batch \ {n} /\ turn = "drain"
      /\ UNCHANGED <<inHand, deliveries, turn, crashes>> /\ outbox[n].status = "leased"
  BY DEF Refused, ChannelRefuses, OutboxInv, BatchIsLeased
<1>2. outbox' = [outbox EXCEPT ![n] = Row("pending", RetryTicks)]
  BY <1>1 DEF Refused, ChannelRefuses, Marked
<1>3. /\ outbox' \in [Notices -> [status : {"none", "pending", "leased", "sent"}, wait : 0 .. Longest]]
      /\ outbox'[n].status = "pending"
      /\ \A m \in Notices \ {n} : outbox'[m] = outbox[m]
  BY <1>2, LongestWait, RowWritten DEF OutboxInv
<1>4. OutboxTypeOK'
  BY <1>1, <1>3 DEF OutboxInv, OutboxTypeOK
<1>5. BatchIsLeased'
  BY <1>1, <1>3 DEF OutboxInv, BatchIsLeased, OutboxTypeOK
<1>6. DeliveriesAccountedFor'
  BY <1>1, <1>3 DEF OutboxInv, DeliveriesAccountedFor
<1> QED
  BY <1>1, <1>4, <1>5, <1>6 DEF OutboxInv

LEMMA OutboxMarks ==
    ASSUME OutboxInv, crashes \in Nat, NEW n \in Notices, Marks(n)
    PROVE  OutboxInv'
<1>1. /\ n = inHand /\ n \in batch /\ batch' = batch \ {n} /\ turn = "drain" /\ inHand' = NoNotice
      /\ UNCHANGED <<deliveries, turn, crashes>> /\ outbox[n].status = "leased" /\ deliveries[n] > 0
  BY NoticeAssumption DEF Marks, MarkSent, OutboxInv, BatchIsLeased
<1>2. outbox' = [outbox EXCEPT ![n] = Row("sent", 0)]
  BY <1>1 DEF Marks, MarkSent, Marked
<1>3. /\ outbox' \in [Notices -> [status : {"none", "pending", "leased", "sent"}, wait : 0 .. Longest]]
      /\ outbox'[n].status = "sent"
      /\ \A m \in Notices \ {n} : outbox'[m] = outbox[m]
  <2>1. 0 \in 0 .. Longest
    BY LongestWait
  <2> QED
    BY <1>2, <2>1, RowWritten DEF OutboxInv
<1>4. OutboxTypeOK'
  BY <1>1, <1>3 DEF OutboxInv, OutboxTypeOK
<1>5. BatchIsLeased'
  BY <1>1, <1>3 DEF OutboxInv, BatchIsLeased, OutboxTypeOK
<1>6. DeliveriesAccountedFor'
  BY <1>1, <1>3, NoticeAssumption DEF OutboxInv, DeliveriesAccountedFor
<1> QED
  BY <1>1, <1>4, <1>5, <1>6 DEF OutboxInv

LEMMA OutboxTicks ==
    ASSUME OutboxInv, Elapse
    PROVE  OutboxInv'
<1>1. /\ outbox' = [n \in Notices |->
                      Row(outbox[n].status, IF outbox[n].wait = 0 THEN 0 ELSE outbox[n].wait - 1)]
      /\ UNCHANGED <<batch, inHand, deliveries, crashes>> /\ turn # "drain"
  BY DEF Elapse, OutboxElapse
<1>2. \A n \in Notices : outbox'[n].status = outbox[n].status
  BY <1>1 DEF Row
<1>3. OutboxTypeOK'
  <2>1. \A n \in Notices : (IF outbox[n].wait = 0 THEN 0 ELSE outbox[n].wait - 1) \in 0 .. Longest
    <3> SUFFICES ASSUME NEW n \in Notices
                 PROVE  (IF outbox[n].wait = 0 THEN 0 ELSE outbox[n].wait - 1) \in 0 .. Longest
      OBVIOUS
    <3>1. outbox[n].wait \in 0 .. Longest
      BY DEF OutboxInv, OutboxTypeOK
    <3> QED
      BY <3>1, LongestWait
  <2> QED
    BY <1>1, <2>1 DEF OutboxInv, OutboxTypeOK, Row
<1>4. BatchIsLeased' /\ Drained'
  BY <1>1, <1>2 DEF OutboxInv, BatchIsLeased, OutboxTypeOK, Drained
<1>5. DeliveriesAccountedFor'
  BY <1>1, <1>2 DEF OutboxInv, DeliveriesAccountedFor
<1> QED
  BY <1>3, <1>4, <1>5 DEF OutboxInv

LEMMA OutboxCrashes ==
    ASSUME OutboxInv, crashes \in Nat, Crash
    PROVE  OutboxInv'
<1>1. /\ batch' = {} /\ inHand' = NoNotice /\ crashes' = crashes + 1
      /\ UNCHANGED <<outbox, deliveries>>
  BY DEF Crash, OutboxCrash
<1>2. deliveries \in [Notices -> Nat]
  BY DEF OutboxInv, OutboxTypeOK
<1>3. OutboxTypeOK' /\ BatchIsLeased' /\ Drained'
  BY <1>1 DEF OutboxInv, OutboxTypeOK, BatchIsLeased, Drained
<1>4. DeliveriesAccountedFor'
  BY <1>1, <1>2 DEF OutboxInv, DeliveriesAccountedFor
<1> QED
  BY <1>3, <1>4 DEF OutboxInv
-----------------------------------------------------------------------------
(* Messaging: the directives.                                               *)

LEMMA SentPositions ==
    ASSUME DirectivesTypeOK
    PROVE  Len(log) \in Nat /\ Sent \in SUBSET Positions /\ IsFiniteSet(Sent)
<1>1. Len(log) \in Nat /\ Len(log) <= MaxDirectives
  BY DEF DirectivesTypeOK
<1>2. IsFiniteSet(1 .. Len(log))
  BY <1>1, FS_Interval
<1> QED
  BY <1>1, <1>2, LimitsAssumption DEF Sent, Positions

\* What compile_context_snapshot injects is a prefix of what is pending.
LEMMA InjectedIsPrefix ==
    ASSUME DirectivesTypeOK, NEW S \in SUBSET Sent, NEW g \in Injected(S), NEW i \in S, i < g
    PROVE  i \in Injected(S)
<1> DEFINE low == {k \in S : k < i}
           high == {k \in S : k < g}
<1>1. Sent \in SUBSET Nat /\ IsFiniteSet(Sent) /\ g \in S
  BY SentPositions DEF Sent, Injected
<1>2. IsFiniteSet(high) /\ low \subseteq high
  <2>1. high \subseteq Sent
    OBVIOUS
  <2>2. low \subseteq high
    <3> SUFFICES ASSUME NEW k \in S, k < i
                 PROVE  k < g
      OBVIOUS
    <3>1. g \in Nat /\ i \in Nat /\ k \in Nat
      BY <1>1
    <3> QED
      BY <3>1
  <2> QED
    BY <1>1, <2>1, <2>2, FS_Subset
<1>3. /\ Cardinality(low) \in Nat /\ Cardinality(high) \in Nat
      /\ Cardinality(low) <= Cardinality(high)
  BY <1>2, FS_Subset, FS_CardinalityType
<1>4. Cardinality(high) < MaxInjected
  BY DEF Injected
<1>5. Cardinality(low) < MaxInjected
  BY <1>3, <1>4, LimitsAssumption
<1> QED
  BY <1>5 DEF Injected

LEMMA DirectivesStay ==
    ASSUME DirectivesInv, UNCHANGED directiveVars, crashes' = crashes,
           turn' # "starting" => turn # "starting"
    PROVE  DirectivesInv'
<1>1. UNCHANGED <<log, stale, cursor, acked, snapshot, told>>
  BY DEF directiveVars
<1>2. DirectivesTypeOK' /\ (turn' # "starting" => snapshot' = NoSnapshot)
  BY <1>1 DEF DirectivesInv, DirectivesTypeOK, Sent
<1>3. TellingsAccountedFor'
  BY <1>1 DEF DirectivesInv, TellingsAccountedFor, Sent, Reached
<1>4. OldestFirst'
  BY <1>1 DEF DirectivesInv, OldestFirst, Sent, Owed, AddressedTo
<1>5. NothingSkipped' /\ NotToldAhead'
  BY <1>1 DEF DirectivesInv, NothingSkipped, NotToldAhead, AddressedTo, Sent
<1> QED
  BY <1>2, <1>3, <1>4, <1>5 DEF DirectivesInv

LEMMA DirectivesSent ==
    ASSUME DirectivesInv, crashes \in Nat, NEW to \in Agents \cup {Everyone}, Directs(to)
    PROVE  DirectivesInv'
<1>1. /\ log' = Append(log, to) /\ Len(log) < MaxDirectives
      /\ UNCHANGED <<stale, cursor, acked, snapshot, told, turn, crashes>>
  BY DEF Directs, SendDirective
<1> DEFINE new == Len(log) + 1
<1>2. DirectivesTypeOK /\ Sent \in SUBSET Positions /\ Len(log) \in Nat
  BY SentPositions DEF DirectivesInv
<1>3. /\ log' \in Seq(Agents \cup {Everyone}) /\ Len(log') = new
      /\ \A i \in Sent : log'[i] = log[i]
  BY <1>1 DEF DirectivesInv, DirectivesTypeOK, Sent
<1>4. Sent' = Sent \cup {new} /\ new \in Positions \ Sent /\ Sent = 1 .. Len(log)
  BY <1>1, <1>2, <1>3, LimitsAssumption DEF Sent, Positions
<1>5. \A i \in Sent : i < new
  BY <1>2, <1>4
<1>6. \A a \in Agents, i \in Sent : AddressedTo(a, i)' = AddressedTo(a, i)
  BY <1>3 DEF AddressedTo
<1>7. snapshot = NoSnapshot \/ (snapshot.agent \in Agents /\ snapshot.given \in SUBSET Sent)
  BY <1>2 DEF DirectivesTypeOK
<1>8. DirectivesTypeOK'
  <2>1. 0 .. Len(log) \subseteq 0 .. Len(log')
    BY <1>2, <1>3
  <2>2. stale' \in 0 .. Len(log') /\ cursor' \in [Agents -> 0 .. Len(log')]
    BY <1>1, <1>2, <2>1 DEF DirectivesTypeOK
  <2>3. acked' \in [Agents -> SUBSET (Sent')]
    BY <1>1, <1>2, <1>4 DEF DirectivesTypeOK
  <2>4. snapshot' = NoSnapshot \/ snapshot' \in [agent : Agents, given : SUBSET (Sent'), spawned : BOOLEAN]
    BY <1>1, <1>2, <1>4 DEF DirectivesTypeOK
  <2> QED
    BY <1>1, <1>2, <1>3, <2>2, <2>3, <2>4, LimitsAssumption DEF DirectivesTypeOK
<1>9. TellingsAccountedFor'
  <2>1. ASSUME NEW a \in Agents
        PROVE  ~ Reached(a, new) /\ told[a][new] = 0
    <3>1. new \notin acked[a]
      BY <1>2, <1>4 DEF DirectivesTypeOK
    <3> QED
      BY <1>4, <1>7, <3>1 DEF Reached, DirectivesInv, NotToldAhead
  <2>2. \A a \in Agents, i \in Sent' : Reached(a, i)' = Reached(a, i)
    BY <1>1 DEF Reached
  <2> QED
    BY <1>1, <1>4, <2>1, <2>2 DEF DirectivesInv, TellingsAccountedFor
<1>10. OldestFirst'
  <2> SUFFICES ASSUME snapshot # NoSnapshot, NEW g \in snapshot.given, NEW i \in Sent', i < g,
                      Owed(snapshot.agent, i)'
               PROVE  i \in snapshot.given
    BY <1>1 DEF DirectivesInv, OldestFirst
  <2>1. i \in Sent
    BY <1>2, <1>4, <1>5, <1>7
  <2>2. Owed(snapshot.agent, i)
    BY <1>1, <1>6, <1>7, <2>1 DEF Owed
  <2> QED
    BY <2>1, <2>2 DEF DirectivesInv, OldestFirst
<1>11. NothingSkipped'
  <2>1. \A a \in Agents : \A i \in 1 .. cursor[a] : i \in Sent
    BY <1>2 DEF DirectivesTypeOK, Sent
  <2> QED
    BY <1>1, <1>6, <2>1 DEF DirectivesInv, NothingSkipped
<1>12. NotToldAhead'
  BY <1>1, <1>4 DEF DirectivesInv, NotToldAhead, Positions
<1> QED
  BY <1>1, <1>8, <1>9, <1>10, <1>11, <1>12 DEF DirectivesInv

LEMMA DirectivesCompiled ==
    ASSUME DirectivesInv, crashes \in Nat, NEW a \in Agents, BeginStart(a)
    PROVE  DirectivesInv'
<1> DEFINE r == [agent |-> a, given |-> Injected(Pending(a)), spawned |-> FALSE]
<1>1. /\ snapshot = NoSnapshot /\ snapshot' = r /\ turn' = "starting"
      /\ UNCHANGED <<log, stale, cursor, acked, told, crashes>>
  BY DEF BeginStart, Compile
<1>2. r.agent = a /\ r.given = Injected(Pending(a)) /\ r.spawned = FALSE
  OBVIOUS
<1>3. Pending(a) \in SUBSET Sent /\ Injected(Pending(a)) \in SUBSET Pending(a)
  BY DEF Pending, Injected
<1>4. DirectivesTypeOK'
  <2>1. r \in [agent : Agents, given : SUBSET Sent, spawned : BOOLEAN]
    BY <1>3
  <2> HIDE DEF r
  <2> QED
    BY <1>1, <2>1 DEF DirectivesInv, DirectivesTypeOK, Sent
<1>5. TellingsAccountedFor'
  <2>1. \A b \in Agents, i \in Sent : Reached(b, i)' = Reached(b, i)
    BY <1>1, <1>2 DEF Reached
  <2> QED
    BY <1>1, <2>1 DEF DirectivesInv, TellingsAccountedFor, Sent
<1>6. OldestFirst'
  <2>1. r.given \cap acked[a] = {}
    BY <1>2, <1>3 DEF Pending
  <2>2. ASSUME NEW g \in r.given, NEW i \in Sent, i < g, Owed(a, i)
        PROVE  i \in r.given
    <3>1. i \notin acked[a]
      BY <2>2 DEF Owed, DirectivesInv, TellingsAccountedFor, Reached
    <3>2. i \in Pending(a)
      BY <2>2, <3>1 DEF Owed, Pending
    <3> QED
      BY <1>2, <1>3, <2>2, <3>2, InjectedIsPrefix DEF DirectivesInv
  <2> HIDE DEF r
  <2>3. \A i \in Sent : Owed(a, i)' = Owed(a, i)
    BY <1>1 DEF Owed, AddressedTo
  <2> QED
    BY <1>1, <1>2, <2>1, <2>2, <2>3 DEF OldestFirst, Sent
<1>7. NothingSkipped' /\ NotToldAhead'
  BY <1>1 DEF DirectivesInv, NothingSkipped, NotToldAhead, AddressedTo, Sent
<1> QED
  BY <1>1, <1>4, <1>5, <1>6, <1>7 DEF DirectivesInv
\* A snapshot of an agent, as long as it is with the runner.
LEMMA SnapshotTyped ==
    ASSUME DirectivesTypeOK, snapshot # NoSnapshot
    PROVE  /\ snapshot \in [agent : Agents, given : SUBSET Sent, spawned : BOOLEAN]
           /\ snapshot.agent \in Agents /\ snapshot.given \in SUBSET Sent
           /\ snapshot.spawned \in BOOLEAN
  BY DEF DirectivesTypeOK

LEMMA DirectivesSpawned ==
    ASSUME DirectivesInv, crashes \in Nat, Spawns
    PROVE  DirectivesInv'
<1>0. PICK a, given : a = snapshot.agent /\ given = snapshot.given
  OBVIOUS
<1> DEFINE tally == [i \in Positions |-> told[a][i] + (IF i \in given THEN 1 ELSE 0)]
<1>1. /\ snapshot # NoSnapshot /\ ~snapshot.spawned /\ turn = "starting"
      /\ snapshot' = [snapshot EXCEPT !.spawned = TRUE]
      /\ told' = [told EXCEPT ![a] = tally]
      /\ UNCHANGED <<log, stale, cursor, acked, turn, crashes>>
  BY <1>0 DEF Spawns, Spawn
<1>2. /\ DirectivesTypeOK /\ a \in Agents /\ given \in SUBSET Sent
      /\ Sent \in SUBSET Positions /\ told \in [Agents -> [Positions -> Nat]]
  BY <1>0, <1>1, SnapshotTyped, SentPositions DEF DirectivesInv, DirectivesTypeOK
<1>3. /\ snapshot' \in [agent : Agents, given : SUBSET Sent, spawned : BOOLEAN]
      /\ snapshot'.agent = a /\ snapshot'.given = given /\ snapshot'.spawned
  BY <1>0, <1>1, <1>2, SnapshotTyped
<1>4. snapshot' # NoSnapshot
  <2>1. Positions = 1 .. MaxDirectives
    BY DEF Positions
  <2> QED
    BY <1>2, <1>3, <2>1, SnapshotAssumption
<1>5. /\ told' \in [Agents -> [Positions -> Nat]]
      /\ \A b \in Agents \ {a} : told'[b] = told[b]
      /\ told'[a] = tally
  BY <1>1, <1>2
<1>6. \A i \in Positions : told'[a][i] = IF i \in given THEN told[a][i] + 1 ELSE told[a][i]
  BY <1>2, <1>5
<1>7. \A i \in given : ~ Reached(a, i)
  BY <1>0, <1>1 DEF Reached, DirectivesInv, OldestFirst
<1> HIDE DEF tally
<1>8. DirectivesTypeOK'
  BY <1>1, <1>3, <1>5 DEF DirectivesInv, DirectivesTypeOK, Sent
<1>9. TellingsAccountedFor'
  <2> SUFFICES ASSUME NEW b \in Agents, NEW i \in Sent
               PROVE  /\ Reached(b, i)' => told'[b][i] > 0
                      /\ told'[b][i] <= crashes + (IF Reached(b, i)' THEN 1 ELSE 0)
    BY <1>1 DEF TellingsAccountedFor, Sent
  <2>1. told[b][i] \in Nat /\ i \in Positions
    BY <1>2
  <2>2. CASE b = a
    <3>1. Reached(a, i)' <=> i \in acked[a] \/ i \in given
      BY <1>1, <1>3, <1>4 DEF Reached
    <3>2. Reached(a, i) <=> i \in acked[a]
      BY <1>1 DEF Reached
    <3> QED
      BY <1>2, <1>6, <1>7, <2>1, <2>2, <3>1, <3>2 DEF DirectivesInv, TellingsAccountedFor
  <2>3. CASE b # a
    <3>1. Reached(b, i)' = Reached(b, i)
      BY <1>0, <1>1, <1>3, <2>3 DEF Reached
    <3> QED
      BY <1>5, <2>3, <3>1 DEF DirectivesInv, TellingsAccountedFor
  <2> QED
    BY <2>2, <2>3
<1>10. OldestFirst'
  <2> SUFFICES ASSUME NEW g \in given, NEW i \in Sent, i < g, Owed(a, i)'
               PROVE  i \in given
    BY <1>1, <1>3 DEF OldestFirst, Sent
  <2>1. Owed(a, i)
    BY <1>1, <1>2, <1>6 DEF Owed, AddressedTo
  <2> QED
    BY <1>0, <1>1, <2>1 DEF DirectivesInv, OldestFirst
<1>11. NothingSkipped'
  <2> SUFFICES ASSUME NEW b \in Agents, NEW i \in 1 .. cursor[b], AddressedTo(b, i), told'[b][i] = 0
               PROVE  i <= stale
    BY <1>1 DEF NothingSkipped, AddressedTo
  <2>1. i \in Positions
    <3>1. cursor[b] \in 0 .. Len(log) /\ Len(log) \in Nat
      BY <1>2, SentPositions DEF DirectivesTypeOK
    <3>2. i \in Sent
      BY <3>1 DEF Sent
    <3> QED
      BY <1>2, <3>2
  <2>2. told[b][i] = 0
    BY <1>2, <1>5, <1>6, <2>1
  <2> QED
    BY <2>2 DEF DirectivesInv, NothingSkipped
<1>12. NotToldAhead'
  BY <1>1, <1>2, <1>5, <1>6 DEF DirectivesInv, NotToldAhead, Sent, Positions
<1> QED
  BY <1>1, <1>8, <1>9, <1>10, <1>11, <1>12 DEF DirectivesInv

\* A snapshot is dropped: before the spawn by a refusal, at any time by a crash.
LEMMA DirectivesDropped ==
    ASSUME DirectivesInv, crashes \in Nat, snapshot' = NoSnapshot,
           UNCHANGED <<log, stale, cursor, acked, told>>,
           \/ crashes' = crashes + 1
           \/ crashes' = crashes /\ (snapshot = NoSnapshot \/ ~snapshot.spawned)
    PROVE  DirectivesInv'
<1>1. DirectivesTypeOK'
  BY DEF DirectivesInv, DirectivesTypeOK, Sent
<1>2. TellingsAccountedFor'
  <2> SUFFICES ASSUME NEW a \in Agents, NEW i \in Sent
               PROVE  /\ Reached(a, i)' => told[a][i] > 0
                      /\ told[a][i] <= crashes' + (IF Reached(a, i)' THEN 1 ELSE 0)
    BY DEF TellingsAccountedFor, Sent
  <2>1. told[a][i] \in Nat
    BY SentPositions DEF DirectivesInv, DirectivesTypeOK
  <2>2. Reached(a, i)' <=> i \in acked[a]
    BY DEF Reached
  <2>3. /\ Reached(a, i) => told[a][i] > 0
        /\ told[a][i] <= crashes + (IF Reached(a, i) THEN 1 ELSE 0)
    BY DEF DirectivesInv, TellingsAccountedFor
  <2>4. i \in acked[a] => Reached(a, i)
    BY DEF Reached
  <2>5. CASE crashes' = crashes + 1
    BY <2>1, <2>2, <2>3, <2>4, <2>5
  <2>6. CASE crashes' = crashes /\ (snapshot = NoSnapshot \/ ~snapshot.spawned)
    <3>1. Reached(a, i) <=> i \in acked[a]
      BY <2>6 DEF Reached
    <3> QED
      BY <2>2, <2>3, <2>6, <3>1
  <2> QED
    BY <2>5, <2>6
<1>3. OldestFirst'
  BY DEF OldestFirst
<1>4. NothingSkipped' /\ NotToldAhead'
  BY DEF DirectivesInv, NothingSkipped, NotToldAhead, AddressedTo, Sent
<1> QED
  BY <1>1, <1>2, <1>3, <1>4 DEF DirectivesInv
Less == {pair \in Nat \X Nat : pair[1] < pair[2]}

LEMMA LessIsWellFounded == IsWellFoundedOn(Less, Nat)
  BY NatLessThanWellFounded, Zenon DEF OpToRel, Less

\* A bounded set has a greatest element: the one least far from the bound.
LEMMA GreatestElement ==
    ASSUME NEW n \in Nat, NEW S \in SUBSET (0 .. n), S # {}
    PROVE  /\ Max(S) \in S
           /\ \A t \in S : t <= Max(S)
<1> DEFINE gaps == {k \in Nat : \E s \in S : k = n - s}
<1>1. gaps \subseteq Nat /\ gaps # {}
  <2>1. PICK s \in S : TRUE
    OBVIOUS
  <2>2. n - s \in gaps
    OBVIOUS
  <2> QED
    BY <2>2
<1>2. \E k \in gaps : \A l \in gaps : ~ (<<l, k>> \in Less)
  <2> HIDE DEF gaps
  <2> QED
    BY <1>1, LessIsWellFounded, WFMin, Zenon
<1>3. PICK k \in gaps : \A l \in gaps : ~ (<<l, k>> \in Less)
  BY <1>2
<1>4. PICK s \in S : k = n - s
  OBVIOUS
<1>5. ASSUME NEW t \in S
      PROVE  s >= t
  <2>1. t \in 0 .. n /\ s \in 0 .. n
    OBVIOUS
  <2>2. n - t \in gaps /\ n - t \in Nat /\ n - s \in Nat
    BY <2>1
  <2>3. ~ (n - t < n - s)
    BY <1>3, <1>4, <2>2 DEF Less
  <2> QED
    BY <2>1, <2>3
<1>6. Max(S) \in S /\ \A t \in S : Max(S) >= t
  BY <1>5 DEF Max
<1> QED
  BY <1>6
LEMMA DirectivesConsumed ==
    ASSUME DirectivesInv, crashes \in Nat, turn' # "starting" \/ turn' = turn,
           MarkConsumed, crashes' = crashes
    PROVE  DirectivesInv'
<1>0. PICK a, given : a = snapshot.agent /\ given = snapshot.given
  OBVIOUS
<1>1. /\ snapshot # NoSnapshot /\ snapshot.spawned /\ snapshot' = NoSnapshot
      /\ cursor' = [cursor EXCEPT ![a] = Max(given \cup {cursor[a]})]
      /\ acked' = [acked EXCEPT ![a] = acked[a] \cup given]
      /\ UNCHANGED <<log, stale, told>>
  BY <1>0 DEF MarkConsumed, Moved
<1>2. /\ DirectivesTypeOK /\ a \in Agents /\ given \in SUBSET Sent /\ Len(log) \in Nat
      /\ Sent = 1 .. Len(log)
      /\ cursor \in [Agents -> 0 .. Len(log)] /\ acked \in [Agents -> SUBSET Sent]
  BY <1>0, <1>1, SnapshotTyped, SentPositions DEF DirectivesInv, DirectivesTypeOK, Sent
<1> DEFINE moved == Max(given \cup {cursor[a]})
<1>3. /\ moved \in 0 .. Len(log) /\ (moved \in given \/ moved = cursor[a]) /\ cursor[a] <= moved
  <2>1. given \cup {cursor[a]} \in SUBSET (0 .. Len(log)) /\ given \cup {cursor[a]} # {}
    <3>1. cursor[a] \in 0 .. Len(log)
      BY <1>2
    <3>2. \A i \in given : i \in 0 .. Len(log)
      BY <1>2
    <3> QED
      BY <3>1, <3>2
  <2> QED
    BY <1>2, <2>1, GreatestElement
<1> HIDE DEF moved
<1>4. /\ cursor' \in [Agents -> 0 .. Len(log)] /\ cursor'[a] = moved
      /\ \A b \in Agents \ {a} : cursor'[b] = cursor[b]
  BY <1>1, <1>2, <1>3 DEF moved
<1>5. /\ acked' \in [Agents -> SUBSET Sent] /\ acked'[a] = acked[a] \cup given
      /\ \A b \in Agents \ {a} : acked'[b] = acked[b]
  BY <1>1, <1>2
<1>6. DirectivesTypeOK'
  BY <1>1, <1>2, <1>4, <1>5 DEF DirectivesTypeOK, Sent
<1>7. \A b \in Agents, i \in Sent : Reached(b, i)' <=> Reached(b, i)
  BY <1>0, <1>1, <1>5 DEF Reached
<1>8. TellingsAccountedFor'
  BY <1>1, <1>7 DEF DirectivesInv, TellingsAccountedFor, Sent
<1>9. OldestFirst'
  BY <1>1 DEF OldestFirst
<1>10. NothingSkipped'
  <2> SUFFICES ASSUME NEW b \in Agents, NEW i \in 1 .. cursor'[b], AddressedTo(b, i), told[b][i] = 0
               PROVE  i <= stale
    BY <1>1 DEF NothingSkipped, AddressedTo
  <2>1. CASE i <= cursor[b]
    <3>1. i \in 1 .. cursor[b]
      BY <1>2, <1>4, <2>1
    <3> QED
      BY <3>1 DEF DirectivesInv, NothingSkipped
  <2>2. CASE ~ (i <= cursor[b])
    <3>1. b = a /\ i \in Nat /\ i <= moved /\ i > cursor[a] /\ moved \in given
      BY <1>2, <1>3, <1>4, <2>2
    <3>2. i \in Sent
      BY <1>2, <1>3, <3>1
    <3>3. i \notin given
      BY <1>0, <1>1, <3>1, <3>2 DEF DirectivesInv, TellingsAccountedFor, Reached
    <3>4. i < moved
      BY <1>2, <3>1, <3>3
    <3>5. ~ Owed(a, i)
      BY <1>0, <1>1, <3>1, <3>2, <3>3, <3>4 DEF DirectivesInv, OldestFirst
    <3>6. stale \in Nat
      BY <1>2 DEF DirectivesTypeOK
    <3> QED
      BY <3>1, <3>5, <3>6 DEF Owed
  <2> QED
    BY <2>1, <2>2
<1>11. NotToldAhead'
  BY <1>1 DEF DirectivesInv, NotToldAhead, Sent
<1> QED
  BY <1>1, <1>6, <1>8, <1>9, <1>10, <1>11 DEF DirectivesInv

LEMMA DirectivesAge ==
    ASSUME DirectivesInv, Elapse
    PROVE  DirectivesInv'
<1>1. /\ stale' \in stale .. Len(log) /\ turn # "starting" /\ snapshot = NoSnapshot
      /\ UNCHANGED <<log, cursor, acked, snapshot, told, crashes>>
  BY DEF Elapse, DirectivesElapse, DirectivesInv
<1>2. stale \in 0 .. Len(log) /\ Len(log) \in Nat
  BY SentPositions DEF DirectivesInv, DirectivesTypeOK
<1>3. stale' \in 0 .. Len(log) /\ stale <= stale'
  BY <1>1, <1>2
<1>4. DirectivesTypeOK'
  BY <1>1, <1>3 DEF DirectivesInv, DirectivesTypeOK, Sent
<1>5. TellingsAccountedFor' /\ OldestFirst'
  BY <1>1 DEF DirectivesInv, TellingsAccountedFor, OldestFirst, Sent, Reached
<1>6. NothingSkipped'
  <2> SUFFICES ASSUME NEW a \in Agents, NEW i \in 1 .. cursor[a], AddressedTo(a, i), told[a][i] = 0
               PROVE  i <= stale'
    BY <1>1 DEF NothingSkipped, AddressedTo
  <2>1. i <= stale
    BY DEF DirectivesInv, NothingSkipped
  <2>2. i \in Nat
    BY DEF DirectivesInv, DirectivesTypeOK
  <2> QED
    BY <1>2, <1>3, <2>1, <2>2
<1>7. NotToldAhead'
  BY <1>1 DEF DirectivesInv, NotToldAhead, Sent
<1> QED
  BY <1>1, <1>4, <1>5, <1>6, <1>7 DEF DirectivesInv

-----------------------------------------------------------------------------
(* Messaging: the theorems.                                                 *)

LEMMA MessagingInitInv == MessagingInit => MessagingInv
<1> SUFFICES ASSUME MessagingInit PROVE MessagingInv
  OBVIOUS
<1>1. /\ outbox = [n \in Notices |-> Row("none", 0)] /\ batch = {} /\ inHand = NoNotice
      /\ deliveries = [n \in Notices |-> 0] /\ turn = "poll" /\ crashes = 0
  BY DEF MessagingInit, OutboxInit
<1>2. /\ log = <<>> /\ stale = 0 /\ cursor = [a \in Agents |-> 0] /\ acked = [a \in Agents |-> {}]
      /\ snapshot = NoSnapshot /\ told = [a \in Agents |-> [i \in Positions |-> 0]]
      /\ Len(log) = 0 /\ Sent = {}
  BY DEF MessagingInit, DirectivesInit, Sent
<1>3. OutboxInv
  <2>1. OutboxTypeOK
    BY <1>1, LongestWait DEF OutboxTypeOK, Row
  <2> QED
    BY <1>1, <2>1, NoticeAssumption
       DEF OutboxInv, Drained, BatchIsLeased, DeliveriesAccountedFor, Row
<1>4. DirectivesInv
  <2>1. DirectivesTypeOK
    BY <1>2, LimitsAssumption DEF DirectivesTypeOK
  <2> QED
    BY <1>2, <2>1
       DEF DirectivesInv, TellingsAccountedFor, OldestFirst, NothingSkipped, NotToldAhead
<1> QED
  BY <1>1, <1>3, <1>4, CrashesAssumption DEF MessagingInv, Turns

LEMMA MessagingNextInv == MessagingInv /\ [MessagingNext]_messagingVars => MessagingInv'
<1> SUFFICES ASSUME MessagingInv, [MessagingNext]_messagingVars PROVE MessagingInv'
  OBVIOUS
<1>1. /\ OutboxInv /\ DirectivesInv /\ turn \in Turns /\ crashes \in 0 .. MaxCrashes
      /\ crashes \in Nat /\ MaxCrashes \in Nat
  BY CrashesAssumption DEF MessagingInv
<1>2. ASSUME NEW n \in Notices, Enqueues(n) \/ Hands(n) \/ Refused(n) \/ Marks(n)
      PROVE  MessagingInv'
  <2>1. OutboxInv'
    BY <1>1, <1>2, OutboxEnqueues, OutboxHands, OutboxRefused, OutboxMarks
  <2>2. UNCHANGED <<directiveVars, turn, crashes>>
    BY <1>2 DEF Enqueues, Hands, Refused, Marks
  <2> QED
    BY <1>1, <2>1, <2>2, DirectivesStay DEF MessagingInv
<1>3. CASE BeginDrain
  <2>1. UNCHANGED <<directiveVars, crashes>> /\ turn = "poll" /\ turn' = "drain"
    BY <1>3 DEF BeginDrain
  <2> QED
    BY <1>1, <1>3, <2>1, OutboxClaims, DirectivesStay DEF MessagingInv, Turns
<1>4. CASE EndDrain \/ NothingToStart \/ WokenEarly \/ Restart
  <2>1. /\ UNCHANGED <<outboxVars, directiveVars, crashes>>
        /\ turn' \in {"start", "asleep", "poll"} /\ turn # "starting" /\ Drained
    BY <1>1, <1>4 DEF EndDrain, NothingToStart, WokenEarly, Restart, OutboxInv
  <2> QED
    BY <1>1, <2>1, OutboxStays, DirectivesStay DEF MessagingInv, Turns
<1>5. ASSUME NEW to \in Agents \cup {Everyone}, Directs(to)
      PROVE  MessagingInv'
  <2>1. UNCHANGED <<outboxVars, turn, crashes>>
    BY <1>5 DEF Directs
  <2> QED
    BY <1>1, <1>5, <2>1, OutboxStays, DirectivesSent DEF MessagingInv, OutboxInv
<1>6. ASSUME NEW a \in Agents, BeginStart(a)
      PROVE  MessagingInv'
  <2>1. UNCHANGED <<outboxVars, crashes>> /\ turn = "start" /\ turn' = "starting"
    BY <1>6 DEF BeginStart
  <2> QED
    BY <1>1, <1>6, <2>1, OutboxStays, DirectivesCompiled DEF MessagingInv, OutboxInv, Turns
<1>7. CASE Spawns
  <2>1. UNCHANGED <<outboxVars, turn, crashes>>
    BY <1>7 DEF Spawns
  <2> QED
    BY <1>1, <1>7, <2>1, OutboxStays, DirectivesSpawned DEF MessagingInv, OutboxInv
<1>8. CASE EndStart
  <2>1. /\ UNCHANGED <<outboxVars, crashes>> /\ turn = "starting" /\ turn' = "asleep"
        /\ StartRefused \/ MarkConsumed
    BY <1>8 DEF EndStart
  <2>2. DirectivesInv'
    BY <1>1, <2>1, DirectivesConsumed, DirectivesDropped DEF StartRefused
  <2> QED
    BY <1>1, <2>1, <2>2, OutboxStays DEF MessagingInv, OutboxInv, Turns
<1>9. CASE Elapse
  <2>1. turn' \in Turns /\ crashes' = crashes
    BY <1>9 DEF Elapse, Turns
  <2> QED
    BY <1>1, <1>9, <2>1, OutboxTicks, DirectivesAge DEF MessagingInv
<1>10. CASE Crash
  <2>1. turn' = "down" /\ crashes' = crashes + 1 /\ crashes < MaxCrashes
    BY <1>10 DEF Crash
  <2>2. DirectivesInv'
    BY <1>1, <1>10, <2>1, DirectivesDropped DEF Crash, DirectivesCrash
  <2> QED
    BY <1>1, <1>10, <2>1, <2>2, OutboxCrashes DEF MessagingInv, Turns
<1>11. CASE UNCHANGED messagingVars
  <2>1. UNCHANGED <<outboxVars, directiveVars, turn, crashes>>
    BY <1>11 DEF messagingVars
  <2> QED
    BY <1>1, <2>1, OutboxStays, DirectivesStay DEF MessagingInv, OutboxInv
<1> QED
  BY <1>2, <1>3, <1>4, <1>5, <1>6, <1>7, <1>8, <1>9, <1>10, <1>11 DEF MessagingNext, DaemonRound

LEMMA MessagingInvariant == MessagingSpec => []MessagingInv
  BY MessagingInitInv, MessagingNextInv, PTL DEF MessagingSpec

(* Outbox rows, cursors and snapshots keep their types: mark_directives_-    *)
(* consumed never moves a cursor past the directives there are.              *)
THEOREM MessagingTypes == MessagingSpec => []MessagingTypeOK
<1>1. MessagingInv => MessagingTypeOK
  BY DEF MessagingInv, MessagingTypeOK, OutboxInv, DirectivesInv
<1> QED
  BY MessagingInvariant, <1>1, PTL

(* A row says sent only of a notice the channel took, and the channel sees a *)
(* notice once more only for each crash: mark_sent marks what is in hand,    *)
(* and what is in hand is leased.                                            *)
THEOREM SentWasDelivered == MessagingSpec => []RowsTellWhatWasDelivered
<1>1. MessagingInv => RowsTellWhatWasDelivered
  <2> SUFFICES ASSUME MessagingInv, NEW n \in Notices
               PROVE  /\ outbox[n].status = "sent" => deliveries[n] > 0
                      /\ deliveries[n] <= 1 + crashes
    BY DEF RowsTellWhatWasDelivered
  <2>1. deliveries[n] \in Nat /\ crashes \in Nat
    BY DEF MessagingInv, OutboxInv, OutboxTypeOK
  <2> QED
    BY <2>1 DEF MessagingInv, OutboxInv, DeliveriesAccountedFor
<1> QED
  BY MessagingInvariant, <1>1, PTL

(* No agent's cursor passes a directive the agent is still owed, and none is *)
(* told it again but for a crash: compile_context_snapshot gives the oldest  *)
(* ones, and mark_directives_consumed moves no further than what was given.  *)
THEOREM NothingIsSkipped == MessagingSpec => []NoDirectiveIsSkipped
<1>1. MessagingInv => NoDirectiveIsSkipped
  <2> SUFFICES ASSUME MessagingInv, NEW a \in Agents
               PROVE  /\ \A i \in 1 .. cursor[a] : AddressedTo(a, i) /\ told[a][i] = 0 => i <= stale
                      /\ \A i \in Sent : told[a][i] <= 1 + crashes
    BY DEF NoDirectiveIsSkipped
  <2>1. ASSUME NEW i \in Sent
        PROVE  told[a][i] <= 1 + crashes
    <3>1. told[a][i] \in Nat /\ crashes \in Nat
      BY SentPositions DEF MessagingInv, DirectivesInv, DirectivesTypeOK
    <3> QED
      BY <3>1 DEF MessagingInv, DirectivesInv, TellingsAccountedFor
  <2> QED
    BY <2>1 DEF MessagingInv, DirectivesInv, NothingSkipped
<1> QED
  BY MessagingInvariant, <1>1, PTL
=============================================================================
