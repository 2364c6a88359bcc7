---------------------------- MODULE ChildProcess ----------------------------
(***************************************************************************)
(* The process an attempt runs as: what it prints, the thread that drains   *)
(* its pipe and scans it for the finished event, the output budget, and what*)
(* the adapter makes of it when the daemon polls.                           *)
(*                                                                          *)
(* A line is an event that claims an outcome, a verdict block, or anything  *)
(* else ("noise"); a verdict block is the checks it lists and their         *)
(* outcomes.  An output budget is a number of lines.                        *)
(***************************************************************************)
EXTENDS Naturals, Sequences

CONSTANTS
    Reports,         \* verdict blocks a verifier may print
    None,
    Room,            \* lines the output budget keeps
    MaxLines         \* bound: lines a process prints

ASSUME RoomAssumption == Room \in Nat
ASSUME NoReportAssumption == None \notin Reports /\ None \notin {"succeeded", "failed"}

VARIABLES
    child,           \* "none", "running", "clean" (exit code 0) or "dirty"
    pipe,            \* lines printed and not yet read
    printed,
    reader           \* what the reader thread has made of the lines it read

process == <<child, pipe, printed, reader>>

Lines == [event : {"succeeded", "failed"}, block : {None}]
         \cup [event : {None}, block : Reports \cup {None}]

Fresh == [event |-> None, block |-> None, room |-> Room, cut |-> FALSE]

ProcessInit ==
    /\ child = "none"
    /\ pipe = <<>>
    /\ printed = 0
    /\ reader = Fresh

(* A line is scanned for the event before the budget is applied to it; of    *)
(* several events, as of several blocks, the last counts.                    *)
Scan(seen, line) ==
    [event |-> IF line.event = None THEN seen.event ELSE line.event,
     block |-> IF line.block = None \/ seen.room = 0 THEN seen.block ELSE line.block,
     room |-> IF seen.room = 0 THEN 0 ELSE seen.room - 1,
     cut |-> seen.cut \/ seen.room = 0]

Spawned ==
    /\ child' = "running"
    /\ pipe' = <<>>
    /\ printed' = 0
    /\ reader' = Fresh

Prints(line) ==
    /\ child = "running"
    /\ printed < MaxLines
    /\ pipe' = Append(pipe, line)
    /\ printed' = printed + 1
    /\ UNCHANGED <<child, reader>>

Exits(code) ==
    /\ child = "running"
    /\ child' = code
    /\ UNCHANGED <<pipe, printed, reader>>

Reads ==
    /\ pipe # <<>>
    /\ reader' = Scan(reader, Head(pipe))
    /\ pipe' = Tail(pipe)
    /\ UNCHANGED <<child, printed>>

(* What a poll sees: the event the reader has found by now, or else the exit *)
(* code; the lines still in the pipe are not waited for.                     *)
Observed ==
    CASE reader.event # None -> reader.event
      [] reader.event = None /\ child = "clean" -> "succeeded"
      [] reader.event = None /\ child = "dirty" -> "failed"
      [] OTHER -> "running"

(* Collecting joins the reader thread, which reads the pipe to its end: the  *)
(* last event of all its lines, the last block of those the budget keeps.    *)
IsLast(i, S) == i \in S /\ \A j \in S : j <= i

Claims == {i \in 1..Len(pipe) : pipe[i].event # None}
Blocks == {i \in 1..Len(pipe) : pipe[i].block # None /\ i <= reader.room}

Drained ==
    [event |-> IF \E i \in Claims : IsLast(i, Claims)
               THEN pipe[CHOOSE i \in Claims : IsLast(i, Claims)].event ELSE reader.event,
     block |-> IF \E i \in Blocks : IsLast(i, Blocks)
               THEN pipe[CHOOSE i \in Blocks : IsLast(i, Blocks)].block ELSE reader.block,
     room |-> IF Len(pipe) < reader.room THEN reader.room - Len(pipe) ELSE 0,
     cut |-> reader.cut \/ Len(pipe) > reader.room]

(* The daemon lets go of a process it has collected, which an event may      *)
(* leave running; one that ran out of time is killed. "left" is what of its  *)
(* output is kept.                                                           *)
LetGo(left) ==
    /\ child' = "none"
    /\ pipe' = <<>>
    /\ printed' = 0
    /\ reader' = left
=============================================================================
