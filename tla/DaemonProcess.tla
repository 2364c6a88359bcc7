---------------------------- MODULE DaemonProcess ----------------------------
(***************************************************************************)
(* Starting and stopping the daemon (cli/daemon_proc.py): command line     *)
(* calls of `start' and `halt' that share the start lock, the pid file and *)
(* the stop marker of a data directory with the daemon.  Each step below   *)
(* is one access to a file or a process; a call may die at any of them.    *)
(* Process identities are not reused, so the recorded start time always    *)
(* agrees, and the token, which only RPC reads, is left out.               *)
(***************************************************************************)
EXTENDS Naturals, FiniteSets

CONSTANTS
    Calls,      \* invocations of the command line, each of one command
    Daemons,    \* daemon processes that can be spawned
    NoDaemon

ASSUME DaemonAssumption == NoDaemon \notin Daemons

VARIABLES
    pc,         \* where each call is
    child,      \* the process a start spawned, or a halt found in the pid file
    lock,       \* daemon.start.lock exists
    pid,        \* what daemon.pid names
    stop,       \* daemon.stop exists
    alive,      \* the daemon processes running
    lapsed      \* ghost: a running daemon was left without a record, or a start
                \* without its lock

files == <<lock, pid, stop>>
processVars == <<pc, child, files, alive, lapsed>>

\* Where the start holds the lock.
Locked == {"checking", "spawning", "watching", "recording", "unlocking"}

Steps == {"idle", "breaking", "relocking", "stopping", "waiting", "clearing", "done"} \cup Locked

\* Where it still matters that no other start does.
Exclusive(x) == pc[x] \in Locked \ {"unlocking"}

ProcessInit ==
    /\ pc = [x \in Calls |-> "idle"]
    /\ child = [x \in Calls |-> NoDaemon]
    /\ lock = FALSE /\ pid = NoDaemon /\ stop = FALSE
    /\ alive = {}
    /\ lapsed = FALSE

\* get_daemon_status: the pid file names a live process.
StatusRunning == pid \in alive

Goes(x, from, to) == pc[x] = from /\ pc' = [pc EXCEPT ![x] = to]

-----------------------------------------------------------------------------
(* spawn_daemon. *)

\* Mutant: the lock file is opened whether it exists or not.
LockAnyway(x) ==
    /\ Goes(x, "idle", "checking")
    /\ lock' = TRUE
    /\ UNCHANGED <<child, pid, stop, alive, lapsed>>

\* os.open(O_CREAT | O_EXCL).
Lock(x) ==
    /\ ~lock /\ Goes(x, "idle", "checking")
    /\ lock' = TRUE
    /\ UNCHANGED <<child, pid, stop, alive, lapsed>>

\* FileExistsError: a running daemon is reported, any other lock is stale.
LockTaken(x) ==
    /\ lock
    /\ IF StatusRunning THEN Goes(x, "idle", "done") ELSE Goes(x, "idle", "breaking")
    /\ UNCHANGED <<child, files, alive, lapsed>>

BreakLock(x) ==
    /\ Goes(x, "breaking", "relocking")
    /\ lock' = FALSE
    /\ lapsed' = (lapsed \/ (lock /\ \E y \in Calls : Exclusive(y)))
    /\ UNCHANGED <<child, pid, stop, alive>>

\* The second open may fail in its turn, and the call with it.
Relock(x) ==
    /\ IF lock THEN Goes(x, "relocking", "done") /\ UNCHANGED lock
               ELSE Goes(x, "relocking", "checking") /\ lock' = TRUE
    /\ UNCHANGED <<child, pid, stop, alive, lapsed>>

\* Under the lock: a running daemon ends the call, otherwise its pid file goes.
Check(x) ==
    /\ IF StatusRunning
         THEN Goes(x, "checking", "unlocking") /\ UNCHANGED pid
         ELSE Goes(x, "checking", "spawning") /\ pid' = NoDaemon
    /\ UNCHANGED <<child, lock, stop, alive, lapsed>>

Spawn(x) ==
    /\ Goes(x, "spawning", "watching")
    /\ \E d \in Daemons :
        /\ d \notin alive /\ \A y \in Calls : child[y] # d
        /\ child' = [child EXCEPT ![x] = d]
        /\ alive' = alive \cup {d}
    /\ UNCHANGED <<files, lapsed>>

\* Popen raises.
SpawnRefused(x) ==
    /\ Goes(x, "spawning", "unlocking")
    /\ UNCHANGED <<child, files, alive, lapsed>>

\* Two seconds of watching whether the process exits at once.
ChildSeen(x) ==
    /\ Goes(x, "watching", IF child[x] \in alive THEN "recording" ELSE "unlocking")
    /\ UNCHANGED <<child, files, alive, lapsed>>

Record(x) ==
    /\ Goes(x, "recording", "unlocking")
    /\ pid' = child[x]
    /\ UNCHANGED <<child, lock, stop, alive, lapsed>>

\* The finally block unlinks whatever lock file is there.
Unlock(x) ==
    /\ Goes(x, "unlocking", "done")
    /\ lock' = FALSE
    /\ lapsed' = (lapsed \/ \E y \in Calls : Exclusive(y))
    /\ UNCHANGED <<child, pid, stop, alive>>

-----------------------------------------------------------------------------
(* halt_daemon. *)

\* Without a pid file there is nothing to stop; a stale one is only cleared.
HaltCalled(x) ==
    /\ \/ pid = NoDaemon /\ Goes(x, "idle", "done") /\ UNCHANGED child
       \/ /\ pid # NoDaemon
          /\ Goes(x, "idle", IF StatusRunning THEN "stopping" ELSE "clearing")
          /\ child' = [child EXCEPT ![x] = pid]
    /\ UNCHANGED <<files, alive, lapsed>>

AskToStop(x) ==
    /\ Goes(x, "stopping", "waiting")
    /\ stop' = TRUE
    /\ UNCHANGED <<child, lock, pid, alive, lapsed>>

\* The process is gone, or the grace period is and SIGTERM is sent: nobody
\* waits for the end of the process after that.
GraceOver(x) ==
    /\ Goes(x, "waiting", "clearing")
    /\ UNCHANGED <<child, files, alive, lapsed>>

\* SIGTERM fails: the files stay for another try.
TermFails(x) ==
    /\ child[x] \in alive
    /\ Goes(x, "waiting", "done")
    /\ UNCHANGED <<child, files, alive, lapsed>>

\* The pid file goes, whatever it names by now.
Clear(x) ==
    /\ Goes(x, "clearing", "done")
    /\ pid' = NoDaemon
    /\ stop' \in {stop, FALSE}
    /\ lapsed' = (lapsed \/ StatusRunning)
    /\ UNCHANGED <<child, lock, alive>>

-----------------------------------------------------------------------------
\* A command line call is killed, or raises: what it did stays.  The finally
\* block of a start that raises is Unlock.
Die(x) ==
    /\ pc[x] \notin {"idle", "done"}
    /\ pc' = [pc EXCEPT ![x] = "done"]
    /\ lapsed' = (lapsed \/ (pc[x] \in {"watching", "recording"} /\ child[x] \in alive))
    /\ UNCHANGED <<child, files, alive>>

\* run_daemon_loop finds the stop marker at the top of a round, ends and
\* removes the marker.
Obey(d) ==
    /\ d \in alive /\ stop
    /\ alive' = alive \ {d} /\ stop' = FALSE
    /\ UNCHANGED <<pc, child, lock, pid, lapsed>>

\* By itself, or by SIGTERM.
Ends(d) ==
    /\ d \in alive /\ alive' = alive \ {d}
    /\ UNCHANGED <<pc, child, files, lapsed>>

ProcessNext ==
    \/ \E x \in Calls :
        \/ Lock(x) \/ LockTaken(x) \/ BreakLock(x) \/ Relock(x) \/ Check(x) \/ Spawn(x)
        \/ SpawnRefused(x) \/ ChildSeen(x) \/ Record(x) \/ Unlock(x)
        \/ HaltCalled(x) \/ AskToStop(x) \/ GraceOver(x) \/ TermFails(x) \/ Clear(x) \/ Die(x)
    \/ \E d \in Daemons : Obey(d) \/ Ends(d)

ProcessSpec == ProcessInit /\ [][ProcessNext]_processVars

-----------------------------------------------------------------------------
(* The daemon is the one arbiter of the contracts, and a start that finds   *)
(* one is refused (spawn_daemon, test_daemon_lifecycle.py:233).  Two run    *)
(* only after one of the lapses the files allow: a lock taken for stale     *)
(* within the two seconds its owner watches its child (line 180), a start   *)
(* that dies before it records the pid (line 248), a halt that clears the   *)
(* record of a daemon still ending or newer than the one it stopped (line   *)
(* 309).  Stale files, refused and failed spawns and the stop marker alone  *)
(* never lead there.                                                        *)
TwoDaemonsNeedALapse == ~lapsed => Cardinality(alive) <= 1
=============================================================================
