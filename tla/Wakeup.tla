------------------------------- MODULE Wakeup -------------------------------
(***************************************************************************)
(* How a sleeping machine is woken for the next decision and kept awake    *)
(* while work runs (scheduler/wakeup.py, the end of the daemon's round in  *)
(* cli/daemon_loop.py): RtcAlarm registers one task of the operating       *)
(* system per active contract, SleepGuard holds a power request while a    *)
(* lease is alive or a contract is urgent.                                 *)
(*                                                                         *)
(* A tick of the clock is half a minute.  Times are kept as the ticks left *)
(* until them; 0 is now, Past is gone by, Never is no time at all.  The    *)
(* operating system, its task scheduler and what other processes write to  *)
(* the database are the environment.                                       *)
(***************************************************************************)
EXTENDS Integers, FiniteSets

CONSTANTS
    Contracts,
    Horizon,       \* bound: no wake point is further away
    MaxFailures,   \* bound: calls of the ports that raise OSError
    MaxLapses      \* bound: crashes, and rounds without a schedule port

ASSUME ContractsAssumption == IsFiniteSet(Contracts)
ASSUME BoundsAssumption == {Horizon, MaxFailures, MaxLapses} \subseteq Nat

VARIABLES
    active,        \* contracts in state ACTIVE
    point,         \* ticks to min(next_wakeup_at, next_decision_at, deadline - margin)
    pressing,      \* contracts with a live lease or urgency >= 1
    half,          \* 1 in the second half of a minute
    armed,         \* RtcAlarm._armed: the time each task was registered for
    task,          \* the registered tasks of the operating system
    fired,         \* fired_tasks: daemon/wake calls the loop has not consumed
    wake,          \* wake_event
    handle,        \* SleepGuard._handle is not None
    request,       \* the operating system holds a power request
    awake,         \* the machine is not suspended
    turn,          \* where the daemon's round is
    failures,
    lapses,        \* how often _armed was lost
    watched,       \* contracts the last refresh had an alarm for, not written since
    guarded,       \* the last update of the guard found it needed and got it
    late           \* contracts whose task has started between a round's note_fired
                   \* and its refresh: the next round pops the new registration

clock == <<point, half>>
database == <<active, pressing>>
alarms == <<armed, task, fired>>
power == <<handle, request>>
vars == <<active, point, pressing, half, armed, task, fired, wake, handle, request,
          awake, turn, failures, lapses, watched, guarded, late>>

Past == -1
Never == Horizon + 1
Turns == {"round", "alarm", "guard", "asleep", "down"}

Init ==
    /\ active = {} /\ pressing = {}
    /\ point = [c \in Contracts |-> 0]
    /\ half = 0
    /\ armed = [c \in Contracts |-> Never]
    /\ task = [c \in Contracts |-> Never]
    /\ fired = {} /\ wake = FALSE
    /\ handle = FALSE /\ request = FALSE
    /\ awake = TRUE /\ turn = "round"
    /\ failures = 0 /\ lapses = 0
    /\ watched = {} /\ guarded = FALSE /\ late = {}

-----------------------------------------------------------------------------
(* The daemon's round. *)

Running == awake /\ turn # "down"

\* The fired signals are consumed (note_fired pops the registration), then the
\* tick leaves contracts, wake points and leases as it decides: a contract
\* waiting for the user keeps a point that is past.
Tick ==
    /\ Running /\ turn = "round" /\ turn' = "alarm"
    /\ armed' = [c \in Contracts |-> IF c \in fired THEN Never ELSE armed[c]]
    /\ fired' = {}
    /\ active' \in SUBSET Contracts
    /\ pressing' \in SUBSET active'
    /\ point' \in [Contracts -> 0 .. Horizon]
    /\ watched' = {} /\ guarded' = FALSE
    /\ UNCHANGED <<half, task, wake, power, awake, failures, lapses, late>>

\* A point that has come is the round's own business: no task for it.
Targets == {c \in active : point[c] > 0}

\* Mutant: a minute is taken off for good measure.
SlotEarlier(c) == point[c] - ((half + point[c]) % 2) - 2

\* Mutant: the task's minute is the one that begins after the point.
SlotAfter(c) == point[c] + ((half + point[c]) % 2)

\* The task scheduler knows minutes: the one the point falls into.
Slot(c) == point[c] - ((half + point[c]) % 2)

ToArm == {c \in Targets : armed[c] # Slot(c)}
ToDisarm == {c \in Contracts \ Targets : armed[c] # Never}

\* _armed after a refresh in which these calls raised: they leave it as it was.
ArmedAfter(failed) ==
    [c \in Contracts |-> CASE c \in ToArm \ failed -> Slot(c)
                           [] c \in ToDisarm \ failed -> Never
                           [] OTHER -> armed[c]]

\* RtcAlarm.refresh.
Refresh ==
    /\ Running /\ turn = "alarm" /\ turn' = "guard"
    /\ \E failed \in SUBSET (ToArm \cup ToDisarm) :
        /\ failures' = failures + Cardinality(failed)
        /\ failures' <= MaxFailures
        /\ armed' = ArmedAfter(failed)
        /\ task' = [c \in Contracts |-> CASE c \in ToArm \ failed -> Slot(c)
                                          [] c \in ToDisarm \ failed -> Never
                                          [] OTHER -> task[c]]
        /\ watched' = Targets \ failed
    /\ UNCHANGED <<database, clock, fired, wake, power, awake, lapses, guarded, late>>

\* RtcAlarm.refresh while the port is not available: what was armed is forgotten.
RefreshUnavailable ==
    /\ Running /\ turn = "alarm" /\ turn' = "guard"
    /\ lapses < MaxLapses /\ lapses' = lapses + 1
    /\ armed' = [c \in Contracts |-> Never]
    /\ UNCHANGED <<database, clock, task, fired, wake, power, awake, failures, watched, guarded, late>>

\* guard_needed.
GuardNeeded == pressing # {}

\* Mutant: the handle is set before the call that may raise.
HandleAfter(granted) == TRUE

\* SleepGuard._handle after acquire returned, or raised.
Handle(granted) == granted

\* SleepGuard.update, acquiring or holding on.
Guard ==
    /\ Running /\ turn = "guard" /\ turn' = "asleep"
    /\ GuardNeeded
    /\ \/ handle /\ guarded' = TRUE /\ UNCHANGED <<power, failures>>
       \/ /\ ~handle
          /\ \E granted \in BOOLEAN :
                /\ handle' = Handle(granted)
                /\ request' = (request \/ granted)
                /\ guarded' = granted
                /\ failures' = failures + (IF granted THEN 0 ELSE 1)
          /\ failures' <= MaxFailures
    /\ UNCHANGED <<database, clock, alarms, wake, awake, lapses, watched, late>>

\* SleepGuard.update, releasing: the handle is dropped even if release raises.
Unguard ==
    /\ Running /\ turn = "guard" /\ turn' = "asleep"
    /\ ~GuardNeeded
    /\ guarded' = FALSE
    /\ \/ ~handle /\ UNCHANGED <<power, failures>>
       \/ handle /\ handle' = FALSE /\ request' = FALSE /\ UNCHANGED failures
       \/ /\ handle /\ handle' = FALSE /\ UNCHANGED request
          /\ failures < MaxFailures /\ failures' = failures + 1
    /\ UNCHANGED <<database, clock, alarms, wake, awake, lapses, watched, late>>

\* The wait ends with its timeout or with the event, which is then cleared.
WaitEnds ==
    /\ Running /\ turn = "asleep" /\ turn' = "round"
    /\ wake' = FALSE
    /\ UNCHANGED <<database, clock, alarms, power, awake, failures, lapses, watched, guarded, late>>

\* The process is gone, its power request with it; its tasks stay.
Crash ==
    /\ turn # "down" /\ turn' = "down"
    /\ lapses < MaxLapses /\ lapses' = lapses + 1
    /\ armed' = [c \in Contracts |-> Never]
    /\ fired' = {} /\ wake' = FALSE /\ handle' = FALSE /\ request' = FALSE
    /\ watched' = {} /\ guarded' = FALSE
    /\ UNCHANGED <<database, clock, task, awake, failures, late>>

Restart ==
    /\ awake /\ turn = "down" /\ turn' = "round"
    /\ UNCHANGED <<database, clock, alarms, wake, power, awake, failures, lapses, watched, guarded, late>>

-----------------------------------------------------------------------------
(* The environment. *)

\* A contract is written by another process or the RPC thread, which wakes the
\* loop for the methods of _WAKE_ON_RPC.
Write(c) ==
    /\ awake
    /\ active' \in {active \cup {c}, active \ {c}}
    /\ pressing' = pressing \cap active'
    /\ \E p \in 0 .. Horizon : point' = [point EXCEPT ![c] = p]
    /\ watched' = watched \ {c}
    /\ guarded' = (guarded /\ pressing' = pressing)
    /\ wake' \in (IF turn = "down" THEN {wake} ELSE {wake, TRUE})
    /\ UNCHANGED <<half, alarms, power, awake, turn, failures, lapses, late>>

\* The task scheduler starts a task whose time has come, waking the machine;
\* the task calls daemon/wake, which a stopped daemon does not hear.
TaskFires(c) ==
    /\ task[c] = 0
    /\ task' = [task EXCEPT ![c] = Never]
    /\ awake' = TRUE
    /\ IF turn = "down" THEN UNCHANGED <<fired, wake>>
                        ELSE fired' = fired \cup {c} /\ wake' = TRUE
    /\ late' = IF turn = "alarm" THEN late \cup {c} ELSE late
    /\ UNCHANGED <<database, clock, armed, power, turn, failures, lapses, watched, guarded>>

\* An idle machine is suspended while the daemon waits or is down; a round is
\* taken to be over before.
Suspend ==
    /\ awake /\ ~request /\ turn \in {"asleep", "down"}
    /\ awake' = FALSE
    /\ UNCHANGED <<database, clock, alarms, wake, power, turn, failures, lapses, watched, guarded, late>>

UserWakes ==
    /\ ~awake /\ awake' = TRUE
    /\ UNCHANGED <<database, clock, alarms, wake, power, turn, failures, lapses, watched, guarded, late>>

\* Half a minute passes, in a round not at all; a task is started on time.
Elapse ==
    /\ turn \in {"asleep", "down"}
    /\ \A c \in Contracts : task[c] # 0
    /\ half' = 1 - half
    /\ point' = [c \in Contracts |-> IF point[c] = 0 THEN 0 ELSE point[c] - 1]
    /\ armed' = [c \in Contracts |-> CASE armed[c] = Never -> Never
                                       [] armed[c] = Past -> Past
                                       [] OTHER -> armed[c] - 1]
    /\ task' = [c \in Contracts |-> IF task[c] = Never THEN Never ELSE task[c] - 1]
    /\ UNCHANGED <<database, fired, wake, power, awake, turn, failures, lapses, watched, guarded, late>>

Daemon == Tick \/ Refresh \/ RefreshUnavailable \/ Guard \/ Unguard \/ WaitEnds

Next ==
    \/ Daemon \/ Crash \/ Restart
    \/ \E c \in Contracts : Write(c) \/ TaskFires(c)
    \/ Suspend \/ UserWakes \/ Elapse

Spec == Init /\ [][Next]_vars

-----------------------------------------------------------------------------
TypeOK ==
    /\ active \subseteq Contracts /\ pressing \subseteq active
    /\ point \in [Contracts -> 0 .. Horizon] /\ half \in 0 .. 1
    /\ armed \in [Contracts -> Past .. Never] /\ task \in [Contracts -> 0 .. Never]
    /\ fired \subseteq Contracts /\ late \subseteq Contracts /\ watched \subseteq active
    /\ {wake, handle, request, awake, guarded} \subseteq BOOLEAN
    /\ turn \in Turns
    /\ failures \in 0 .. MaxFailures /\ lapses \in 0 .. MaxLapses

\* While the daemon waits, a contract whose point was ahead at the last refresh
\* has a task that starts no later than the point, or one that has started and
\* woken the machine (RtcAlarm.refresh, wakeup.py:425): whatever was registered
\* for an earlier point, fired, failed or was lost in a crash before. And a task
\* the daemon does not know of is left in the operating system only by a crash,
\* a round without the port or a signal that came too late for its round: a
\* failed removal is remembered and tried again (wakeup.py:459-463).
SleepsWithAnAlarm ==
    /\ turn = "asleep" => \A c \in watched : task[c] <= point[c] \/ c \in fired
    /\ lapses = 0 => \A c \in Contracts \ late : task[c] # Never => armed[c] # Never

\* The machine is not suspended while the daemon waits with work it found
\* pressing and a guard it was given (SleepGuard.update, wakeup.py:299).
PressingWorkStaysAwake == turn = "asleep" /\ guarded => awake
=============================================================================
