---------------------------- MODULE DaemonProofs -----------------------------
(***************************************************************************)
(* The daemon as a process of its machine: DaemonProcess for any number of *)
(* command line calls and daemons, Wakeup for any number of contracts and  *)
(* any bounds.                                                             *)
(***************************************************************************)
EXTENDS DaemonProcess, Wakeup, FiniteSetTheorems, TLAPS

DaemonTyped ==
    /\ pc \in [Calls -> Steps]
    /\ child \in [Calls -> Daemons \cup {NoDaemon}]
    /\ pid \in Daemons \cup {NoDaemon}
    /\ lock \in BOOLEAN
    /\ alive \subseteq Daemons

\* Who is between lock and record owns the lock, and is alone.
LockIsOwned ==
    \A x \in Calls : Exclusive(x) =>
        /\ lock
        /\ \A y \in Calls : Exclusive(y) => y = x

\* Who watches or records a child has spawned it.
Watches(x) == pc[x] \in {"watching", "recording"}

\* A running daemon is on record, or watched by the start that spawned it.
DaemonIsKnown ==
    \A d \in alive : d = pid \/ \E x \in Calls : Watches(x) /\ child[x] = d

\* From the check to the record nobody but that child runs.
StartIsAlone ==
    \A x \in Calls :
        /\ pc[x] = "spawning" => alive = {}
        /\ Watches(x) => alive \subseteq {child[x]}

Kept == LockIsOwned /\ DaemonIsKnown /\ StartIsAlone
DaemonInv == DaemonTyped /\ (~lapsed => Kept)

-----------------------------------------------------------------------------
LEMMA DaemonInit == ProcessInit => DaemonInv
<1> SUFFICES ASSUME ProcessInit PROVE DaemonInv
  OBVIOUS
<1>1. DaemonTyped
  BY DEF ProcessInit, DaemonTyped, Steps, Locked
<1>2. Kept
  BY DEF ProcessInit, Kept, LockIsOwned, DaemonIsKnown, StartIsAlone, Exclusive, Locked, Watches
<1> QED
  BY <1>1, <1>2 DEF DaemonInv

LEMMA CallTyped ==
    ASSUME DaemonTyped, NEW x \in Calls,
           \/ Lock(x) \/ LockTaken(x) \/ BreakLock(x) \/ Relock(x) \/ Check(x) \/ Spawn(x)
           \/ SpawnRefused(x) \/ ChildSeen(x) \/ Record(x) \/ Unlock(x)
           \/ HaltCalled(x) \/ AskToStop(x) \/ GraceOver(x) \/ TermFails(x) \/ Clear(x) \/ Die(x)
    PROVE  DaemonTyped'
<1>1. CASE Lock(x)
  BY <1>1 DEF Lock, DaemonTyped, Goes, files, Steps, Locked
<1>2. CASE LockTaken(x)
  BY <1>2 DEF LockTaken, DaemonTyped, Goes, files, Steps, Locked
<1>3. CASE BreakLock(x)
  BY <1>3 DEF BreakLock, DaemonTyped, Goes, files, Steps, Locked
<1>4. CASE Relock(x)
  BY <1>4 DEF Relock, DaemonTyped, Goes, files, Steps, Locked
<1>5. CASE Check(x)
  BY <1>5 DEF Check, DaemonTyped, Goes, files, Steps, Locked
<1>6. CASE Spawn(x)
  BY <1>6 DEF Spawn, DaemonTyped, Goes, files, Steps, Locked
<1>7. CASE SpawnRefused(x)
  BY <1>7 DEF SpawnRefused, DaemonTyped, Goes, files, Steps, Locked
<1>8. CASE ChildSeen(x)
  BY <1>8 DEF ChildSeen, DaemonTyped, Goes, files, Steps, Locked
<1>9. CASE Record(x)
  BY <1>9 DEF Record, DaemonTyped, Goes, files, Steps, Locked
<1>10. CASE Unlock(x)
  BY <1>10 DEF Unlock, DaemonTyped, Goes, files, Steps, Locked
<1>11. CASE HaltCalled(x)
  BY <1>11 DEF HaltCalled, DaemonTyped, Goes, files, Steps, Locked
<1>12. CASE AskToStop(x)
  BY <1>12 DEF AskToStop, DaemonTyped, Goes, files, Steps, Locked
<1>13. CASE GraceOver(x)
  BY <1>13 DEF GraceOver, DaemonTyped, Goes, files, Steps, Locked
<1>14. CASE TermFails(x)
  BY <1>14 DEF TermFails, DaemonTyped, Goes, files, Steps, Locked
<1>15. CASE Clear(x)
  BY <1>15 DEF Clear, DaemonTyped, Goes, files, Steps, Locked
<1>16. CASE Die(x)
  BY <1>16 DEF Die, DaemonTyped, Goes, files, Steps, Locked
<1> QED
  BY <1>1, <1>2, <1>3, <1>4, <1>5, <1>6, <1>7, <1>8, <1>9, <1>10, <1>11, <1>12, <1>13, <1>14, <1>15, <1>16

LEMMA CallKept ==
    ASSUME DaemonTyped, DaemonTyped', Kept, NEW x \in Calls, ~lapsed',
           \/ Lock(x) \/ LockTaken(x) \/ BreakLock(x) \/ Relock(x) \/ Check(x) \/ Spawn(x)
           \/ SpawnRefused(x) \/ ChildSeen(x) \/ Record(x) \/ Unlock(x)
           \/ HaltCalled(x) \/ AskToStop(x) \/ GraceOver(x) \/ TermFails(x) \/ Clear(x) \/ Die(x)
    PROVE  Kept'
<1> USE DEF Kept, LockIsOwned, DaemonIsKnown, StartIsAlone, DaemonTyped, Goes, files, Locked,
           Exclusive, Watches, StatusRunning, Steps
<1>1. CASE Lock(x)
  BY <1>1, DaemonAssumption DEF Lock
<1>2. CASE LockTaken(x)
  BY <1>2, DaemonAssumption DEF LockTaken
<1>3. CASE BreakLock(x)
  BY <1>3, DaemonAssumption DEF BreakLock
<1>4. CASE Relock(x)
  BY <1>4, DaemonAssumption DEF Relock
<1>5. CASE Check(x)
  BY <1>5, DaemonAssumption DEF Check
<1>6. CASE Spawn(x)
  BY <1>6, DaemonAssumption DEF Spawn
<1>7. CASE SpawnRefused(x)
  BY <1>7, DaemonAssumption DEF SpawnRefused
<1>8. CASE ChildSeen(x)
  BY <1>8, DaemonAssumption DEF ChildSeen
<1>9. CASE Record(x)
  BY <1>9, DaemonAssumption DEF Record
<1>10. CASE Unlock(x)
  BY <1>10, DaemonAssumption DEF Unlock
<1>11. CASE HaltCalled(x)
  BY <1>11, DaemonAssumption DEF HaltCalled
<1>12. CASE AskToStop(x)
  BY <1>12, DaemonAssumption DEF AskToStop
<1>13. CASE GraceOver(x)
  BY <1>13, DaemonAssumption DEF GraceOver
<1>14. CASE TermFails(x)
  BY <1>14, DaemonAssumption DEF TermFails
<1>15. CASE Clear(x)
  <2>1. pid \notin alive
    BY <1>15 DEF Clear
  <2>2. DaemonIsKnown'
    BY <1>15, <2>1 DEF Clear
  <2>3. LockIsOwned' /\ StartIsAlone'
    BY <1>15 DEF Clear
  <2> QED
    BY <2>2, <2>3
<1>16. CASE Die(x)
  BY <1>16, DaemonAssumption DEF Die
<1> QED
  BY <1>1, <1>2, <1>3, <1>4, <1>5, <1>6, <1>7, <1>8, <1>9, <1>10, <1>11, <1>12, <1>13, <1>14, <1>15, <1>16

LEMMA DaemonKept ==
    ASSUME DaemonInv, [ProcessNext]_processVars
    PROVE  DaemonInv'
<1>1. CASE UNCHANGED processVars
  BY <1>1 DEF processVars, files, DaemonInv, DaemonTyped, Kept, LockIsOwned, DaemonIsKnown, StartIsAlone,
              Exclusive, Watches
<1>2. ASSUME NEW d \in Daemons, Obey(d) \/ Ends(d)
      PROVE  DaemonInv'
  <2>1. DaemonTyped'
    BY <1>2 DEF Obey, Ends, files, DaemonInv, DaemonTyped
  <2>2. UNCHANGED <<pc, child, lock, pid, lapsed>> /\ alive' \subseteq alive
    BY <1>2 DEF Obey, Ends, files
  <2>3. Kept => Kept'
    BY <2>2 DEF Kept, LockIsOwned, DaemonIsKnown, StartIsAlone, Exclusive, Watches
  <2> QED
    BY <2>1, <2>2, <2>3 DEF DaemonInv
<1>3. ASSUME NEW x \in Calls,
             \/ Lock(x) \/ LockTaken(x) \/ BreakLock(x) \/ Relock(x) \/ Check(x) \/ Spawn(x)
             \/ SpawnRefused(x) \/ ChildSeen(x) \/ Record(x) \/ Unlock(x)
             \/ HaltCalled(x) \/ AskToStop(x) \/ GraceOver(x) \/ TermFails(x) \/ Clear(x) \/ Die(x)
      PROVE  DaemonInv'
  <2>1. DaemonTyped'
    BY <1>3, CallTyped DEF DaemonInv
  <2>2. ~lapsed' => ~lapsed
    BY <1>3 DEF Lock, LockTaken, BreakLock, Relock, Check, Spawn, SpawnRefused, ChildSeen, Record,
                Unlock, HaltCalled, AskToStop, GraceOver, TermFails, Clear, Die, files
  <2>3. ~lapsed' => Kept'
    BY <1>3, <2>1, <2>2, CallKept DEF DaemonInv
  <2> QED
    BY <2>1, <2>3 DEF DaemonInv
<1> QED
  BY <1>1, <1>2, <1>3 DEF ProcessNext

\* All that run without a lapse are the one daemon on record or being watched.
LEMMA KnownIsOne ==
    ASSUME DaemonInv
    PROVE  TwoDaemonsNeedALapse
<1> SUFFICES ASSUME ~lapsed PROVE Cardinality(alive) <= 1
  BY DEF TwoDaemonsNeedALapse
<1>1. \E d : alive \subseteq {d}
  <2>1. CASE \E x \in Calls : Watches(x)
    BY <2>1 DEF DaemonInv, Kept, StartIsAlone
  <2>2. CASE ~\E x \in Calls : Watches(x)
    BY <2>2 DEF DaemonInv, Kept, DaemonIsKnown
  <2> QED
    BY <2>1, <2>2
<1>2. PICK d : alive \subseteq {d}
  BY <1>1
<1>3. IsFiniteSet({d}) /\ Cardinality({d}) = 1
  BY FS_Singleton
<1> QED
  BY <1>2, <1>3, FS_Subset

\* Two daemons run only after a lapse (spawn_daemon and halt_daemon of any
\* number of command line calls, dying anywhere).
THEOREM OneDaemon == ProcessSpec => []TwoDaemonsNeedALapse
<1>1. DaemonInv /\ [ProcessNext]_processVars => DaemonInv'
  BY DaemonKept
<1> QED
  BY DaemonInit, <1>1, KnownIsOne, PTL DEF ProcessSpec
-----------------------------------------------------------------------------
(* Wakeup: the inductive invariant.                                         *)

WakeupTyped ==
    /\ TypeOK
    /\ turn \in {"alarm", "down"} => watched = {}
    /\ turn = "down" => \A c \in Contracts : armed[c] = Never

\* A registration the daemon remembers is in the operating system, or the task
\* has started and the next round will hear of it.
ArmedIsRegistered ==
    \A c \in Contracts : armed[c] # Never => armed[c] = task[c] \/ c \in fired

\* Before the wait and in it, the refresh has seen to every contract it watched.
WatchedIsArmed ==
    turn \in {"guard", "asleep"} => \A c \in watched : task[c] <= point[c] \/ c \in fired

\* A contract's task is not registered anew before the daemon has heard that the
\* last one started, and the daemon knows what is registered.
NothingForgotten ==
    /\ turn = "alarm" => fired \subseteq late
    /\ lapses = 0 => \A c \in Contracts \ late :
          /\ task[c] # Never => armed[c] # Never
          /\ c \in fired => task[c] = Never

\* The handle stands for a power request, and the guard's word for the handle.
GuardHolds ==
    /\ handle => request
    /\ guarded => request /\ awake

WakeupInv ==
    /\ WakeupTyped
    /\ ArmedIsRegistered
    /\ WatchedIsArmed
    /\ NothingForgotten
    /\ GuardHolds
-----------------------------------------------------------------------------
(* Wakeup: the steps.                                                       *)

LEMMA BoundsAreNumbers ==
    /\ Horizon \in Nat /\ MaxFailures \in Nat /\ MaxLapses \in Nat
    /\ Never \in Nat /\ Never > Horizon /\ Never # Past /\ Past < 0 /\ Past \in Int
  BY BoundsAssumption DEF Never, Past

\* A task's minute lies between now and the point.
LEMMA SlotIsBefore ==
    ASSUME TypeOK, NEW c \in Contracts, point[c] > 0
    PROVE  Slot(c) \in 0 .. Horizon /\ Slot(c) <= point[c]
<1>1. point[c] \in 0 .. Horizon /\ half \in 0 .. 1
  BY DEF TypeOK
<1>2. (half + point[c]) % 2 \in 0 .. 1
  BY <1>1
<1> QED
  BY <1>1, <1>2, BoundsAreNumbers DEF Slot

LEMMA WakeupTick ==
    ASSUME WakeupInv, Tick
    PROVE  WakeupInv'
<1>1. /\ turn = "round" /\ turn' = "alarm" /\ fired' = {} /\ watched' = {} /\ guarded' = FALSE
      /\ armed' = [c \in Contracts |-> IF c \in fired THEN Never ELSE armed[c]]
      /\ active' \in SUBSET Contracts /\ pressing' \in SUBSET active'
      /\ point' \in [Contracts -> 0 .. Horizon]
      /\ UNCHANGED <<half, task, wake, handle, request, awake, failures, lapses, late>>
  BY DEF Tick, power
<1>2. WakeupTyped'
  <2>1. armed' \in [Contracts -> Past .. Never]
    <3>1. armed \in [Contracts -> Past .. Never] /\ Never \in Past .. Never
      BY BoundsAreNumbers DEF WakeupInv, WakeupTyped, TypeOK
    <3> QED
      BY <1>1, <3>1
  <2>2. /\ fired' \subseteq Contracts /\ watched' \subseteq active' /\ turn' \in Turns
        /\ {wake, handle, request, awake, guarded}' \subseteq BOOLEAN
    BY <1>1 DEF WakeupInv, WakeupTyped, TypeOK, Turns
  <2> QED
    BY <1>1, <2>1, <2>2 DEF WakeupInv, WakeupTyped, TypeOK
<1>3. ArmedIsRegistered' /\ WatchedIsArmed'
  BY <1>1 DEF WakeupInv, ArmedIsRegistered, WatchedIsArmed
<1>4. NothingForgotten'
  BY <1>1 DEF WakeupInv, NothingForgotten
<1>5. GuardHolds'
  BY <1>1 DEF WakeupInv, GuardHolds
<1> QED
  BY <1>2, <1>3, <1>4, <1>5 DEF WakeupInv

LEMMA WakeupRefresh ==
    ASSUME WakeupInv, Refresh
    PROVE  WakeupInv'
<1>1. PICK failed \in SUBSET (ToArm \cup ToDisarm) :
        /\ failures' = failures + Cardinality(failed)
        /\ failures' <= MaxFailures
        /\ armed' = ArmedAfter(failed)
        /\ task' = [c \in Contracts |-> CASE c \in ToArm \ failed -> Slot(c)
                                          [] c \in ToDisarm \ failed -> Never
                                          [] OTHER -> task[c]]
        /\ watched' = Targets \ failed
  BY DEF Refresh
<1>2. /\ turn = "alarm" /\ turn' = "guard"
      /\ UNCHANGED <<active, pressing, point, half, fired, wake, handle, request, awake, lapses,
                     guarded, late>>
  BY DEF Refresh, database, clock, power
<1>3. /\ Targets \subseteq active /\ active \subseteq Contracts /\ ToArm \subseteq Targets
      /\ ToDisarm \subseteq Contracts \ Targets
      /\ \A c \in Targets : point[c] > 0
  BY DEF Targets, ToArm, ToDisarm, WakeupInv, WakeupTyped, TypeOK
<1>4. \A c \in Targets : Slot(c) \in 0 .. Horizon /\ Slot(c) <= point[c]
  BY <1>3, SlotIsBefore DEF WakeupInv, WakeupTyped
<1>5. \A c \in Contracts :
        /\ c \in ToArm \ failed => armed'[c] = Slot(c) /\ task'[c] = Slot(c)
        /\ c \in ToDisarm \ failed => armed'[c] = Never /\ task'[c] = Never
        /\ c \notin ToArm \ failed /\ c \notin ToDisarm \ failed =>
              armed'[c] = armed[c] /\ task'[c] = task[c]
  BY <1>1, <1>3 DEF ArmedAfter
<1>6. failures' \in 0 .. MaxFailures
  <2>1. failed \in SUBSET Contracts
    BY <1>3
  <2>2. Cardinality(failed) \in Nat
    BY <2>1, ContractsAssumption, FS_Subset, FS_CardinalityType
  <2> QED
    BY <1>1, <2>2, BoundsAreNumbers DEF WakeupInv, WakeupTyped, TypeOK
<1>7. armed' \in [Contracts -> Past .. Never] /\ task' \in [Contracts -> 0 .. Never]
  <2>1. armed \in [Contracts -> Past .. Never] /\ task \in [Contracts -> 0 .. Never]
    BY DEF WakeupInv, WakeupTyped, TypeOK
  <2>2. \A c \in Targets : Slot(c) \in Past .. Never /\ Slot(c) \in 0 .. Never
    BY <1>4, BoundsAreNumbers
  <2>3. Never \in Past .. Never /\ Never \in 0 .. Never
    BY BoundsAreNumbers
  <2> QED
    BY <1>1, <1>3, <2>1, <2>2, <2>3 DEF ArmedAfter
<1>8. WakeupTyped'
  BY <1>1, <1>2, <1>3, <1>6, <1>7 DEF WakeupInv, WakeupTyped, TypeOK, Turns
<1>9. ArmedIsRegistered'
  BY <1>2, <1>5 DEF WakeupInv, ArmedIsRegistered
<1>10. WatchedIsArmed'
  <2> SUFFICES ASSUME NEW c \in Targets \ failed
               PROVE  task'[c] <= point[c] \/ c \in fired
    BY <1>1, <1>2 DEF WatchedIsArmed
  <2>1. c \in Contracts /\ Slot(c) <= point[c] /\ Slot(c) # Never
    BY <1>3, <1>4, BoundsAreNumbers
  <2>2. CASE c \in ToArm
    BY <1>5, <2>1, <2>2
  <2>3. CASE c \notin ToArm
    <3>1. armed[c] = Slot(c)
      BY <2>3 DEF ToArm
    <3>2. task'[c] = task[c]
      BY <1>3, <1>5, <2>1, <2>3
    <3>3. armed[c] = task[c] \/ c \in fired
      BY <2>1, <3>1 DEF WakeupInv, ArmedIsRegistered
    <3> QED
      BY <2>1, <3>1, <3>2, <3>3
  <2> QED
    BY <2>2, <2>3
<1>11. NothingForgotten'
  <2> SUFFICES ASSUME lapses = 0, NEW c \in Contracts \ late
               PROVE  /\ task'[c] # Never => armed'[c] # Never
                      /\ c \in fired => task'[c] = Never
    BY <1>2 DEF NothingForgotten
  <2>1. c \notin fired /\ (task[c] # Never => armed[c] # Never)
    BY <1>2 DEF WakeupInv, NothingForgotten
  <2>2. c \in ToArm \ failed => armed'[c] # Never
    BY <1>3, <1>4, <1>5, BoundsAreNumbers
  <2> QED
    BY <1>5, <2>1, <2>2
<1>12. GuardHolds'
  BY <1>2 DEF WakeupInv, GuardHolds
<1> QED
  BY <1>8, <1>9, <1>10, <1>11, <1>12 DEF WakeupInv

LEMMA WakeupForgets ==
    ASSUME WakeupInv, RefreshUnavailable
    PROVE  WakeupInv'
<1>1. /\ turn = "alarm" /\ turn' = "guard" /\ lapses < MaxLapses /\ lapses' = lapses + 1
      /\ armed' = [c \in Contracts |-> Never]
      /\ UNCHANGED <<active, pressing, point, half, task, fired, wake, handle, request, awake, failures,
                     watched, guarded, late>>
  BY DEF RefreshUnavailable, database, clock, power
<1>2. WakeupTyped'
  BY <1>1, BoundsAreNumbers DEF WakeupInv, WakeupTyped, TypeOK, Turns
<1>3. ArmedIsRegistered' /\ WatchedIsArmed'
  BY <1>1 DEF WakeupInv, ArmedIsRegistered, WatchedIsArmed, WakeupTyped
<1>4. NothingForgotten'
  BY <1>1, BoundsAreNumbers DEF WakeupInv, NothingForgotten, WakeupTyped, TypeOK
<1>5. GuardHolds'
  BY <1>1 DEF WakeupInv, GuardHolds
<1> QED
  BY <1>2, <1>3, <1>4, <1>5 DEF WakeupInv
\* Nothing of the alarms moves but the signals that nobody has consumed.
LEMMA AlarmsStay ==
    ASSUME WakeupInv, UNCHANGED <<clock, alarms, lapses, late, watched>>,
           turn # "alarm" => turn' # "alarm",
           turn' \in {"guard", "asleep"} => turn \in {"guard", "asleep"}
    PROVE  ArmedIsRegistered' /\ WatchedIsArmed' /\ NothingForgotten'
<1>1. UNCHANGED <<point, half, armed, task, fired, lapses, late, watched>>
  BY DEF clock, alarms
<1>2. ArmedIsRegistered'
  BY <1>1 DEF WakeupInv, ArmedIsRegistered
<1>3. WatchedIsArmed'
  BY <1>1 DEF WakeupInv, WatchedIsArmed
<1>4. NothingForgotten'
  BY <1>1 DEF WakeupInv, NothingForgotten
<1> QED
  BY <1>2, <1>3, <1>4

LEMMA WakeupGuards ==
    ASSUME WakeupInv, Guard \/ Unguard
    PROVE  WakeupInv'
<1>1. /\ awake /\ turn = "guard" /\ turn' = "asleep"
      /\ UNCHANGED <<active, pressing, point, half, armed, task, fired, wake, awake, lapses,
                     watched, late>>
  BY DEF Guard, Unguard, Running, database, clock, alarms
<1>2. {handle, request, guarded} \subseteq BOOLEAN /\ failures \in 0 .. MaxFailures
  BY DEF WakeupInv, WakeupTyped, TypeOK
<1>3. {handle', request', guarded'} \subseteq BOOLEAN /\ failures' \in 0 .. MaxFailures /\ GuardHolds'
  <2>1. CASE Guard
    <3>1. CASE handle /\ guarded' = TRUE /\ UNCHANGED <<power, failures>>
      BY <1>1, <1>2, <3>1 DEF WakeupInv, GuardHolds, power
    <3>2. CASE ~ (handle /\ guarded' = TRUE /\ UNCHANGED <<power, failures>>)
      <4>1. PICK granted \in BOOLEAN :
              /\ ~handle /\ handle' = granted /\ request' = (request \/ granted) /\ guarded' = granted
              /\ failures' = failures + (IF granted THEN 0 ELSE 1)
              /\ failures' <= MaxFailures
        BY <2>1, <3>2 DEF Guard, Handle
      <4>2. failures' \in 0 .. MaxFailures
        BY <1>2, <4>1, BoundsAreNumbers
      <4> QED
        BY <1>1, <1>2, <4>1, <4>2 DEF WakeupInv, GuardHolds
    <3> QED
      BY <3>1, <3>2
  <2>2. CASE Unguard
    <3>1. /\ guarded' = FALSE
          /\ handle' = FALSE \/ (handle' = handle /\ request' = request)
          /\ request' = request \/ request' = FALSE
          /\ failures' = failures \/ (failures < MaxFailures /\ failures' = failures + 1)
      BY <2>2 DEF Unguard, power
    <3>2. failures' \in 0 .. MaxFailures
      BY <1>2, <3>1, BoundsAreNumbers
    <3>3. {handle', request', guarded'} \subseteq BOOLEAN
      BY <1>2, <3>1
    <3>4. GuardHolds'
      BY <3>1 DEF WakeupInv, GuardHolds
    <3> QED
      BY <3>2, <3>3, <3>4
  <2> QED
    BY <2>1, <2>2
<1>4. WakeupTyped'
  BY <1>1, <1>3 DEF WakeupInv, WakeupTyped, TypeOK, Turns
<1>5. ArmedIsRegistered' /\ WatchedIsArmed' /\ NothingForgotten'
  BY <1>1, AlarmsStay DEF clock, alarms
<1> QED
  BY <1>3, <1>4, <1>5 DEF WakeupInv

LEMMA WakeupWaits ==
    ASSUME WakeupInv, WaitEnds \/ Restart
    PROVE  WakeupInv'
<1>1. /\ turn \in {"asleep", "down"} /\ turn' = "round" /\ wake' \in {wake, FALSE}
      /\ UNCHANGED <<database, clock, alarms, power, awake, failures, lapses, watched, guarded, late>>
  BY DEF WaitEnds, Restart
<1>2. WakeupTyped'
  BY <1>1 DEF WakeupInv, WakeupTyped, TypeOK, Turns, database, clock, alarms, power
<1>3. ArmedIsRegistered' /\ WatchedIsArmed' /\ NothingForgotten'
  BY <1>1, AlarmsStay
<1>4. GuardHolds'
  BY <1>1 DEF WakeupInv, GuardHolds, power
<1> QED
  BY <1>2, <1>3, <1>4 DEF WakeupInv

LEMMA WakeupCrashes ==
    ASSUME WakeupInv, Crash
    PROVE  WakeupInv'
<1>1. /\ turn' = "down" /\ lapses < MaxLapses /\ lapses' = lapses + 1
      /\ armed' = [c \in Contracts |-> Never] /\ fired' = {} /\ watched' = {}
      /\ wake' = FALSE /\ handle' = FALSE /\ request' = FALSE /\ guarded' = FALSE
      /\ UNCHANGED <<active, pressing, point, half, task, awake, failures, late>>
  BY DEF Crash, database, clock
<1>2. armed' \in [Contracts -> Past .. Never] /\ \A c \in Contracts : armed'[c] = Never
  BY <1>1, BoundsAreNumbers
<1>3. lapses' \in 1 .. MaxLapses
  BY <1>1, BoundsAreNumbers DEF WakeupInv, WakeupTyped, TypeOK
<1>4. WakeupTyped'
  <2>1. /\ fired' \subseteq Contracts /\ watched' \subseteq active /\ turn' \in Turns
    BY <1>1 DEF Turns
  <2>2. {wake, handle, request, awake, guarded}' \subseteq BOOLEAN
    BY <1>1 DEF WakeupInv, WakeupTyped, TypeOK
  <2>3. lapses' \in 0 .. MaxLapses
    BY <1>3, BoundsAreNumbers
  <2> QED
    BY <1>1, <1>2, <2>1, <2>2, <2>3 DEF WakeupInv, WakeupTyped, TypeOK
<1>5. ArmedIsRegistered' /\ WatchedIsArmed'
  BY <1>1, <1>2 DEF ArmedIsRegistered, WatchedIsArmed
<1>6. NothingForgotten'
  BY <1>1, <1>3 DEF NothingForgotten
<1>7. GuardHolds'
  BY <1>1 DEF GuardHolds
<1> QED
  BY <1>4, <1>5, <1>6, <1>7 DEF WakeupInv

LEMMA WakeupSuspends ==
    ASSUME WakeupInv, Suspend \/ UserWakes
    PROVE  WakeupInv'
<1>1. /\ awake' = TRUE \/ (~request /\ awake' = FALSE)
      /\ UNCHANGED <<database, clock, alarms, wake, power, turn, failures, lapses, watched, guarded, late>>
  BY DEF Suspend, UserWakes
<1>2. WakeupTyped'
  BY <1>1 DEF WakeupInv, WakeupTyped, TypeOK, Turns, database, clock, alarms, power
<1>3. ArmedIsRegistered' /\ WatchedIsArmed' /\ NothingForgotten'
  BY <1>1, AlarmsStay
<1>4. GuardHolds'
  BY <1>1 DEF WakeupInv, GuardHolds, power
<1> QED
  BY <1>2, <1>3, <1>4 DEF WakeupInv
LEMMA WakeupWrites ==
    ASSUME WakeupInv, NEW c \in Contracts, Write(c)
    PROVE  WakeupInv'
<1>1. /\ active' \in {active \cup {c}, active \ {c}} /\ pressing' = pressing \cap active'
      /\ watched' = watched \ {c} /\ guarded' = (guarded /\ pressing' = pressing)
      /\ wake' \in {wake, TRUE}
      /\ UNCHANGED <<half, armed, task, fired, handle, request, awake, turn, failures, lapses, late>>
  BY DEF Write, alarms, power
<1>2. PICK p \in 0 .. Horizon : point' = [point EXCEPT ![c] = p]
  BY DEF Write
<1>3. WakeupTyped'
  <2>1. /\ active' \subseteq Contracts /\ pressing' \subseteq active' /\ watched' \subseteq active'
        /\ point' \in [Contracts -> 0 .. Horizon]
    BY <1>1, <1>2 DEF WakeupInv, WakeupTyped, TypeOK
  <2>2. {wake, handle, request, awake, guarded}' \subseteq BOOLEAN
    BY <1>1 DEF WakeupInv, WakeupTyped, TypeOK
  <2>3. turn' \in {"alarm", "down"} => watched' = {}
    BY <1>1 DEF WakeupInv, WakeupTyped
  <2> QED
    BY <1>1, <2>1, <2>2, <2>3 DEF WakeupInv, WakeupTyped, TypeOK
<1>4. WatchedIsArmed'
  <2>1. \A d \in watched' : point'[d] = point[d]
    BY <1>1, <1>2 DEF WakeupInv, WakeupTyped, TypeOK
  <2> QED
    BY <1>1, <2>1 DEF WakeupInv, WatchedIsArmed
<1>5. ArmedIsRegistered' /\ NothingForgotten'
  BY <1>1 DEF WakeupInv, ArmedIsRegistered, NothingForgotten
<1>6. GuardHolds'
  BY <1>1 DEF WakeupInv, GuardHolds
<1> QED
  BY <1>3, <1>4, <1>5, <1>6 DEF WakeupInv

LEMMA WakeupFires ==
    ASSUME WakeupInv, NEW c \in Contracts, TaskFires(c)
    PROVE  WakeupInv'
<1>1. /\ task[c] = 0 /\ task' = [task EXCEPT ![c] = Never] /\ awake' = TRUE
      /\ turn = "down" => UNCHANGED <<fired, wake>>
      /\ turn # "down" => fired' = fired \cup {c} /\ wake' = TRUE
      /\ late' = IF turn = "alarm" THEN late \cup {c} ELSE late
      /\ UNCHANGED <<active, pressing, point, half, armed, handle, request, turn, failures, lapses,
                     watched, guarded>>
  BY DEF TaskFires, database, clock, power
<1>2. task \in [Contracts -> 0 .. Never] /\ task' \in [Contracts -> 0 .. Never]
  BY <1>1, BoundsAreNumbers DEF WakeupInv, WakeupTyped, TypeOK
<1>3. task'[c] = Never /\ \A d \in Contracts \ {c} : task'[d] = task[d]
  BY <1>1, <1>2
<1>4. WakeupTyped'
  <2>1. fired' \subseteq Contracts /\ late' \subseteq Contracts
    BY <1>1 DEF WakeupInv, WakeupTyped, TypeOK
  <2>2. {wake, handle, request, awake, guarded}' \subseteq BOOLEAN
    BY <1>1 DEF WakeupInv, WakeupTyped, TypeOK
  <2> QED
    BY <1>1, <1>2, <2>1, <2>2 DEF WakeupInv, WakeupTyped, TypeOK
<1>5. ArmedIsRegistered'
  BY <1>1, <1>3 DEF WakeupInv, ArmedIsRegistered, WakeupTyped
<1>6. WatchedIsArmed'
  <2> SUFFICES ASSUME turn \in {"guard", "asleep"}, NEW d \in watched
               PROVE  task'[d] <= point[d] \/ d \in fired'
    BY <1>1 DEF WatchedIsArmed
  <2>1. d \in Contracts /\ (task[d] <= point[d] \/ d \in fired)
    BY DEF WakeupInv, WakeupTyped, TypeOK, WatchedIsArmed
  <2> QED
    BY <1>1, <1>3, <2>1
<1>7. NothingForgotten'
  BY <1>1, <1>3 DEF WakeupInv, NothingForgotten
<1>8. GuardHolds'
  BY <1>1 DEF WakeupInv, GuardHolds
<1> QED
  BY <1>4, <1>5, <1>6, <1>7, <1>8 DEF WakeupInv

LEMMA WakeupElapses ==
    ASSUME WakeupInv, Elapse
    PROVE  WakeupInv'
<1>1. /\ turn \in {"asleep", "down"} /\ half' = 1 - half /\ \A c \in Contracts : task[c] # 0
      /\ point' = [c \in Contracts |-> IF point[c] = 0 THEN 0 ELSE point[c] - 1]
      /\ armed' = [c \in Contracts |-> CASE armed[c] = Never -> Never
                                         [] armed[c] = Past -> Past
                                         [] OTHER -> armed[c] - 1]
      /\ task' = [c \in Contracts |-> IF task[c] = Never THEN Never ELSE task[c] - 1]
      /\ UNCHANGED <<active, pressing, fired, wake, handle, request, awake, turn, failures, lapses,
                     watched, guarded, late>>
  BY DEF Elapse, database, power
<1>2. ASSUME NEW c \in Contracts
      PROVE  /\ point[c] \in 0 .. Horizon /\ armed[c] \in Past .. Never /\ task[c] \in 0 .. Never
             /\ point'[c] = IF point[c] = 0 THEN 0 ELSE point[c] - 1
             /\ task'[c] = IF task[c] = Never THEN Never ELSE task[c] - 1
             /\ armed[c] = Never => armed'[c] = Never
             /\ armed[c] = Past => armed'[c] = Past
             /\ armed[c] \notin {Never, Past} => armed'[c] = armed[c] - 1
             /\ task[c] # 0
  BY <1>1 DEF WakeupInv, WakeupTyped, TypeOK
<1>3. ASSUME NEW c \in Contracts
      PROVE  /\ point'[c] \in 0 .. Horizon /\ armed'[c] \in Past .. Never /\ task'[c] \in 0 .. Never
             /\ armed'[c] = Never <=> armed[c] = Never
             /\ task'[c] = Never <=> task[c] = Never
             /\ armed[c] # Never /\ armed[c] = task[c] => armed'[c] = task'[c]
             /\ task[c] <= point[c] => task'[c] <= point'[c]
  <2>1. Horizon \in Nat /\ Never = Horizon + 1 /\ Past = -1
    BY BoundsAreNumbers DEF Never, Past
  <2> QED
    BY <1>2, <2>1
<1>4. WakeupTyped'
  <2>1. /\ point' \in [Contracts -> 0 .. Horizon] /\ armed' \in [Contracts -> Past .. Never]
        /\ task' \in [Contracts -> 0 .. Never] /\ half' \in 0 .. 1
    BY <1>1, <1>3 DEF WakeupInv, WakeupTyped, TypeOK
  <2>2. turn' = "down" => \A c \in Contracts : armed'[c] = Never
    BY <1>1, <1>3 DEF WakeupInv, WakeupTyped
  <2> QED
    BY <1>1, <2>1, <2>2 DEF WakeupInv, WakeupTyped, TypeOK
<1>5. ArmedIsRegistered'
  BY <1>1, <1>3 DEF WakeupInv, ArmedIsRegistered
<1>6. WatchedIsArmed'
  <2> SUFFICES ASSUME turn = "asleep", NEW c \in watched
               PROVE  task'[c] <= point'[c] \/ c \in fired
    BY <1>1 DEF WatchedIsArmed
  <2>1. c \in Contracts /\ (task[c] <= point[c] \/ c \in fired)
    BY DEF WakeupInv, WakeupTyped, TypeOK, WatchedIsArmed
  <2> QED
    BY <1>3, <2>1
<1>7. NothingForgotten'
  BY <1>1, <1>3 DEF WakeupInv, NothingForgotten
<1>8. GuardHolds'
  BY <1>1 DEF WakeupInv, GuardHolds
<1> QED
  BY <1>4, <1>5, <1>6, <1>7, <1>8 DEF WakeupInv

-----------------------------------------------------------------------------
(* Wakeup: the theorems.                                                    *)

LEMMA WakeupInitInv == Init => WakeupInv
<1> SUFFICES ASSUME Init PROVE WakeupInv
  OBVIOUS
<1>1. TypeOK
  <2>1. /\ armed \in [Contracts -> Past .. Never] /\ task \in [Contracts -> 0 .. Never]
        /\ point \in [Contracts -> 0 .. Horizon]
    BY BoundsAreNumbers DEF Init
  <2>2. {wake, handle, request, awake, guarded} \subseteq BOOLEAN
    BY DEF Init
  <2>3. failures \in 0 .. MaxFailures /\ lapses \in 0 .. MaxLapses /\ half \in 0 .. 1
    BY BoundsAreNumbers DEF Init
  <2> QED
    BY <2>1, <2>2, <2>3 DEF Init, TypeOK, Turns
<1> QED
  BY <1>1 DEF Init, WakeupInv, WakeupTyped, ArmedIsRegistered, WatchedIsArmed, NothingForgotten, GuardHolds

LEMMA WakeupNextInv == WakeupInv /\ [Next]_vars => WakeupInv'
<1> SUFFICES ASSUME WakeupInv, [Next]_vars PROVE WakeupInv'
  OBVIOUS
<1>1. CASE Next
  BY <1>1, WakeupTick, WakeupRefresh, WakeupForgets, WakeupGuards, WakeupWaits, WakeupCrashes,
     WakeupSuspends, WakeupWrites, WakeupFires, WakeupElapses DEF Next, Daemon
<1>2. CASE UNCHANGED vars
  <2>1. UNCHANGED <<active, point, pressing, half, armed, task, fired, wake, handle, request, awake, turn,
                    failures, lapses, watched, guarded, late>>
    BY <1>2 DEF vars
  <2>2. WakeupTyped'
    BY <2>1 DEF WakeupInv, WakeupTyped, TypeOK
  <2>3. ArmedIsRegistered' /\ WatchedIsArmed' /\ NothingForgotten'
    BY <2>1, AlarmsStay DEF clock, alarms
  <2> QED
    BY <2>1, <2>2, <2>3 DEF WakeupInv, GuardHolds
<1> QED
  BY <1>1, <1>2

LEMMA WakeupInvariant == Spec => []WakeupInv
  BY WakeupInitInv, WakeupNextInv, PTL DEF Spec

(* Points, registrations and tasks keep to the horizon, and what a refresh   *)
(* watches is active.                                                        *)
THEOREM TypeCorrect == Spec => []TypeOK
<1>1. WakeupInv => TypeOK
  BY DEF WakeupInv, WakeupTyped
<1> QED
  BY WakeupInvariant, <1>1, PTL

(* While the daemon waits, every contract the last refresh had an alarm for  *)
(* has a task no later than its point or one that has started, and           *)
(* RtcAlarm._armed forgets no registration but for a crash, an unavailable   *)
(* port or a signal that came too late for its round.                        *)
THEOREM AlarmIsSet == Spec => []SleepsWithAnAlarm
<1>1. WakeupInv => SleepsWithAnAlarm
  BY DEF WakeupInv, WatchedIsArmed, NothingForgotten, SleepsWithAnAlarm
<1> QED
  BY WakeupInvariant, <1>1, PTL

(* SleepGuard: the machine is not suspended while the daemon waits with work *)
(* it found pressing and a power request it was given.                       *)
THEOREM GuardKeepsAwake == Spec => []PressingWorkStaysAwake
<1>1. WakeupInv => PressingWorkStaysAwake
  BY DEF WakeupInv, GuardHolds, PressingWorkStaysAwake
<1> QED
  BY WakeupInvariant, <1>1, PTL
=============================================================================
