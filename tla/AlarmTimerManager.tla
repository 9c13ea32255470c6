------------------------- MODULE AlarmTimerManager -------------------------
(***************************************************************************)
(* AlarmTimerManager keeps, per user, a start and an end timer of the      *)
(* system's time service and, in sunrise mode, a recalculation timer.  The *)
(* time service is external: any of its calls may fail, and it goes on     *)
(* firing a timer that could not be destroyed.                             *)
(*                                                                         *)
(* "op" is SetScheduleTime in progress, which holds timerMapMutex_ across  *)
(* its calls; while it runs no other operation of the manager can, but the *)
(* service fires timers and the clock moves.  A caller whose               *)
(* SetScheduleTime failed still holds darkModeStatesMutex_ and goes on to  *)
(* ClearTimerByUserId ("owed"); operations called without that mutex may   *)
(* come in between.                                                        *)
(***************************************************************************)
EXTENDS ScheduleTime, FiniteSets

CONSTANTS
    Users,          \* timer keys; the code treats key 0 as no user
    Schedules,      \* pairs <<start, end>> that callers ask for
    TimerIds,       \* identifiers the time service hands out
    Clock,          \* moments of the wall clock
    MaxLeaked       \* bound on failing DestroyTimer calls

START_INDEX == 1
END_INDEX == 2
Index == {START_INDEX, END_INDEX}
RECALCULATION == 3
NoUser == -1
NoTimer == 0

ASSUME AlarmTimerManagerAssumption ==
    /\ Users \subseteq Nat
    /\ Schedules \subseteq (0 .. UINT64_MODULUS - 1) \X (0 .. UINT64_MODULUS - 1)
    /\ NoTimer \notin TimerIds
    /\ Clock \subseteq Nat
    /\ \A now \in Clock : now >= DAY_TO_SECOND
    /\ MaxLeaked \in Nat

VARIABLES
    timerIdMap,             \* the start and end timer of each user, 0 if none
    timerKeys,              \* the users that have an entry in timerIdMap_
    initialSetupTimeMap,    \* the schedule recorded for each user
    setupKeys,              \* the users that have an entry in initialSetupTimeMap_
    recalculationTimerIdMap, \* 0 where the map has no entry
    op,                     \* SetScheduleTime in progress, next = 0 if none
    owed,                   \* the user whose caller still has to clear
    alive,                  \* time service: timers created and not destroyed
    owner,                  \* time service: the user and role of each timer
    trigger,                \* time service: when it fires next, 0 if stopped
    leaked,                 \* history: timers DestroyTimer failed on
    now

maps == << timerIdMap, timerKeys, initialSetupTimeMap, setupKeys, recalculationTimerIdMap >>
service == << alive, owner, trigger, leaked >>
vars == << maps, op, owed, service, now >>

NoTimers == [i \in Index |-> NoTimer]
NoSetup == << 0, 0 >>
NoOwner == << NoUser, 0 >>
Idle == [user |-> NoUser, next |-> 0, times |-> << 0, 0 >>]

TypeOK ==
    /\ timerIdMap \in [Users -> [Index -> TimerIds \cup {NoTimer}]]
    /\ timerKeys \subseteq Users
    /\ initialSetupTimeMap \in [Users -> Schedules \cup {NoSetup}]
    /\ setupKeys \subseteq Users
    /\ recalculationTimerIdMap \in [Users -> TimerIds \cup {NoTimer}]
    /\ op \in [user : Users \cup {NoUser}, next : 0 .. 3, times : Int \X Int]
    /\ owed \in Users \cup {NoUser}
    /\ alive \subseteq TimerIds
    /\ owner \in [TimerIds -> (Users \X (Index \cup {RECALCULATION})) \cup {NoOwner}]
    /\ trigger \in [TimerIds -> Int]
    /\ leaked \subseteq TimerIds
    /\ now \in Clock

-----------------------------------------------------------------------------
(* Calls to the time service                                               *)

\* ClearTimer on each of ids; DestroyTimer fails on the members of failed.
ClearTimers(ids, failed) ==
    LET gone == ids \ failed
    IN  /\ failed \subseteq ids
        /\ alive' = alive \ gone
        /\ leaked' = leaked \cup failed
        /\ owner' = [id \in TimerIds |-> IF id \in gone THEN NoOwner ELSE owner[id]]
        /\ trigger' = [id \in TimerIds |-> IF id \in gone THEN 0 ELSE trigger[id]]

\* InitTimer yields id, after the timers in gone have been destroyed and
\* destroying those in failed has not succeeded.
InitTimer(id, gone, failed, user, role, time) ==
    \* CreateTimer failed, or StartTimer failed and the timer was destroyed
    \/ /\ id = NoTimer
       /\ ClearTimers(gone \cup failed, failed)
    \* StartTimer failed and so did DestroyTimer: a timer nobody refers to
    \/ /\ id = NoTimer
       /\ \E x \in TimerIds \ alive :
            /\ alive' = (alive \ gone) \cup {x} /\ leaked' = leaked \cup failed \cup {x}
            /\ owner' = [y \in TimerIds |-> IF y = x THEN << user, role >>
                                            ELSE IF y \in gone THEN NoOwner ELSE owner[y]]
            /\ trigger' = [y \in TimerIds |-> IF y \in gone THEN 0 ELSE trigger[y]]
    \/ /\ id \in TimerIds \ alive
       /\ alive' = (alive \ gone) \cup {id} /\ leaked' = leaked \cup failed
       /\ owner' = [y \in TimerIds |-> IF y = id THEN << user, role >>
                                       ELSE IF y \in gone THEN NoOwner ELSE owner[y]]
       /\ trigger' = [y \in TimerIds |-> IF y = id THEN time
                                         ELSE IF y \in gone THEN 0 ELSE trigger[y]]

LeakBound == Cardinality(leaked') <= MaxLeaked

-----------------------------------------------------------------------------
(* The operations                                                          *)

MutexFree == op = Idle
StatesMutexFree == owed = NoUser    \* darkModeStatesMutex_, as seen from here

\* A mutant: an entry that is there already is kept (emplace for operator[]).
RecordInitialSetupTime_KeepsOld(u, schedule) ==
    IF u \in setupKeys THEN initialSetupTimeMap
    ELSE [initialSetupTimeMap EXCEPT ![u] = schedule]

\* A mutant: start and end are swapped.
RecordInitialSetupTime_Swapped(u, schedule) ==
    [initialSetupTimeMap EXCEPT ![u] = << schedule[2], schedule[1] >>]

RecordInitialSetupTime(u, schedule) == [initialSetupTimeMap EXCEPT ![u] = schedule]

SetScheduleTime(u, schedule) ==
    /\ MutexFree /\ StatesMutexFree
    /\ IF IsValidScheduleTime(schedule[1], schedule[2])
       THEN /\ initialSetupTimeMap' = RecordInitialSetupTime(u, schedule)
            /\ setupKeys' = setupKeys \cup {u}
            /\ timerKeys' = timerKeys \cup {u}
            /\ op' = [user |-> u, next |-> START_INDEX,
                      times |-> SetTimerTriggerTime(schedule[1], schedule[2], now)]
            /\ UNCHANGED owed
       ELSE /\ owed' = u
            /\ UNCHANGED << initialSetupTimeMap, setupKeys, timerKeys, op >>
    /\ UNCHANGED << timerIdMap, recalculationTimerIdMap, service, now >>

\* SetTimer: UpdateTimer if there is an old timer, else InitTimer.
SetTimer ==
    LET u == op.user
        i == op.next
        old == {timerIdMap[u][i]} \ {NoTimer}
    IN  /\ op.next \in Index
        /\ \E id \in TimerIds \cup {NoTimer}, failed \in SUBSET old :
            /\ InitTimer(id, old \ failed, failed, u, i, op.times[i])
            /\ timerIdMap' = [timerIdMap EXCEPT ![u][i] = id]
        /\ LeakBound
        /\ op' = [op EXCEPT !.next = i + 1]
        /\ UNCHANGED << timerKeys, initialSetupTimeMap, setupKeys, recalculationTimerIdMap,
                        owed, now >>

\* A mutant: only the start timer is looked at.
TimerMissing_StartOnly(u) == timerIdMap[u][START_INDEX] = NoTimer

TimerMissing(u) == \E i \in Index : timerIdMap[u][i] = NoTimer

\* ERR_OK, or ERR_INVALID_OPERATION if a timer is missing.
SetScheduleTimeReturn ==
    /\ op.next = END_INDEX + 1
    /\ owed' = IF TimerMissing(op.user) THEN op.user ELSE NoUser
    /\ op' = Idle
    /\ UNCHANGED << maps, service, now >>

\* A mutant: the recalculation timer is forgotten.
TimersOf_NoRecalculation(u) == { timerIdMap[u][i] : i \in Index }

TimersOf(u) ==
    { timerIdMap[u][i] : i \in Index } \cup {recalculationTimerIdMap[u]}

\* A mutant: the recorded schedule outlives the timers.
SetupKeysWithout_Kept(u) == setupKeys

SetupKeysWithout(u) == setupKeys \ {u}

\* Called by the owing caller, on a change to an all-day mode, or on a switch.
ClearTimerByUserId(u) ==
    /\ MutexFree
    /\ \E failed \in SUBSET (TimersOf(u) \ {NoTimer}) : ClearTimers(TimersOf(u) \ {NoTimer}, failed)
    /\ LeakBound
    /\ timerIdMap' = [timerIdMap EXCEPT ![u] = NoTimers]
    /\ timerKeys' = timerKeys \ {u}
    /\ recalculationTimerIdMap' = [recalculationTimerIdMap EXCEPT ![u] = NoTimer]
    /\ initialSetupTimeMap' = [initialSetupTimeMap EXCEPT ![u] = NoSetup]
    /\ setupKeys' = SetupKeysWithout(u)
    /\ owed' = IF owed = u THEN NoUser ELSE owed
    /\ UNCHANGED << op, now >>

SetRecalculationTimer(u) ==
    /\ MutexFree /\ StatesMutexFree
    /\ recalculationTimerIdMap[u] = NoTimer
    /\ \E id \in TimerIds \cup {NoTimer} :
        /\ InitTimer(id, {}, {}, u, RECALCULATION, now + DAY_TO_SECOND)
        /\ recalculationTimerIdMap' = [recalculationTimerIdMap EXCEPT ![u] = id]
    /\ LeakBound
    /\ UNCHANGED << timerIdMap, timerKeys, initialSetupTimeMap, setupKeys, op, owed, now >>

\* A mutant: the entry is not erased.
ClearRecalculationTimer_KeepsEntry(u) ==
    /\ MutexFree
    /\ recalculationTimerIdMap[u] # NoTimer
    /\ ClearTimers({recalculationTimerIdMap[u]}, {})
    /\ UNCHANGED << maps, op, owed, now >>

ClearRecalculationTimer(u) ==
    /\ MutexFree
    /\ recalculationTimerIdMap[u] # NoTimer
    /\ \E failed \in SUBSET {recalculationTimerIdMap[u]} :
            ClearTimers({recalculationTimerIdMap[u]}, failed)
    /\ LeakBound
    /\ recalculationTimerIdMap' = [recalculationTimerIdMap EXCEPT ![u] = NoTimer]
    /\ UNCHANGED << timerIdMap, timerKeys, initialSetupTimeMap, setupKeys, op, owed, now >>

\* RestartTimerByUserId fails without a recorded schedule, and its first
\* failure makes "res = res && ..." skip the users after it (in key order).
Restartable(u) == u # 0 /\ u \in timerKeys /\ u \in setupKeys
Restarted ==
    { u \in timerKeys \ {0} : \A v \in timerKeys \ {0} : v <= u => Restartable(v) }

\* StopTimer, then StartTimer, which fails on the members of failed.
RestartAllTimer ==
    /\ MutexFree
    /\ \E failed \in SUBSET alive :
        trigger' = [id \in TimerIds |->
            LET u == owner[id][1]
                i == owner[id][2]
            IN  IF u \in Restarted /\ i \in Index /\ id = timerIdMap[u][i]
                THEN IF id \in failed THEN 0
                     ELSE SetTimerTriggerTime(initialSetupTimeMap[u][1],
                                              initialSetupTimeMap[u][2], now)[i]
                ELSE trigger[id]]
    /\ UNCHANGED << maps, op, owed, alive, owner, leaked, now >>

-----------------------------------------------------------------------------
(* The time service and the clock on their own                             *)

\* A repeating timer goes off and is armed for the next day.
Fire(id) ==
    /\ id \in alive /\ trigger[id] # 0 /\ trigger[id] <= now
    /\ trigger' = [trigger EXCEPT ![id] = @ + DAY_TO_SECOND]
    /\ UNCHANGED << maps, op, owed, alive, owner, leaked, now >>

SetClock ==
    /\ now' \in Clock
    /\ UNCHANGED << maps, op, owed, service >>

Init ==
    /\ timerIdMap = [u \in Users |-> NoTimers]
    /\ timerKeys = {}
    /\ initialSetupTimeMap = [u \in Users |-> NoSetup]
    /\ setupKeys = {}
    /\ recalculationTimerIdMap = [u \in Users |-> NoTimer]
    /\ op = Idle
    /\ owed = NoUser
    /\ alive = {} /\ leaked = {}
    /\ owner = [id \in TimerIds |-> NoOwner]
    /\ trigger = [id \in TimerIds |-> 0]
    /\ now \in Clock

Next ==
    \/ \E u \in Users, s \in Schedules : SetScheduleTime(u, s)
    \/ SetTimer
    \/ SetScheduleTimeReturn
    \/ \E u \in Users : ClearTimerByUserId(u)
    \/ \E u \in Users : SetRecalculationTimer(u)
    \/ \E u \in Users : ClearRecalculationTimer(u)
    \/ RestartAllTimer
    \/ \E id \in TimerIds : Fire(id)
    \/ SetClock

Spec == Init /\ [][Next]_vars

-----------------------------------------------------------------------------
(* Properties                                                              *)

Referenced ==
    { timerIdMap[u][i] : u \in Users, i \in Index }
        \cup { recalculationTimerIdMap[u] : u \in Users }

\* Every timer the maps refer to exists in the service and belongs to exactly
\* that user and role, so stopping or destroying it never hits another timer.
NoDanglingTimer ==
    \A u \in Users :
        /\ \A i \in Index : timerIdMap[u][i] # NoTimer =>
                /\ timerIdMap[u][i] \in alive \ leaked
                /\ owner[timerIdMap[u][i]] = << u, i >>
        /\ recalculationTimerIdMap[u] # NoTimer =>
                /\ recalculationTimerIdMap[u] \in alive \ leaked
                /\ owner[recalculationTimerIdMap[u]] = << u, RECALCULATION >>

\* The manager loses no timer: each live one is in its maps, unless the
\* service itself refused to destroy it.
NoOrphanTimer == alive \subseteq Referenced \cup leaked

\* Whoever has timers has a recorded schedule, so RestartTimerByUserId finds
\* both entries and RestartAllTimer reaches every user.
EveryTimerRestartable == timerKeys = setupKeys

\* After SetScheduleTime and its caller are through, a user has both timers or
\* none at all, even if creating one of them failed half-way.
BothTimersOrNone ==
    (MutexFree /\ StatesMutexFree) =>
        \A u \in Users :
            /\ u \in timerKeys => \A i \in Index : timerIdMap[u][i] # NoTimer
            /\ u \notin timerKeys => \A i \in Index : timerIdMap[u][i] = NoTimer

\* A running start or end timer goes off at the minute of the day its user's
\* recorded schedule says, whatever updates, restarts and repetitions there
\* were; only the timers SetScheduleTime is about to replace may be older.
TriggerMatchesSchedule ==
    \A u \in Users, i \in Index :
        LET id == timerIdMap[u][i]
        IN  (id # NoTimer /\ ~(op.user = u /\ op.next <= i)) =>
                trigger[id] = 0
                \/ SecondOfDay(trigger[id])
                    = SecondOfDay(initialSetupTimeMap[u][i] * MINUTE_TO_SECOND)

\* Restarting the timers after a clock change puts every running timer of
\* every user within the coming day, in the order the schedule changes phase:
\* the end timer is the next one exactly if the moment is in the interval
\* (RestartAllTimer, SetTimerTriggerTime and IsWithinTimeInterval agree).
RestartRearmsAll ==
    [][RestartAllTimer =>
        \A u \in timerKeys \ {0} :
            LET t == [i \in Index |-> trigger'[timerIdMap[u][i]]]
                s == initialSetupTimeMap[u]
            IN  (\A i \in Index : timerIdMap[u][i] # NoTimer) =>
                /\ \A i \in Index : t[i] = 0 \/ t[i] \in now .. (now + DAY_TO_SECOND)
                /\ (t[1] # 0 /\ t[2] # 0 /\ t[1] # now) =>
                        (t[2] < t[1] <=> IsWithinTimeInterval(s[1], s[2], now))]_vars
=============================================================================
