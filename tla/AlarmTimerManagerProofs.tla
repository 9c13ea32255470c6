----------------------- MODULE AlarmTimerManagerProofs -----------------------
(***************************************************************************)
(* The timer bookkeeping of AlarmTimerManager is right for any number of   *)
(* users, schedules and timers, whichever calls of the time service fail,  *)
(* and its timers go off when the schedules say.                           *)
(***************************************************************************)
EXTENDS AlarmTimerManager, ScheduleTimeProofs

\* SetScheduleTime in progress works on a user that has an entry, and holds
\* darkModeStatesMutex_, so that nobody owes a clearing meanwhile.
OpInv ==
    /\ op # Idle => /\ op.user \in timerKeys
                    /\ op.next # 0
                    /\ owed = NoUser
    /\ op.next = 0 => op = Idle

\* Only the user being scheduled, or still to be cleared, can lack a timer.
TimersInv ==
    \A u \in Users :
        /\ u \notin timerKeys => \A i \in Index : timerIdMap[u][i] = NoTimer
        /\ (u \in timerKeys /\ u # owed /\ u # op.user)
                => \A i \in Index : timerIdMap[u][i] # NoTimer

IInv ==
    /\ TypeOK
    /\ leaked \subseteq alive
    /\ NoDanglingTimer
    /\ NoOrphanTimer
    /\ EveryTimerRestartable
    /\ OpInv
    /\ TimersInv

USE DEF START_INDEX, END_INDEX, RECALCULATION, NoTimer, NoUser

\* What a call of the manager on the timers ids and the new timer id does to
\* the time service, whichever of the service's calls fail.
Effect(ids, id, user, role) ==
    /\ alive' \subseteq TimerIds /\ leaked' \subseteq alive'
    /\ owner' \in [TimerIds -> (Users \X (Index \cup {RECALCULATION})) \cup {NoOwner}]
    /\ trigger' \in [TimerIds -> Int]
    /\ id # NoTimer => /\ id \notin alive /\ id \in alive' \ leaked'
                       /\ owner'[id] = << user, role >>
    /\ \A x \in alive' : x \in alive \/ x = id \/ x \in leaked'
    /\ \A x \in ids : x \in alive' => x \in leaked'
    /\ \A x \in (alive \ leaked) \ ids : x \in alive' \ leaked' /\ owner'[x] = owner[x]
    /\ leaked \subseteq leaked'

\* ClearTimer frees exactly the timers it could destroy; the rest are leaked,
\* and the timers of other roles keep their owner (ClearTimer, DestroyTimer).
LEMMA ClearTimersEffect ==
    ASSUME TypeOK, leaked \subseteq alive,
           NEW ids, NEW failed, ids \subseteq alive \ leaked,
           ClearTimers(ids, failed)
    PROVE  Effect(ids, NoTimer, NoUser, 0)
BY DEF TypeOK, ClearTimers, Effect

\* InitTimer yields a timer new to the time service, or none, and leaves the
\* timers it was not asked to replace alone (CreateTimer, StartTimer failing).
LEMMA InitTimerEffect ==
    ASSUME TypeOK, leaked \subseteq alive,
           NEW id, NEW gone, NEW failed,
           gone \subseteq alive \ leaked, failed \subseteq alive \ leaked, gone \cap failed = {},
           NEW user \in Users, NEW role \in Index \cup {RECALCULATION}, NEW time \in Int,
           InitTimer(id, gone, failed, user, role, time)
    PROVE  Effect(gone \cup failed, id, user, role) /\ id \in TimerIds \cup {NoTimer}
<1> USE DEF TypeOK, ClearTimers, Effect
<1>1. CASE id = NoTimer /\ ClearTimers(gone \cup failed, failed)
  BY <1>1, AlarmTimerManagerAssumption
<1>2. CASE /\ id = NoTimer
           /\ \E x \in TimerIds \ alive :
                /\ alive' = (alive \ gone) \cup {x} /\ leaked' = leaked \cup failed \cup {x}
                /\ owner' = [y \in TimerIds |-> IF y = x THEN << user, role >>
                                                ELSE IF y \in gone THEN NoOwner ELSE owner[y]]
                /\ trigger' = [y \in TimerIds |-> IF y \in gone THEN 0 ELSE trigger[y]]
  BY <1>2, AlarmTimerManagerAssumption
<1>3. CASE /\ id \in TimerIds \ alive
           /\ alive' = (alive \ gone) \cup {id} /\ leaked' = leaked \cup failed
           /\ owner' = [y \in TimerIds |-> IF y = id THEN << user, role >>
                                           ELSE IF y \in gone THEN NoOwner ELSE owner[y]]
           /\ trigger' = [y \in TimerIds |-> IF y = id THEN time
                                             ELSE IF y \in gone THEN 0 ELSE trigger[y]]
  BY <1>3, AlarmTimerManagerAssumption
<1> QED
  BY <1>1, <1>2, <1>3 DEF InitTimer

\* No schedule is being set, and nothing is created, at the start.
LEMMA InitIInv == Init => IInv
<1> SUFFICES ASSUME Init PROVE IInv
  OBVIOUS
<1> USE DEF Init
<1>1. TypeOK
  BY DEF TypeOK, Index, NoTimers, NoOwner, NoSetup, Idle
<1>2. leaked \subseteq alive /\ NoDanglingTimer /\ NoOrphanTimer /\ EveryTimerRestartable
  BY DEF NoDanglingTimer, NoOrphanTimer, EveryTimerRestartable, NoTimers
<1>3. OpInv /\ TimersInv
  BY DEF OpInv, TimersInv, NoTimers
<1> QED
  BY <1>1, <1>2, <1>3 DEF IInv

\* Entering SetScheduleTime, with a valid schedule or an invalid one.
LEMMA SetScheduleTimeStep ==
    ASSUME IInv, NEW u \in Users, NEW s \in Schedules, SetScheduleTime(u, s)
    PROVE  IInv'
<1> USE DEF IInv, SetScheduleTime, MutexFree, StatesMutexFree, service
<1>1. u # NoUser /\ s[1] \in Int /\ s[2] \in Int /\ now \in Int
  BY AlarmTimerManagerAssumption DEF TypeOK
<1>2. SetTimerTriggerTime(s[1], s[2], now) \in Int \X Int
  <2> HIDE DEF SetScheduleTime, IInv
  <2> QED
    BY <1>1, TriggerType
<1>a. /\ timerIdMap' = timerIdMap /\ recalculationTimerIdMap' = recalculationTimerIdMap
      /\ alive' = alive /\ owner' = owner /\ trigger' = trigger /\ leaked' = leaked /\ now' = now
  OBVIOUS
<1>b. /\ timerKeys' \in {timerKeys, timerKeys \cup {u}}
      /\ setupKeys' \in {setupKeys, setupKeys \cup {u}}
      /\ initialSetupTimeMap' \in {initialSetupTimeMap, [initialSetupTimeMap EXCEPT ![u] = s]}
      /\ owed' \in {owed, u}
      /\ op' \in {op, [user |-> u, next |-> START_INDEX,
                       times |-> SetTimerTriggerTime(s[1], s[2], now)]}
  BY DEF RecordInitialSetupTime
<1>3. TypeOK'
  <2> HIDE DEF SetScheduleTime, IInv
  <2>1. TypeOK
    BY DEF IInv
  <2>2. initialSetupTimeMap' \in [Users -> Schedules \cup {NoSetup}]
    BY <1>b, <2>1 DEF TypeOK
  <2>3. op' \in [user : Users \cup {NoUser}, next : 0 .. 3, times : Int \X Int]
    BY <1>2, <1>b, <2>1 DEF TypeOK
  <2> QED
    BY <1>a, <1>b, <2>1, <2>2, <2>3 DEF TypeOK
<1>4. (leaked \subseteq alive /\ NoDanglingTimer /\ NoOrphanTimer)'
  BY <1>a DEF NoDanglingTimer, NoOrphanTimer, Referenced
<1>5. EveryTimerRestartable'
  BY DEF EveryTimerRestartable
<1>6. OpInv' /\ TimersInv'
  <2>1. CASE IsValidScheduleTime(s[1], s[2])
    <3>1. /\ timerKeys' = timerKeys \cup {u} /\ owed' = owed /\ owed = NoUser
          /\ op' = [user |-> u, next |-> START_INDEX,
                    times |-> SetTimerTriggerTime(s[1], s[2], now)]
          /\ op.user = NoUser
      BY <2>1 DEF Idle, RecordInitialSetupTime
    <3>2. op'.user = u /\ op'.next = 1
      BY <3>1
    <3>3. OpInv'
      BY <3>1, <3>2 DEF OpInv
    <3>4. TimersInv'
      BY <1>1, <1>a, <3>1, <3>2, AlarmTimerManagerAssumption DEF TimersInv
    <3> QED
      BY <3>3, <3>4
  <2>2. CASE ~IsValidScheduleTime(s[1], s[2])
    <3>1. timerKeys' = timerKeys /\ owed' = u /\ owed = NoUser /\ op = Idle /\ op' = op
      BY <2>2
    <3>2. OpInv'
      BY <3>1 DEF OpInv
    <3>3. op.user = NoUser /\ op'.user = NoUser
      BY <3>1 DEF Idle
    <3>4. TimersInv'
      BY <1>1, <1>a, <3>1, <3>3, AlarmTimerManagerAssumption DEF TimersInv
    <3> QED
      BY <3>2, <3>4
  <2> QED
    BY <2>1, <2>2
<1> QED
  BY <1>3, <1>4, <1>5, <1>6

\* SetTimer puts a new timer, or none, where the old one was.
LEMMA SetTimerStep ==
    ASSUME IInv, SetTimer
    PROVE  IInv'
<1> DEFINE u == op.user
           i == op.next
           old == {timerIdMap[u][i]} \ {NoTimer}
<1> USE DEF IInv
<1>1. PICK id \in TimerIds \cup {NoTimer}, failed \in SUBSET old :
            /\ InitTimer(id, old \ failed, failed, u, i, op.times[i])
            /\ timerIdMap' = [timerIdMap EXCEPT ![u][i] = id]
  BY DEF SetTimer
<1>2. i \in Index /\ op'.user = u /\ op'.next = i + 1
      /\ op' \in [user : Users \cup {NoUser}, next : 0 .. 3, times : Int \X Int]
      /\ UNCHANGED << timerKeys, initialSetupTimeMap, setupKeys, recalculationTimerIdMap, owed, now >>
  BY DEF SetTimer, TypeOK, Index
<1>3. u \in Users /\ u \in timerKeys /\ op.times[i] \in Int /\ u # NoUser
  BY <1>2, AlarmTimerManagerAssumption DEF OpInv, Idle, TypeOK, Index
<1>4. old \subseteq alive \ leaked /\ \A x \in old : owner[x] = << u, i >>
  <2> HIDE DEF u, i
  <2>1. timerIdMap[u][i] # NoTimer =>
            timerIdMap[u][i] \in alive \ leaked /\ owner[timerIdMap[u][i]] = << u, i >>
    BY <1>2, <1>3 DEF NoDanglingTimer
  <2> QED
    BY <2>1
<1>5. old \ failed \subseteq alive \ leaked /\ failed \subseteq alive \ leaked
      /\ (old \ failed) \cap failed = {}
  BY <1>4
<1>6. Effect(old, id, u, i)
  <2> DEFINE gone == old \ failed
             time == op.times[i]
  <2>1. gone \cup failed = old
    <3> HIDE DEF old
    <3> QED OBVIOUS
  <2> HIDE DEF u, i, old, IInv
  <2>2. gone \subseteq alive \ leaked /\ gone \cap failed = {} /\ time \in Int
        /\ failed \subseteq alive \ leaked
        /\ InitTimer(id, gone, failed, u, i, time)
    BY <1>1, <1>3, <1>5
  <2>3. TypeOK /\ leaked \subseteq alive /\ u \in Users /\ i \in Index \cup {RECALCULATION}
    BY <1>2, <1>3 DEF IInv
  <2> HIDE DEF gone, time
  <2>4. Effect(gone \cup failed, id, u, i)
    BY <2>2, <2>3, InitTimerEffect, Zenon
  <2> QED
    BY <2>1, <2>4, Zenon
<1>7. TypeOK'
  BY <1>1, <1>2, <1>3, <1>6 DEF Effect, TypeOK, Index
<1>8. NoDanglingTimer'
  <2> SUFFICES ASSUME NEW v \in Users
               PROVE  /\ \A j \in Index : timerIdMap'[v][j] # NoTimer =>
                            /\ timerIdMap'[v][j] \in alive' \ leaked'
                            /\ owner'[timerIdMap'[v][j]] = << v, j >>
                      /\ recalculationTimerIdMap'[v] # NoTimer =>
                            /\ recalculationTimerIdMap'[v] \in alive' \ leaked'
                            /\ owner'[recalculationTimerIdMap'[v]] = << v, RECALCULATION >>
    BY DEF NoDanglingTimer
  <2>1. ASSUME NEW j \in Index, timerIdMap'[v][j] # NoTimer
        PROVE  /\ timerIdMap'[v][j] \in alive' \ leaked'
               /\ owner'[timerIdMap'[v][j]] = << v, j >>
    <3>1. CASE v = u /\ j = i
      BY <1>1, <1>3, <1>6, <2>1, <3>1 DEF TypeOK, Effect
    <3>2. CASE ~(v = u /\ j = i)
      <4>1. timerIdMap'[v][j] = timerIdMap[v][j]
        BY <1>1, <1>3, <3>2 DEF TypeOK
      <4>2. timerIdMap[v][j] \in alive \ leaked /\ owner[timerIdMap[v][j]] = << v, j >>
        BY <2>1, <4>1 DEF NoDanglingTimer
      <4>3. timerIdMap[v][j] \notin old
        BY <1>4, <3>2, <4>2
      <4> QED
        BY <1>6, <4>1, <4>2, <4>3 DEF Effect
    <3> QED
      BY <3>1, <3>2
  <2>2. ASSUME recalculationTimerIdMap'[v] # NoTimer
        PROVE  /\ recalculationTimerIdMap'[v] \in alive' \ leaked'
               /\ owner'[recalculationTimerIdMap'[v]] = << v, RECALCULATION >>
    <3>1. recalculationTimerIdMap[v] \in alive \ leaked
          /\ owner[recalculationTimerIdMap[v]] = << v, RECALCULATION >>
      BY <1>2, <2>2 DEF NoDanglingTimer
    <3>2. recalculationTimerIdMap[v] \notin old
      BY <1>2, <1>4, <3>1 DEF Index
    <3> QED
      BY <1>2, <1>6, <3>1, <3>2 DEF Effect
  <2> QED
    BY <2>1, <2>2
<1>9. NoOrphanTimer'
  <2> SUFFICES ASSUME NEW x \in alive', x \notin leaked'
               PROVE  x \in Referenced'
    BY DEF NoOrphanTimer
  <2>1. CASE x = id
    <3>1. timerIdMap'[u][i] = id
      BY <1>1, <1>2, <1>3 DEF TypeOK
    <3> QED
      BY <1>2, <1>3, <2>1, <3>1 DEF Referenced
  <2>2. CASE x # id
    <3>1. x \in alive /\ x \notin old /\ x \notin leaked
      BY <1>6, <2>2 DEF Effect
    <3>2. x \in Referenced
      BY <3>1 DEF NoOrphanTimer
    <3>3. CASE \E v \in Users, j \in Index : x = timerIdMap[v][j]
      <4>1. PICK v \in Users, j \in Index : x = timerIdMap[v][j]
        BY <3>3
      <4>2. CASE v = u /\ j = i
        BY <3>1, <4>1, <4>2, AlarmTimerManagerAssumption DEF TypeOK
      <4>3. CASE ~(v = u /\ j = i)
        BY <1>1, <1>3, <4>1, <4>3 DEF TypeOK, Referenced
      <4> QED
        BY <4>2, <4>3
    <3>4. CASE \E v \in Users : x = recalculationTimerIdMap[v]
      BY <1>2, <3>4 DEF Referenced
    <3> QED
      BY <3>2, <3>3, <3>4 DEF Referenced
  <2> QED
    BY <2>1, <2>2
<1>10. EveryTimerRestartable'
  BY <1>2 DEF EveryTimerRestartable
<1>11. OpInv'
  BY <1>2, <1>3 DEF OpInv, Idle, TypeOK, Index
<1>12. TimersInv'
  <2> SUFFICES ASSUME NEW v \in Users
               PROVE  /\ v \notin timerKeys' => \A j \in Index : timerIdMap'[v][j] = NoTimer
                      /\ (v \in timerKeys' /\ v # owed' /\ v # op'.user)
                            => \A j \in Index : timerIdMap'[v][j] # NoTimer
    BY DEF TimersInv
  <2>1. v # u => timerIdMap'[v] = timerIdMap[v]
    BY <1>1 DEF TypeOK
  <2> QED
    BY <1>2, <1>3, <2>1 DEF TimersInv
<1>13. (leaked \subseteq alive)'
  BY <1>6 DEF Effect
<1> QED
  BY <1>13, <1>7, <1>8, <1>9, <1>10, <1>11, <1>12

\* SetScheduleTime returns; a missing timer leaves the caller to clear the user.
LEMMA SetScheduleTimeReturnStep ==
    ASSUME IInv, SetScheduleTimeReturn
    PROVE  IInv'
<1> USE DEF IInv, maps, service
<1>1. /\ op.user \in Users /\ op.user \in timerKeys /\ owed = NoUser
      /\ op' = Idle /\ op'.user = NoUser
      /\ owed' = IF TimerMissing(op.user) THEN op.user ELSE NoUser
      /\ UNCHANGED << timerIdMap, timerKeys, initialSetupTimeMap, setupKeys,
                      recalculationTimerIdMap, alive, owner, trigger, leaked, now >>
  BY DEF SetScheduleTimeReturn, OpInv, Idle, TypeOK
<1> HIDE DEF maps, service
<1>2. TypeOK'
  BY <1>1 DEF TypeOK, Idle
<1>3. (leaked \subseteq alive /\ NoDanglingTimer)'
  BY <1>1 DEF NoDanglingTimer
<1>6. (NoOrphanTimer /\ EveryTimerRestartable)'
  BY <1>1 DEF NoOrphanTimer, Referenced, EveryTimerRestartable
<1>4. OpInv'
  BY <1>1 DEF OpInv
<1>5. TimersInv'
  BY <1>1, AlarmTimerManagerAssumption DEF TimersInv, TimerMissing
<1> QED
  BY <1>2, <1>3, <1>4, <1>5, <1>6

\* ClearTimerByUserId erases all three entries of a user.
LEMMA ClearTimerByUserIdStep ==
    ASSUME IInv, NEW u \in Users, ClearTimerByUserId(u)
    PROVE  IInv'
<1> DEFINE ids == TimersOf(u) \ {NoTimer}
<1>1. /\ timerIdMap' = [timerIdMap EXCEPT ![u] = NoTimers]
      /\ timerKeys' = timerKeys \ {u} /\ setupKeys' = setupKeys \ {u}
      /\ recalculationTimerIdMap' = [recalculationTimerIdMap EXCEPT ![u] = NoTimer]
      /\ initialSetupTimeMap' = [initialSetupTimeMap EXCEPT ![u] = NoSetup]
      /\ owed' = IF owed = u THEN NoUser ELSE owed
      /\ op = Idle /\ op' = op /\ now' = now
  BY DEF ClearTimerByUserId, SetupKeysWithout, MutexFree
<1>2. PICK failed \in SUBSET ids : ClearTimers(ids, failed)
  BY DEF ClearTimerByUserId
<1>3. /\ ids \subseteq alive \ leaked
      /\ \A x \in ids : owner[x] = << u, RECALCULATION >> \/ \E i \in Index : owner[x] = << u, i >>
  <2> SUFFICES ASSUME NEW x \in ids
               PROVE  /\ x \in alive \ leaked
                      /\ owner[x] = << u, RECALCULATION >> \/ \E i \in Index : owner[x] = << u, i >>
    OBVIOUS
  <2>1. CASE \E i \in Index : x = timerIdMap[u][i]
    BY <2>1 DEF IInv, NoDanglingTimer
  <2>2. CASE x = recalculationTimerIdMap[u]
    BY <2>2 DEF IInv, NoDanglingTimer
  <2> QED
    BY <2>1, <2>2 DEF TimersOf
<1>4. Effect(ids, NoTimer, NoUser, 0)
  <2> HIDE DEF ids
  <2> QED
    BY <1>2, <1>3, ClearTimersEffect DEF IInv
<1>5. TypeOK'
  BY <1>1, <1>4 DEF IInv, TypeOK, Effect, NoTimers, NoSetup
<1>6. (leaked \subseteq alive)'
  BY <1>4 DEF Effect
<1>7. NoDanglingTimer'
  <2> SUFFICES ASSUME NEW v \in Users, v # u
               PROVE  /\ \A j \in Index : timerIdMap[v][j] # NoTimer =>
                            /\ timerIdMap[v][j] \in alive' \ leaked'
                            /\ owner'[timerIdMap[v][j]] = << v, j >>
                      /\ recalculationTimerIdMap[v] # NoTimer =>
                            /\ recalculationTimerIdMap[v] \in alive' \ leaked'
                            /\ owner'[recalculationTimerIdMap[v]] = << v, RECALCULATION >>
    BY <1>1 DEF IInv, TypeOK, NoDanglingTimer, NoTimers
  <2>1. ASSUME NEW j \in Index, timerIdMap[v][j] # NoTimer
        PROVE  /\ timerIdMap[v][j] \in (alive \ leaked) \ ids
               /\ owner[timerIdMap[v][j]] = << v, j >>
    <3>1. timerIdMap[v][j] \in alive \ leaked /\ owner[timerIdMap[v][j]] = << v, j >>
      BY <2>1 DEF IInv, NoDanglingTimer
    <3> HIDE DEF ids
    <3> QED
      BY <1>3, <3>1 DEF Index
  <2>2. ASSUME recalculationTimerIdMap[v] # NoTimer
        PROVE  /\ recalculationTimerIdMap[v] \in (alive \ leaked) \ ids
               /\ owner[recalculationTimerIdMap[v]] = << v, RECALCULATION >>
    <3>1. recalculationTimerIdMap[v] \in alive \ leaked
          /\ owner[recalculationTimerIdMap[v]] = << v, RECALCULATION >>
      BY <2>2 DEF IInv, NoDanglingTimer
    <3> HIDE DEF ids
    <3> QED
      BY <1>3, <3>1 DEF Index
  <2> HIDE DEF ids
  <2> QED
    BY <1>4, <2>1, <2>2 DEF Effect
<1>8. NoOrphanTimer'
  <2> SUFFICES ASSUME NEW x \in alive', x \notin leaked'
               PROVE  x \in Referenced'
    BY DEF NoOrphanTimer
  <2>1. x \in alive /\ x \notin ids /\ x \notin leaked /\ x # NoTimer
    <3> HIDE DEF ids
    <3> QED
      BY <1>4, AlarmTimerManagerAssumption DEF Effect, IInv, TypeOK
  <2>2. x \in Referenced
    BY <2>1 DEF IInv, NoOrphanTimer
  <2>3. \E v \in Users \ {u} : (\E j \in Index : x = timerIdMap[v][j])
                                    \/ x = recalculationTimerIdMap[v]
    BY <2>1, <2>2 DEF Referenced, TimersOf
  <2> QED
    BY <1>1, <2>3 DEF Referenced, IInv, TypeOK
<1>9. EveryTimerRestartable'
  BY <1>1 DEF IInv, EveryTimerRestartable
<1>10. OpInv'
  BY <1>1 DEF IInv, OpInv
<1>11. TimersInv'
  <2>1. op.user = NoUser /\ op'.user = NoUser /\ u # NoUser
    BY <1>1, AlarmTimerManagerAssumption DEF Idle
  <2>2. \A v \in Users : timerIdMap'[v] = IF v = u THEN NoTimers ELSE timerIdMap[v]
    BY <1>1 DEF IInv, TypeOK
  <2> QED
    BY <1>1, <2>1, <2>2, AlarmTimerManagerAssumption DEF IInv, TimersInv, NoTimers
<1> QED
  BY <1>5, <1>6, <1>7, <1>8, <1>9, <1>10, <1>11 DEF IInv

\* SetRecalculationTimer fills an empty entry of recalculationTimerIdMap_.
LEMMA SetRecalculationTimerStep ==
    ASSUME IInv, NEW u \in Users, SetRecalculationTimer(u)
    PROVE  IInv'
<1>1. /\ recalculationTimerIdMap[u] = NoTimer
      /\ UNCHANGED << timerIdMap, timerKeys, initialSetupTimeMap, setupKeys, op, owed, now >>
  BY DEF SetRecalculationTimer
<1>2. PICK id \in TimerIds \cup {NoTimer} :
            /\ InitTimer(id, {}, {}, u, RECALCULATION, now + DAY_TO_SECOND)
            /\ recalculationTimerIdMap' = [recalculationTimerIdMap EXCEPT ![u] = id]
  BY DEF SetRecalculationTimer
<1>3. now + DAY_TO_SECOND \in Int
  BY DayType, AlarmTimerManagerAssumption DEF IInv, TypeOK
<1>4. Effect({}, id, u, RECALCULATION)
  <2>1. Effect({} \cup {}, id, u, RECALCULATION)
    <3> DEFINE time == now + DAY_TO_SECOND
               none == {}
    <3>1. /\ none \subseteq alive \ leaked /\ none \cap none = {} /\ time \in Int
          /\ RECALCULATION \in Index \cup {RECALCULATION}
          /\ InitTimer(id, none, none, u, RECALCULATION, time)
          /\ TypeOK /\ leaked \subseteq alive
      BY <1>2, <1>3 DEF IInv
    <3> HIDE DEF time, none
    <3>2. Effect(none \cup none, id, u, RECALCULATION)
      BY <3>1, InitTimerEffect, Zenon
    <3> QED
      BY <3>2, Zenon DEF none
  <2>2. {} \cup {} = {}
    OBVIOUS
  <2> QED
    BY <2>1, <2>2, Zenon
<1>5. TypeOK'
  BY <1>1, <1>2, <1>4 DEF IInv, TypeOK, Effect
<1>6. (leaked \subseteq alive)'
  BY <1>4 DEF Effect
<1>7. NoDanglingTimer'
  <2> SUFFICES ASSUME NEW v \in Users
               PROVE  /\ \A j \in Index : timerIdMap[v][j] # NoTimer =>
                            /\ timerIdMap[v][j] \in alive' \ leaked'
                            /\ owner'[timerIdMap[v][j]] = << v, j >>
                      /\ recalculationTimerIdMap'[v] # NoTimer =>
                            /\ recalculationTimerIdMap'[v] \in alive' \ leaked'
                            /\ owner'[recalculationTimerIdMap'[v]] = << v, RECALCULATION >>
    BY <1>1 DEF NoDanglingTimer
  <2>1. \A j \in Index : timerIdMap[v][j] # NoTimer =>
            timerIdMap[v][j] \in alive' \ leaked' /\ owner'[timerIdMap[v][j]] = << v, j >>
    BY <1>4 DEF IInv, NoDanglingTimer, Effect
  <2>2. CASE v = u
    BY <1>2, <1>4, <2>1, <2>2 DEF IInv, TypeOK, Effect
  <2>3. CASE v # u
    <3>1. recalculationTimerIdMap'[v] = recalculationTimerIdMap[v]
      BY <1>2, <2>3 DEF IInv, TypeOK
    <3> QED
      BY <1>4, <2>1, <3>1 DEF IInv, NoDanglingTimer, Effect
  <2> QED
    BY <2>2, <2>3
<1>8. NoOrphanTimer'
  <2> SUFFICES ASSUME NEW x \in alive', x \notin leaked'
               PROVE  x \in Referenced'
    BY DEF NoOrphanTimer
  <2>1. CASE x = id
    BY <1>2, <2>1 DEF IInv, TypeOK, Referenced
  <2>2. CASE x # id
    <3>1. x \in Referenced /\ x # NoTimer
      BY <1>4, <2>2, AlarmTimerManagerAssumption DEF Effect, IInv, TypeOK, NoOrphanTimer
    <3> QED
      BY <1>1, <1>2, <3>1 DEF Referenced, IInv, TypeOK
  <2> QED
    BY <2>1, <2>2
<1>9. (EveryTimerRestartable /\ OpInv /\ TimersInv)'
  BY <1>1 DEF IInv, EveryTimerRestartable, OpInv, TimersInv
<1> QED
  BY <1>5, <1>6, <1>7, <1>8, <1>9 DEF IInv

\* ClearRecalculationTimer erases the entry along with the timer.
LEMMA ClearRecalculationTimerStep ==
    ASSUME IInv, NEW u \in Users, ClearRecalculationTimer(u)
    PROVE  IInv'
<1> DEFINE ids == {recalculationTimerIdMap[u]}
<1>1. /\ recalculationTimerIdMap[u] # NoTimer
      /\ recalculationTimerIdMap' = [recalculationTimerIdMap EXCEPT ![u] = NoTimer]
      /\ UNCHANGED << timerIdMap, timerKeys, initialSetupTimeMap, setupKeys, op, owed, now >>
  BY DEF ClearRecalculationTimer
<1>2. PICK failed \in SUBSET ids : ClearTimers(ids, failed)
  BY DEF ClearRecalculationTimer
<1>3. ids \subseteq alive \ leaked /\ \A x \in ids : owner[x] = << u, RECALCULATION >>
  BY <1>1 DEF IInv, NoDanglingTimer
<1>4. Effect(ids, NoTimer, NoUser, 0)
  <2> HIDE DEF ids
  <2> QED
    BY <1>2, <1>3, ClearTimersEffect DEF IInv
<1>5. TypeOK'
  BY <1>1, <1>4 DEF IInv, TypeOK, Effect
<1>6. (leaked \subseteq alive)'
  BY <1>4 DEF Effect
<1>7. NoDanglingTimer'
  <2> SUFFICES ASSUME NEW v \in Users
               PROVE  /\ \A j \in Index : timerIdMap[v][j] # NoTimer =>
                            /\ timerIdMap[v][j] \in alive' \ leaked'
                            /\ owner'[timerIdMap[v][j]] = << v, j >>
                      /\ (v # u /\ recalculationTimerIdMap[v] # NoTimer) =>
                            /\ recalculationTimerIdMap[v] \in alive' \ leaked'
                            /\ owner'[recalculationTimerIdMap[v]] = << v, RECALCULATION >>
    BY <1>1 DEF IInv, TypeOK, NoDanglingTimer
  <2>1. ASSUME NEW j \in Index, timerIdMap[v][j] # NoTimer
        PROVE  timerIdMap[v][j] \in (alive \ leaked) \ ids /\ owner[timerIdMap[v][j]] = << v, j >>
    <3>1. timerIdMap[v][j] \in alive \ leaked /\ owner[timerIdMap[v][j]] = << v, j >>
      BY <2>1 DEF IInv, NoDanglingTimer
    <3> HIDE DEF ids
    <3> QED
      BY <1>3, <3>1 DEF Index
  <2>2. ASSUME v # u, recalculationTimerIdMap[v] # NoTimer
        PROVE  /\ recalculationTimerIdMap[v] \in (alive \ leaked) \ ids
               /\ owner[recalculationTimerIdMap[v]] = << v, RECALCULATION >>
    <3>1. recalculationTimerIdMap[v] \in alive \ leaked
          /\ owner[recalculationTimerIdMap[v]] = << v, RECALCULATION >>
      BY <2>2 DEF IInv, NoDanglingTimer
    <3> HIDE DEF ids
    <3> QED
      BY <1>3, <2>2, <3>1
  <2> HIDE DEF ids
  <2> QED
    BY <1>4, <2>1, <2>2 DEF Effect
<1>8. NoOrphanTimer'
  <2> SUFFICES ASSUME NEW x \in alive', x \notin leaked'
               PROVE  x \in Referenced'
    BY DEF NoOrphanTimer
  <2>1. x \in alive /\ x \notin ids /\ x \notin leaked /\ x # NoTimer
    <3> HIDE DEF ids
    <3> QED
      BY <1>4, AlarmTimerManagerAssumption DEF Effect, IInv, TypeOK
  <2>2. x \in Referenced
    BY <2>1 DEF IInv, NoOrphanTimer
  <2> QED
    BY <1>1, <2>1, <2>2 DEF Referenced, IInv, TypeOK
<1>9. (EveryTimerRestartable /\ OpInv /\ TimersInv)'
  BY <1>1 DEF IInv, EveryTimerRestartable, OpInv, TimersInv
<1> QED
  BY <1>5, <1>6, <1>7, <1>8, <1>9 DEF IInv

\* Steps that only re-arm timers, or only move the clock.
LEMMA TriggerStep ==
    ASSUME IInv, trigger' \in [TimerIds -> Int], now' \in Clock,
           UNCHANGED << maps, op, owed, alive, owner, leaked >>
    PROVE  IInv'
<1>1. TypeOK'
  BY DEF IInv, TypeOK, maps
<1>2. (leaked \subseteq alive /\ NoDanglingTimer)'
  BY DEF IInv, NoDanglingTimer, maps
<1>3. (NoOrphanTimer /\ EveryTimerRestartable)'
  BY DEF IInv, NoOrphanTimer, Referenced, EveryTimerRestartable, maps
<1>4. (OpInv /\ TimersInv)'
  BY DEF IInv, OpInv, TimersInv, maps
<1> QED
  BY <1>1, <1>2, <1>3, <1>4 DEF IInv

\* Restarting re-arms timers at whole seconds and touches no map.
LEMMA RestartAllTimerStep ==
    ASSUME IInv, RestartAllTimer
    PROVE  IInv'
<1>1. UNCHANGED << maps, op, owed, alive, owner, leaked, now >> /\ now \in Clock
  BY DEF RestartAllTimer, IInv, TypeOK
<1>2. ASSUME NEW u \in Users
      PROVE  SetTimerTriggerTime(initialSetupTimeMap[u][1], initialSetupTimeMap[u][2], now)
                \in Int \X Int
  <2>1. /\ initialSetupTimeMap[u][1] \in Int /\ initialSetupTimeMap[u][2] \in Int
        /\ now \in Int
    BY AlarmTimerManagerAssumption DEF IInv, TypeOK, NoSetup
  <2> QED
    BY <2>1, TriggerType
<1>3. PICK failed \in SUBSET alive :
        trigger' = [id \in TimerIds |->
            LET u == owner[id][1]
                i == owner[id][2]
            IN  IF u \in Restarted /\ i \in Index /\ id = timerIdMap[u][i]
                THEN IF id \in failed THEN 0
                     ELSE SetTimerTriggerTime(initialSetupTimeMap[u][1],
                                              initialSetupTimeMap[u][2], now)[i]
                ELSE trigger[id]]
  BY DEF RestartAllTimer
<1>4. Restarted \subseteq Users
  BY DEF Restarted, IInv, TypeOK
<1>5. ASSUME NEW id \in TimerIds PROVE trigger'[id] \in Int
  <2>1. CASE owner[id][1] \in Restarted /\ owner[id][2] \in Index
    <3>1. SetTimerTriggerTime(initialSetupTimeMap[owner[id][1]][1],
                              initialSetupTimeMap[owner[id][1]][2], now)[owner[id][2]] \in Int
      BY <1>2, <1>4, <2>1 DEF Index
    <3> QED
      BY <1>3, <3>1 DEF IInv, TypeOK
  <2>2. CASE ~(owner[id][1] \in Restarted /\ owner[id][2] \in Index)
    BY <1>3, <2>2 DEF IInv, TypeOK
  <2> QED
    BY <2>1, <2>2
<1>6. trigger' \in [TimerIds -> Int]
  <2>1. trigger' = [id \in TimerIds |-> trigger'[id]]
    BY <1>3, Zenon
  <2> QED
    BY <1>5, <2>1
<1> QED
  BY <1>1, <1>6, TriggerStep

\* Every step of the manager, the time service or the clock preserves IInv.
LEMMA NextIInv == IInv /\ [Next]_vars => IInv'
<1> SUFFICES ASSUME IInv, [Next]_vars PROVE IInv'
  OBVIOUS
<1>1. ASSUME NEW u \in Users, NEW s \in Schedules, SetScheduleTime(u, s) PROVE IInv'
  BY <1>1, SetScheduleTimeStep
<1>2. CASE SetTimer
  BY <1>2, SetTimerStep
<1>3. CASE SetScheduleTimeReturn
  BY <1>3, SetScheduleTimeReturnStep
<1>4. ASSUME NEW u \in Users, ClearTimerByUserId(u) PROVE IInv'
  BY <1>4, ClearTimerByUserIdStep
<1>5. ASSUME NEW u \in Users, SetRecalculationTimer(u) PROVE IInv'
  BY <1>5, SetRecalculationTimerStep
<1>6. ASSUME NEW u \in Users, ClearRecalculationTimer(u) PROVE IInv'
  BY <1>6, ClearRecalculationTimerStep
<1>7. CASE RestartAllTimer
  BY <1>7, RestartAllTimerStep
<1>8. ASSUME NEW id \in TimerIds, Fire(id) PROVE IInv'
  <2>1. trigger' \in [TimerIds -> Int] /\ now' \in Clock
    BY <1>8, DayType DEF Fire, IInv, TypeOK
  <2> QED
    BY <1>8, <2>1, TriggerStep DEF Fire
<1>9. CASE SetClock
  <2>1. trigger' \in [TimerIds -> Int] /\ now' \in Clock
    BY <1>9 DEF SetClock, service, IInv, TypeOK
  <2> QED
    BY <1>9, <2>1, TriggerStep DEF SetClock, service
<1>10. CASE UNCHANGED vars
  <2>1. trigger' \in [TimerIds -> Int] /\ now' \in Clock
    BY <1>10 DEF vars, service, IInv, TypeOK
  <2> QED
    BY <1>10, <2>1, TriggerStep DEF vars, service
<1> QED
  BY <1>1, <1>2, <1>3, <1>4, <1>5, <1>6, <1>7, <1>8, <1>9, <1>10, Zenon DEF Next

\* The inductive invariant: the maps and the time service agree, and only the
\* call in progress or its caller may leave a user without one of its timers.
THEOREM SpecIInv == Spec => []IInv
<1> QED
  BY InitIInv, NextIInv, PTL DEF Spec

\* The maps, the time service and the call in progress keep their types.
THEOREM TypeCorrect == Spec => []TypeOK
<1>1. IInv => TypeOK
  BY DEF IInv
<1> QED
  BY <1>1, SpecIInv, PTL

\* RestartTimer and ClearTimer only ever touch timers that exist and belong to
\* the user and role they are filed under (timerIdMap_, recalculationTimerIdMap_).
THEOREM NoDanglingTimerHolds == Spec => []NoDanglingTimer
<1>1. IInv => NoDanglingTimer
  BY DEF IInv
<1> QED
  BY <1>1, SpecIInv, PTL

\* Updating, clearing and failing half-way lose no timer of the time service.
THEOREM NoOrphanTimerHolds == Spec => []NoOrphanTimer
<1>1. IInv => NoOrphanTimer
  BY DEF IInv
<1> QED
  BY <1>1, SpecIInv, PTL

\* A user with timers has the schedule that RestartTimerByUserId looks up.
THEOREM EveryTimerRestartableHolds == Spec => []EveryTimerRestartable
<1>1. IInv => EveryTimerRestartable
  BY DEF IInv
<1> QED
  BY <1>1, SpecIInv, PTL

\* Outside SetScheduleTime and its caller's clean-up, a user has both the start
\* and the end timer or neither, whichever creation failed.
THEOREM BothTimersOrNoneHolds == Spec => []BothTimersOrNone
<1>1. IInv => BothTimersOrNone
  BY AlarmTimerManagerAssumption DEF IInv, TimersInv, BothTimersOrNone, MutexFree,
     StatesMutexFree, Idle
<1> QED
  BY <1>1, SpecIInv, PTL

-----------------------------------------------------------------------------
(* When the timers go off.                                                 *)

\* What the manager has recorded is valid, and what it is about to set are the
\* moments of the schedule recorded.
SetupInv ==
    /\ \A u \in setupKeys : /\ initialSetupTimeMap[u] \in Schedules
                            /\ IsValidScheduleTime(initialSetupTimeMap[u][1], initialSetupTimeMap[u][2])
    /\ op.next \in Index => \A i \in Index :
            SecondOfDay(op.times[i]) = SecondOfDay(initialSetupTimeMap[op.user][i] * MINUTE_TO_SECOND)

TriggerInv == IInv /\ SetupInv /\ TriggerMatchesSchedule

\* Schedules and their parts are numbers.
LEMMA ScheduleType ==
    /\ \A s \in Schedules : /\ s[1] \in 0 .. UINT64_MODULUS - 1 /\ s[2] \in 0 .. UINT64_MODULUS - 1
                            /\ s[1] \in Int /\ s[2] \in Int
    /\ IInv => now \in Int /\ \A u \in Users : initialSetupTimeMap[u][1] \in Int
                                               /\ initialSetupTimeMap[u][2] \in Int
<1>1. ASSUME NEW s \in Schedules
      PROVE  s[1] \in 0 .. UINT64_MODULUS - 1 /\ s[2] \in 0 .. UINT64_MODULUS - 1
  BY AlarmTimerManagerAssumption
<1>2. UINT64_MODULUS \in Nat
  BY ScheduleTimeAssumption
<1>3. ASSUME IInv, NEW u \in Users
      PROVE  initialSetupTimeMap[u][1] \in Int /\ initialSetupTimeMap[u][2] \in Int
  <2>1. initialSetupTimeMap[u] \in Schedules \cup {<< 0, 0 >>}
    BY <1>3 DEF IInv, TypeOK, NoSetup
  <2> QED
    BY <1>1, <1>2, <2>1
<1>4. IInv => now \in Int
  BY AlarmTimerManagerAssumption DEF IInv, TypeOK
<1> QED
  BY <1>1, <1>2, <1>3, <1>4

\* The other timers are left as they are; a new one is set for the time given.
LEMMA ClearTimersTrigger ==
    ASSUME NEW ids, NEW failed, ClearTimers(ids, failed), NEW x \in TimerIds, x \notin ids
    PROVE  trigger'[x] = trigger[x]
BY DEF ClearTimers

LEMMA InitTimerTrigger ==
    ASSUME NEW id, NEW gone, NEW failed, NEW user, NEW role, NEW time,
           InitTimer(id, gone, failed, user, role, time)
    PROVE  /\ id # NoTimer => trigger'[id] = time
           /\ \A x \in (alive \cap TimerIds) \ (gone \cup failed) : trigger'[x] = trigger[x]
<1>1. CASE id = NoTimer /\ ClearTimers(gone \cup failed, failed)
  BY <1>1, ClearTimersTrigger
<1>2. CASE /\ id = NoTimer
           /\ \E x \in TimerIds \ alive :
                trigger' = [y \in TimerIds |-> IF y \in gone THEN 0 ELSE trigger[y]]
  BY <1>2
<1>3. CASE /\ id \in TimerIds \ alive
           /\ trigger' = [y \in TimerIds |-> IF y = id THEN time
                                             ELSE IF y \in gone THEN 0 ELSE trigger[y]]
  BY <1>3
<1> QED
  BY <1>1, <1>2, <1>3 DEF InitTimer

\* A step that leaves the schedules and the call in progress alone, sets no start
\* or end timer, and moves the triggers by whole days at most.
LEMMA SameTriggers ==
    ASSUME TriggerInv, UNCHANGED << initialSetupTimeMap, setupKeys, op >>,
           \A u \in Users, i \in Index :
               \/ timerIdMap'[u][i] = NoTimer
               \/ /\ timerIdMap'[u][i] = timerIdMap[u][i]
                  /\ \/ trigger'[timerIdMap[u][i]] = 0
                     \/ SecondOfDay(trigger'[timerIdMap[u][i]]) =
                            SecondOfDay(initialSetupTimeMap[u][i] * MINUTE_TO_SECOND)
                     \/ trigger'[timerIdMap[u][i]] = trigger[timerIdMap[u][i]]
    PROVE  SetupInv' /\ TriggerMatchesSchedule'
<1>1. SetupInv'
  BY DEF TriggerInv, SetupInv
<1>2. TriggerMatchesSchedule'
  <2> SUFFICES ASSUME NEW u \in Users, NEW i \in Index, timerIdMap'[u][i] # NoTimer,
                      ~(op.user = u /\ op.next <= i)
               PROVE  \/ trigger'[timerIdMap'[u][i]] = 0
                      \/ SecondOfDay(trigger'[timerIdMap'[u][i]])
                            = SecondOfDay(initialSetupTimeMap[u][i] * MINUTE_TO_SECOND)
    BY DEF TriggerMatchesSchedule
  <2>1. \/ trigger[timerIdMap[u][i]] = 0
        \/ SecondOfDay(trigger[timerIdMap[u][i]]) = SecondOfDay(initialSetupTimeMap[u][i] * MINUTE_TO_SECOND)
    BY DEF TriggerInv, TriggerMatchesSchedule
  <2> QED
    BY <2>1
<1> QED
  BY <1>1, <1>2

\* Two entries of the maps are two timers.
LEMMA TimersApart ==
    ASSUME IInv, NEW u \in Users, NEW i \in Index, timerIdMap[u][i] # NoTimer
    PROVE  /\ timerIdMap[u][i] \in alive \cap TimerIds
           /\ \A v \in Users, j \in Index :
                timerIdMap[v][j] = timerIdMap[u][i] => v = u /\ j = i
           /\ \A v \in Users : recalculationTimerIdMap[v] # timerIdMap[u][i]
<1>1. timerIdMap[u][i] \in alive /\ owner[timerIdMap[u][i]] = << u, i >> /\ alive \subseteq TimerIds
  BY DEF IInv, NoDanglingTimer, TypeOK
<1>2. ASSUME NEW v \in Users, NEW j \in Index, timerIdMap[v][j] = timerIdMap[u][i]
      PROVE  v = u /\ j = i
  BY <1>1, <1>2 DEF IInv, NoDanglingTimer
<1>3. ASSUME NEW v \in Users, recalculationTimerIdMap[v] = timerIdMap[u][i]
      PROVE  FALSE
  BY <1>1, <1>3 DEF IInv, NoDanglingTimer, Index
<1> QED
  BY <1>1, <1>2, <1>3

LEMMA SetScheduleTimeTrigger ==
    ASSUME TriggerInv, NEW u \in Users, NEW s \in Schedules, SetScheduleTime(u, s)
    PROVE  SetupInv' /\ TriggerMatchesSchedule'
<1>1. op = Idle /\ op.user = NoUser /\ op.next = 0 /\ u # NoUser /\ UNCHANGED << timerIdMap, trigger >>
  BY AlarmTimerManagerAssumption DEF SetScheduleTime, MutexFree, Idle, service
<1>2. CASE ~IsValidScheduleTime(s[1], s[2])
  BY <1>1, <1>2, SameTriggers DEF SetScheduleTime
<1>3. CASE IsValidScheduleTime(s[1], s[2])
  <2>1. /\ initialSetupTimeMap' = [initialSetupTimeMap EXCEPT ![u] = s]
        /\ setupKeys' = setupKeys \cup {u}
        /\ op' = [user |-> u, next |-> START_INDEX, times |-> SetTimerTriggerTime(s[1], s[2], now)]
    BY <1>3 DEF SetScheduleTime, RecordInitialSetupTime
  <2>2. initialSetupTimeMap'[u] = s /\ \A v \in Users \ {u} : initialSetupTimeMap'[v] = initialSetupTimeMap[v]
    BY <2>1 DEF TriggerInv, IInv, TypeOK
  <2>3. setupKeys \subseteq Users
    BY DEF TriggerInv, IInv, TypeOK
  <2>4. \A i \in Index : SecondOfDay(op'.times[i]) = SecondOfDay(s[i] * MINUTE_TO_SECOND)
    <3>1. s[1] \in Int /\ s[2] \in Int /\ now \in Int
      BY ScheduleType DEF TriggerInv
    <3>2. op'.times = SetTimerTriggerTime(s[1], s[2], now)
      BY <2>1
    <3> QED
      BY <3>1, <3>2, TriggerSecond DEF Index
  <2>5. SetupInv'
    BY <1>3, <2>1, <2>2, <2>3, <2>4 DEF TriggerInv, SetupInv
  <2>6. TriggerMatchesSchedule'
    <3> SUFFICES ASSUME NEW v \in Users, NEW i \in Index, timerIdMap[v][i] # NoTimer,
                        ~(op'.user = v /\ op'.next <= i)
                 PROVE  \/ trigger[timerIdMap[v][i]] = 0
                        \/ SecondOfDay(trigger[timerIdMap[v][i]])
                              = SecondOfDay(initialSetupTimeMap'[v][i] * MINUTE_TO_SECOND)
      BY <1>1 DEF TriggerMatchesSchedule
    <3>1. v # u
      BY <2>1 DEF Index
    <3> QED
      BY <1>1, <2>2, <3>1, AlarmTimerManagerAssumption DEF TriggerInv, TriggerMatchesSchedule
  <2> QED
    BY <2>5, <2>6
<1> QED
  BY <1>2, <1>3

LEMMA SetTimerTrigger ==
    ASSUME TriggerInv, SetTimer
    PROVE  SetupInv' /\ TriggerMatchesSchedule'
<1> DEFINE u == op.user
           i == op.next
           old == {timerIdMap[u][i]} \ {NoTimer}
<1>1. PICK id \in TimerIds \cup {NoTimer}, failed \in SUBSET old :
            /\ InitTimer(id, old \ failed, failed, u, i, op.times[i])
            /\ timerIdMap' = [timerIdMap EXCEPT ![u][i] = id]
  BY DEF SetTimer
<1>2. i \in Index /\ op'.user = u /\ op'.next = i + 1 /\ op'.times = op.times
      /\ UNCHANGED << initialSetupTimeMap, setupKeys >>
  BY DEF SetTimer, TriggerInv, IInv, TypeOK
<1>3. u \in Users
  BY <1>2 DEF TriggerInv, IInv, OpInv, Idle, TypeOK, Index
<1>4. /\ id # NoTimer => trigger'[id] = op.times[i]
      /\ \A x \in (alive \cap TimerIds) \ ((old \ failed) \cup failed) : trigger'[x] = trigger[x]
  <2> DEFINE gone == old \ failed
             time == op.times[i]
  <2>1. InitTimer(id, gone, failed, u, i, time)
    BY <1>1
  <2> HIDE DEF gone, time, u, i, old
  <2>2. /\ id # NoTimer => trigger'[id] = time
        /\ \A x \in (alive \cap TimerIds) \ (gone \cup failed) : trigger'[x] = trigger[x]
    BY <2>1, InitTimerTrigger
  <2> QED
    BY <2>2 DEF gone, time
<1>5. (old \ failed) \cup failed = old
  BY Zenon
<1> HIDE DEF old
<1>6. timerIdMap'[u][i] = id /\ \A v \in Users, j \in Index :
            ~(v = u /\ j = i) => timerIdMap'[v][j] = timerIdMap[v][j]
  BY <1>1, <1>2, <1>3 DEF TriggerInv, IInv, TypeOK
<1>7. SetupInv'
  BY <1>2 DEF TriggerInv, SetupInv, Index
<1>8. TriggerMatchesSchedule'
  <2> SUFFICES ASSUME NEW v \in Users, NEW j \in Index, timerIdMap'[v][j] # NoTimer,
                      ~(op'.user = v /\ op'.next <= j)
               PROVE  \/ trigger'[timerIdMap'[v][j]] = 0
                      \/ SecondOfDay(trigger'[timerIdMap'[v][j]])
                            = SecondOfDay(initialSetupTimeMap[v][j] * MINUTE_TO_SECOND)
    BY <1>2 DEF TriggerMatchesSchedule
  <2>1. CASE v = u /\ j = i
    BY <1>2, <1>4, <1>6, <2>1 DEF TriggerInv, SetupInv
  <2>2. CASE ~(v = u /\ j = i)
    <3>1. timerIdMap[v][j] = timerIdMap'[v][j] /\ timerIdMap[v][j] # NoTimer
      BY <1>6, <2>2
    <3>2. timerIdMap[v][j] \in alive \cap TimerIds /\ timerIdMap[v][j] \notin old
      BY <1>2, <1>3, <2>2, <3>1, TimersApart DEF old, TriggerInv
    <3>3. trigger'[timerIdMap[v][j]] = trigger[timerIdMap[v][j]]
      BY <1>4, <1>5, <3>2
    <3>4. ~(op.user = v /\ op.next <= j)
      BY <1>2, <2>2 DEF Index
    <3> QED
      BY <3>1, <3>3, <3>4 DEF TriggerInv, TriggerMatchesSchedule
  <2> QED
    BY <2>1, <2>2
<1> QED
  BY <1>7, <1>8

LEMMA ReturnTrigger ==
    ASSUME TriggerInv, SetScheduleTimeReturn
    PROVE  SetupInv' /\ TriggerMatchesSchedule'
<1>1. op.next = 3 /\ op'.user = NoUser /\ op'.next = 0
      /\ UNCHANGED << timerIdMap, initialSetupTimeMap, setupKeys, trigger >>
  BY DEF SetScheduleTimeReturn, Idle, maps, service
<1> QED
  BY <1>1, AlarmTimerManagerAssumption DEF TriggerInv, SetupInv, TriggerMatchesSchedule, Index

LEMMA ClearTimerByUserIdTrigger ==
    ASSUME TriggerInv, NEW u \in Users, ClearTimerByUserId(u)
    PROVE  SetupInv' /\ TriggerMatchesSchedule'
<1>1. /\ timerIdMap' = [timerIdMap EXCEPT ![u] = NoTimers]
      /\ initialSetupTimeMap' = [initialSetupTimeMap EXCEPT ![u] = NoSetup]
      /\ setupKeys' = setupKeys \ {u} /\ op = Idle /\ op' = op
  BY DEF ClearTimerByUserId, SetupKeysWithout, MutexFree
<1>2. PICK failed : ClearTimers(TimersOf(u) \ {NoTimer}, failed)
  BY DEF ClearTimerByUserId
<1>3. /\ timerIdMap'[u] = NoTimers
      /\ \A v \in Users \ {u} : timerIdMap'[v] = timerIdMap[v]
                                /\ initialSetupTimeMap'[v] = initialSetupTimeMap[v]
      /\ setupKeys \subseteq Users
  BY <1>1 DEF TriggerInv, IInv, TypeOK
<1>4. SetupInv'
  BY <1>1, <1>3 DEF TriggerInv, SetupInv, Idle, Index
<1>5. TriggerMatchesSchedule'
  <2> SUFFICES ASSUME NEW v \in Users, NEW j \in Index, timerIdMap'[v][j] # NoTimer
               PROVE  \/ trigger'[timerIdMap'[v][j]] = 0
                      \/ SecondOfDay(trigger'[timerIdMap'[v][j]])
                            = SecondOfDay(initialSetupTimeMap'[v][j] * MINUTE_TO_SECOND)
    BY DEF TriggerMatchesSchedule
  <2>1. v # u
    BY <1>3 DEF NoTimers
  <2>2. timerIdMap[v][j] \in alive \cap TimerIds /\ timerIdMap[v][j] \notin TimersOf(u)
    BY <1>3, <2>1, TimersApart DEF TriggerInv, TimersOf
  <2>3. trigger'[timerIdMap[v][j]] = trigger[timerIdMap[v][j]]
    BY <1>2, <2>2, ClearTimersTrigger
  <2> QED
    BY <1>1, <1>3, <2>1, <2>3, AlarmTimerManagerAssumption DEF TriggerInv, TriggerMatchesSchedule, Idle
<1> QED
  BY <1>4, <1>5

LEMMA RecalculationTrigger ==
    ASSUME TriggerInv, NEW u \in Users, SetRecalculationTimer(u) \/ ClearRecalculationTimer(u)
    PROVE  SetupInv' /\ TriggerMatchesSchedule'
<1>1. UNCHANGED << timerIdMap, initialSetupTimeMap, setupKeys, op >>
  BY DEF SetRecalculationTimer, ClearRecalculationTimer
<1>2. ASSUME NEW v \in Users, NEW j \in Index, timerIdMap[v][j] # NoTimer
      PROVE  trigger'[timerIdMap[v][j]] = trigger[timerIdMap[v][j]]
  <2>1. timerIdMap[v][j] \in alive \cap TimerIds /\ timerIdMap[v][j] # recalculationTimerIdMap[u]
    BY <1>2, TimersApart DEF TriggerInv
  <2>2. CASE SetRecalculationTimer(u)
    <3>1. PICK id \in TimerIds \cup {NoTimer} :
              InitTimer(id, {}, {}, u, RECALCULATION, now + DAY_TO_SECOND)
      BY <2>2 DEF SetRecalculationTimer
    <3>2. \A x \in (alive \cap TimerIds) \ ({} \cup {}) : trigger'[x] = trigger[x]
      BY <3>1, InitTimerTrigger
    <3> QED
      BY <2>1, <3>2
  <2>3. CASE ClearRecalculationTimer(u)
    <3>1. PICK failed : ClearTimers({recalculationTimerIdMap[u]}, failed)
      BY <2>3 DEF ClearRecalculationTimer
    <3> QED
      BY <2>1, <3>1, ClearTimersTrigger
  <2> QED
    BY <2>2, <2>3
<1> QED
  BY <1>1, <1>2, SameTriggers

\* Restarting sets a user's timers to moments of the schedule recorded.
LEMMA RestartedTrigger ==
    ASSUME TriggerInv, RestartAllTimer, NEW u \in Users, NEW i \in Index, timerIdMap[u][i] # NoTimer
    PROVE  trigger'[timerIdMap[u][i]] \in
             IF u \in Restarted
             THEN {0, SetTimerTriggerTime(initialSetupTimeMap[u][1], initialSetupTimeMap[u][2], now)[i]}
             ELSE {trigger[timerIdMap[u][i]]}
<1> DEFINE id == timerIdMap[u][i]
<1>1. id \in TimerIds /\ owner[id] = << u, i >>
  BY TimersApart DEF TriggerInv, IInv, NoDanglingTimer
<1>2. PICK failed \in SUBSET alive :
        trigger' = [x \in TimerIds |->
            LET v == owner[x][1]
                j == owner[x][2]
            IN  IF v \in Restarted /\ j \in Index /\ x = timerIdMap[v][j]
                THEN IF x \in failed THEN 0
                     ELSE SetTimerTriggerTime(initialSetupTimeMap[v][1],
                                              initialSetupTimeMap[v][2], now)[j]
                ELSE trigger[x]]
  BY DEF RestartAllTimer
<1>3. owner[id][1] = u /\ owner[id][2] = i
  BY <1>1
<1> QED
  BY <1>1, <1>2, <1>3

LEMMA RestartTrigger ==
    ASSUME TriggerInv, RestartAllTimer
    PROVE  SetupInv' /\ TriggerMatchesSchedule'
<1>1. UNCHANGED << timerIdMap, initialSetupTimeMap, setupKeys, op >>
  BY DEF RestartAllTimer, maps
<1>2. ASSUME NEW u \in Users, NEW i \in Index, timerIdMap[u][i] # NoTimer
      PROVE  \/ trigger'[timerIdMap[u][i]] = 0
             \/ SecondOfDay(trigger'[timerIdMap[u][i]]) =
                    SecondOfDay(initialSetupTimeMap[u][i] * MINUTE_TO_SECOND)
             \/ trigger'[timerIdMap[u][i]] = trigger[timerIdMap[u][i]]
  <2>1. \A j \in Index :
            SecondOfDay(SetTimerTriggerTime(initialSetupTimeMap[u][1], initialSetupTimeMap[u][2], now)[j])
                = SecondOfDay(initialSetupTimeMap[u][j] * MINUTE_TO_SECOND)
    BY ScheduleType, TriggerSecond DEF TriggerInv, Index
  <2> QED
    BY <1>2, <2>1, RestartedTrigger
<1> QED
  BY <1>1, <1>2, SameTriggers

LEMMA FireTrigger ==
    ASSUME TriggerInv, NEW id \in TimerIds, Fire(id)
    PROVE  SetupInv' /\ TriggerMatchesSchedule'
<1>1. /\ UNCHANGED << timerIdMap, initialSetupTimeMap, setupKeys, op >>
      /\ trigger' = [trigger EXCEPT ![id] = trigger[id] + DAY_TO_SECOND]
      /\ trigger \in [TimerIds -> Int] /\ trigger[id] # 0
  BY DEF Fire, maps, TriggerInv, IInv, TypeOK
<1>2. SetupInv'
  BY <1>1 DEF TriggerInv, SetupInv
<1>3. TriggerMatchesSchedule'
  <2> SUFFICES ASSUME NEW u \in Users, NEW i \in Index, timerIdMap[u][i] # NoTimer,
                      ~(op.user = u /\ op.next <= i)
               PROVE  \/ trigger'[timerIdMap[u][i]] = 0
                      \/ SecondOfDay(trigger'[timerIdMap[u][i]])
                            = SecondOfDay(initialSetupTimeMap[u][i] * MINUTE_TO_SECOND)
    BY <1>1 DEF TriggerMatchesSchedule
  <2>1. \/ trigger[timerIdMap[u][i]] = 0
        \/ SecondOfDay(trigger[timerIdMap[u][i]]) = SecondOfDay(initialSetupTimeMap[u][i] * MINUTE_TO_SECOND)
    BY DEF TriggerInv, TriggerMatchesSchedule
  <2>2. CASE timerIdMap[u][i] = id
    BY <1>1, <2>1, <2>2, NextDay
  <2>3. CASE timerIdMap[u][i] # id
    <3>1. timerIdMap[u][i] \in TimerIds
      BY TimersApart DEF TriggerInv
    <3> QED
      BY <1>1, <2>1, <2>3, <3>1
  <2> QED
    BY <2>2, <2>3
<1> QED
  BY <1>2, <1>3

LEMMA NextTriggerInv == TriggerInv /\ [Next]_vars => TriggerInv'
<1> SUFFICES ASSUME TriggerInv, [Next]_vars PROVE SetupInv' /\ TriggerMatchesSchedule'
  BY NextIInv DEF TriggerInv
<1>1. CASE SetClock
  BY <1>1, SameTriggers DEF SetClock, maps, service
<1>2. CASE UNCHANGED vars
  BY <1>2, SameTriggers DEF vars, maps, service
<1> QED
  BY <1>1, <1>2, SetScheduleTimeTrigger, SetTimerTrigger, ReturnTrigger, ClearTimerByUserIdTrigger,
     RecalculationTrigger, RestartTrigger, FireTrigger DEF Next

LEMMA InitTriggerInv == Init => TriggerInv
<1> SUFFICES ASSUME Init PROVE SetupInv /\ TriggerMatchesSchedule
  BY InitIInv DEF TriggerInv
<1> QED
  BY DEF Init, SetupInv, TriggerMatchesSchedule, Idle, Index, NoTimers

LEMMA SpecTriggerInv == Spec => []TriggerInv
BY InitTriggerInv, NextTriggerInv, PTL DEF Spec

\* A running timer goes off at the minute of the day that the schedule recorded
\* for its user says (SetTimerTriggerTime, UpdateTimer, RestartTimerByUserId).
THEOREM TriggerMatchesScheduleHolds == Spec => []TriggerMatchesSchedule
<1>1. TriggerInv => TriggerMatchesSchedule
  BY DEF TriggerInv
<1> QED
  BY <1>1, SpecTriggerInv, PTL

\* RestartAllTimer leaves out no user with timers, and arms them for the coming
\* day in the order in which the schedule changes phase.
THEOREM RestartRearmsAllHolds == Spec => RestartRearmsAll
<1> DEFINE Rearmed ==
        \A u \in timerKeys \ {0} :
            LET t == [i \in Index |-> trigger'[timerIdMap[u][i]]]
                s == initialSetupTimeMap[u]
            IN  (\A i \in Index : timerIdMap[u][i] # NoTimer) =>
                /\ \A i \in Index : t[i] = 0 \/ t[i] \in now .. (now + DAY_TO_SECOND)
                /\ (t[1] # 0 /\ t[2] # 0 /\ t[1] # now) =>
                        (t[2] < t[1] <=> IsWithinTimeInterval(s[1], s[2], now))
<1>1. TriggerInv /\ [Next]_vars => [RestartAllTimer => Rearmed]_vars
  <2> SUFFICES ASSUME TriggerInv, RestartAllTimer, NEW u \in timerKeys \ {0},
                      \A i \in Index : timerIdMap[u][i] # NoTimer,
                      NEW t, t = [i \in Index |-> trigger'[timerIdMap[u][i]]],
                      NEW s, s = initialSetupTimeMap[u]
               PROVE  /\ \A i \in Index : t[i] = 0 \/ t[i] \in now .. (now + DAY_TO_SECOND)
                      /\ (t[1] # 0 /\ t[2] # 0 /\ t[1] # now) =>
                              (t[2] < t[1] <=> IsWithinTimeInterval(s[1], s[2], now))
    OBVIOUS
  <2>1. u \in Users /\ u \in Restarted
    BY DEF TriggerInv, IInv, TypeOK, EveryTimerRestartable, Restarted, Restartable
  <2>2. s[1] \in 0 .. UINT64_MODULUS - 1 /\ s[2] \in 0 .. UINT64_MODULUS - 1 /\ now \in Int
        /\ IsValidScheduleTime(s[1], s[2])
    BY <2>1, ScheduleType DEF TriggerInv, SetupInv, IInv, EveryTimerRestartable
  <2> DEFINE r == SetTimerTriggerTime(s[1], s[2], now)
  <2>3. /\ r[1] \in now .. now + DAY_TO_SECOND /\ r[2] \in now .. now + DAY_TO_SECOND
        /\ r[1] # now => (r[2] < r[1] <=> IsWithinTimeInterval(s[1], s[2], now))
    BY <2>2, TriggerOrder
  <2>4. \A i \in Index : t[i] \in {0, r[i]}
    BY <2>1, RestartedTrigger
  <2> HIDE DEF r
  <2> QED
    BY <2>3, <2>4 DEF Index
<1> QED
  BY <1>1, SpecTriggerInv, PTL DEF Spec, RestartRearmsAll
=============================================================================
