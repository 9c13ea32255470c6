----------------------- MODULE DarkModeThreadsProofs -----------------------
(***************************************************************************)
(* What the threads of DarkModeManager keep together, for any settings and *)
(* any number of events: mutual exclusion, the timers of the state in      *)
(* memory, a manual choice that is saved, one colour in three places; and  *)
(* that threads never wait for each other's mutexes in a circle.           *)
(***************************************************************************)
EXTENDS DarkModeThreads, Locking, WellFoundedInduction, TLAPS

-----------------------------------------------------------------------------
(* Types.                                                                  *)

ModeNames == {"ALWAYS_LIGHT", "ALWAYS_DARK", "CUSTOM_AUTO"}
Settings == [mode : ModeNames, time : Times]
PCs == {"idle", "observe", "read", "load", "check", "restart", "have", "queue", "screen", "now",
        "later", "enqueue", "configuration", "switch", "choose", "save", "saveMode", "saveWindow",
        "usersParam", "param", "notify", "normal", "within", "get", "dequeue", "rearm"}
Records == [pc : PCs, dark : BOOLEAN, value : Nat \cup ModeNames \cup Settings, reset : BOOLEAN,
            boot : BOOLEAN, then : {"finish", "rearm", "dequeue"}]

\* What a thread t has read is what it needs at its place.
HasRead(t, r) ==
    /\ t = "mode" /\ r.pc = "observe" => r.value \in ModeNames
    /\ t = "time" /\ r.pc = "observe" => r.value \in Times
    /\ t = "event" /\ r.pc = "load" => r.value \in Settings
    /\ r.pc \in {"saveMode", "saveWindow"} => r.value \in Nat

ThreadsOK ==
    /\ thread \in [Threads -> Records]
    /\ \A t \in Threads : HasRead(t, thread[t])
    /\ mutex \in Threads \cup {Free}
    /\ \A key \in Keys : thread[key].pc \notin Waiting => mutex = key

DataOK ==
    /\ boundaries \in Nat /\ changes \in 0 .. CHANGES
    /\ table \in Settings
    /\ told \subseteq Keys /\ phase \in {"booting", "registered", "left"}
    /\ state \in [mode : ModeNames \cup {"INVALID"}, time : Times \cup {Unset}]
    /\ armed \in Times \cup {Unset} /\ fired \in Times \cup {Unset}
    /\ screenOff \in BOOLEAN /\ queue \in {"NONE", "SWITCH_TO_LIGHT", "SWITCH_TO_DARK"}
    /\ temp \in Nat /\ tempParam \in [mode : {"Normal", "Temp"}, until : Nat]
    /\ color \in [Places -> BOOLEAN]
    /\ clean \in BOOLEAN /\ torn \in BOOLEAN /\ stale \subseteq Keys

Base == ThreadsOK /\ DataOK

\* Schedules are numbers.
LEMMA TimesType == Times \subseteq Nat \ {0} /\ Modes \subseteq ModeNames
BY DarkModeThreadsAssumption DEF ModeNames

LEMMA TimeType == \A time \in Times \cup {Unset} : time \in Nat
BY TimesType DEF Unset

LEMMA IdleType == Idle \in Records /\ Idle.pc = "idle" /\ \A t \in Threads : HasRead(t, Idle)
BY DEF Idle, Records, HasRead, PCs, Unset

\* One thread goes on, and neither takes the mutex from another one nor goes
\* without it where it needs it.
LEMMA ThreadChange ==
    ASSUME ThreadsOK, NEW t \in Threads, NEW r \in Records, HasRead(t, r),
           thread' = [thread EXCEPT ![t] = r],
           \/ mutex' = mutex /\ (t \in Keys /\ r.pc \notin Waiting => mutex = t)
           \/ mutex = Free /\ mutex' = t
           \/ mutex = t /\ mutex' = Free /\ r.pc \in Waiting
    PROVE  /\ ThreadsOK'
           /\ \A u \in Threads : thread'[u] = IF u = t THEN r ELSE thread[u]
<1>1. thread' \in [Threads -> Records] /\ \A u \in Threads : thread'[u] = IF u = t THEN r ELSE thread[u]
  BY DEF ThreadsOK
<1>2. \A u \in Threads : HasRead(u, thread'[u])
  BY <1>1, Zenon DEF ThreadsOK
<1>3. mutex' \in Threads \cup {Free}
  BY DEF ThreadsOK
<1>4. ASSUME NEW key \in Keys, thread'[key].pc \notin Waiting PROVE mutex' = key
  <2>1. key \in Threads /\ key # Free
    BY DEF Threads, Keys, Free
  <2>2. CASE key = t
    BY <1>1, <1>4, <2>1, <2>2
  <2>3. CASE key # t
    <3>1. mutex = key
      BY <1>1, <1>4, <2>1, <2>3 DEF ThreadsOK
    <3> QED
      BY <2>1, <2>3, <3>1
  <2> QED
    BY <2>2, <2>3
<1>5. (\A u \in Threads : HasRead(u, thread[u]))'
  BY <1>2 DEF HasRead
<1> QED
  BY <1>1, <1>3, <1>4, <1>5 DEF ThreadsOK

\* A step that only moves on.
LEMMA GoOn ==
    ASSUME ThreadsOK, NEW t \in Threads, NEW pc \in PCs, Goto(t, pc), mutex' = mutex,
           pc \in {"saveMode", "saveWindow"} => thread[t].value \in Nat,
           pc \notin {"observe", "load"},
           t \in Keys => thread[t].pc \notin Waiting
    PROVE  /\ ThreadsOK'
           /\ \A u \in Threads : thread'[u] = IF u = t THEN [thread[t] EXCEPT !.pc = pc] ELSE thread[u]
           /\ thread'[t] = [thread[t] EXCEPT !.pc = pc]
<1> DEFINE r == [thread[t] EXCEPT !.pc = pc]
<1>1. thread[t] \in Records
  BY DEF ThreadsOK
<1>2. r \in Records /\ r.pc = pc /\ r.value = thread[t].value
  BY <1>1 DEF Records
<1>3. thread' = [thread EXCEPT ![t] = r]
  BY DEF Goto
<1>4. HasRead(t, r)
  BY <1>2 DEF HasRead
<1>5. t \in Keys => mutex = t
  BY DEF ThreadsOK
<1> HIDE DEF r
<1>6. ThreadsOK' /\ \A u \in Threads : thread'[u] = IF u = t THEN r ELSE thread[u]
  BY <1>2, <1>3, <1>4, <1>5, ThreadChange
<1> QED
  BY <1>6 DEF r

\* A step that ends.
LEMMA Ends ==
    ASSUME ThreadsOK, NEW t \in Threads, thread' = [thread EXCEPT ![t] = Idle],
           mutex' = mutex \/ mutex' = IF mutex = t THEN Free ELSE mutex
    PROVE  /\ ThreadsOK'
           /\ \A u \in Threads : thread'[u] = IF u = t THEN Idle ELSE thread[u]
           /\ thread'[t] = Idle
<1>1. Idle \in Records /\ HasRead(t, Idle) /\ Idle.pc \in Waiting
  BY IdleType DEF Waiting
<1>2. \/ mutex' = mutex /\ (t \in Keys /\ Idle.pc \notin Waiting => mutex = t)
      \/ mutex = t /\ mutex' = Free /\ Idle.pc \in Waiting
  BY <1>1
<1>3. /\ ThreadsOK'
      /\ \A u \in Threads : thread'[u] = IF u = t THEN Idle ELSE thread[u]
  BY <1>1, <1>2, ThreadChange
<1> QED
  BY <1>3

\* The end of a decision: of the handler, or of a part of it.
LEMMA IsDone ==
    ASSUME ThreadsOK, NEW t \in Threads, Done(t), thread[t].pc \notin Waiting
    PROVE  /\ ThreadsOK' /\ \A u \in Threads \ {t} : thread'[u] = thread[u]
           /\ \/ thread'[t] = Idle
              \/ /\ thread[t].then \in {"rearm", "dequeue"}
                 /\ thread'[t] = [thread[t] EXCEPT !.pc = thread[t].then]
<1>1. thread[t].then \in {"finish", "rearm", "dequeue"}
  BY DEF ThreadsOK, Records
<1>2. CASE thread[t].then = "finish"
  <2>1. thread' = [thread EXCEPT ![t] = Idle] /\ mutex' = IF mutex = t THEN Free ELSE mutex
    BY <1>2 DEF Done
  <2> QED
    BY <2>1, Ends
<1>3. CASE thread[t].then \in {"rearm", "dequeue"}
  <2>1. Goto(t, thread[t].then) /\ mutex' = mutex
    BY <1>3 DEF Done
  <2>2. thread[t].then \in PCs /\ thread[t].then \notin {"saveMode", "saveWindow", "observe", "load"}
    BY <1>3 DEF PCs
  <2> QED
    BY <1>3, <2>1, <2>2, GoOn
<1> QED
  BY <1>1, <1>2, <1>3

LEMMA BaseType == Base => TypeOK
<1>1. \A S : {armed, fired} \subseteq S <=> armed \in S /\ fired \in S
  OBVIOUS
<1> QED
  BY <1>1 DEF Base, ThreadsOK, DataOK, TypeOK, Settings, ModeNames

-----------------------------------------------------------------------------
(* The steps of UpdateDarkModeSchedule: what each does to its thread, and    *)
(* that all keep the types.                                                *)

LEMMA UpdateShape ==
    ASSUME Base, NEW t \in Threads, UpdateDarkModeSchedule(t)
    PROVE  /\ ThreadsOK' /\ \A u \in Threads \ {t} : thread'[u] = thread[u]
           /\ thread[t].pc \notin Waiting
           /\ \/ thread'[t] = Idle
              \/ thread'[t].pc \notin Waiting /\ thread'[t] = [thread[t] EXCEPT !.pc = thread'[t].pc]
              \/ /\ thread[t].pc = "save" /\ temp \in Nat
                 /\ thread'[t] = [thread[t] EXCEPT !.pc = "saveMode", !.value = temp]
<1> USE DEF Base
<1> DEFINE Shape ==
        /\ ThreadsOK' /\ \A u \in Threads \ {t} : thread'[u] = thread[u]
        /\ \/ thread'[t] = Idle
           \/ thread'[t].pc \notin Waiting /\ thread'[t] = [thread[t] EXCEPT !.pc = thread'[t].pc]
<1>1. thread[t].pc \notin Waiting
  BY DEF UpdateDarkModeSchedule, ResetScreenOffOperateInfo, IsScreenOff, CheckTemporaryStateEffective,
         SetScreenOffOperateInfo, UpdateConfiguration, ConfigurePersistence, SetColor, SetColorModeNormal,
         CopyTempColorModeInfo, SaveTempColorMode, SaveTempWindow, At, Waiting
<1>2. thread[t] \in Records
  BY DEF ThreadsOK
<1>3. ASSUME Done(t) PROVE Shape
  <2>1. /\ ThreadsOK' /\ \A u \in Threads \ {t} : thread'[u] = thread[u]
        /\ \/ thread'[t] = Idle
           \/ /\ thread[t].then \in {"rearm", "dequeue"}
              /\ thread'[t] = [thread[t] EXCEPT !.pc = thread[t].then]
    BY <1>1, <1>3, IsDone
  <2>2. [thread[t] EXCEPT !.pc = thread[t].then].pc = thread[t].then
    BY <1>2 DEF Records
  <2>3. CASE thread'[t] = Idle
    BY <2>1, <2>3
  <2>4. CASE thread[t].then \in {"rearm", "dequeue"} /\ thread'[t] = [thread[t] EXCEPT !.pc = thread[t].then]
    <3>1. thread'[t].pc = thread[t].then /\ thread[t].then \notin Waiting
      BY <2>2, <2>4 DEF Waiting
    <3> QED
      BY <2>1, <2>4, <3>1
  <2> QED
    BY <2>1, <2>3, <2>4
<1>4. ASSUME NEW pc \in PCs, Goto(t, pc), mutex' = mutex, pc \notin Waiting,
             pc \in {"saveMode", "saveWindow"} => thread[t].value \in Nat
      PROVE  Shape
  <2>1. [thread[t] EXCEPT !.pc = pc].pc = pc
    BY <1>2 DEF Records
  <2> QED
    BY <1>1, <1>4, <2>1, GoOn DEF Waiting
<1> HIDE DEF Shape
<1>5. CASE ResetScreenOffOperateInfo(t) \/ IsScreenOff(t) \/ CheckTemporaryStateEffective(t)
  <2>1. Done(t) \/ \E pc \in {"configuration", "screen", "now", "later", "enqueue"} :
                       Goto(t, pc) /\ mutex' = mutex
    BY <1>5 DEF ResetScreenOffOperateInfo, IsScreenOff, CheckTemporaryStateEffective
  <2>2. Shape
    BY <1>3, <1>4, <2>1 DEF PCs, Waiting
  <2> QED
    BY <1>1, <2>2 DEF Shape
<1>6. CASE SetScreenOffOperateInfo(t)
  BY <1>1, <1>3, <1>6 DEF SetScreenOffOperateInfo, Shape
<1>7. CASE UpdateConfiguration(t) \/ ConfigurePersistence(t)
  <2>1. PICK next \in {"switch", "usersParam", "param", "notify", "normal"} : Goto(t, next) /\ mutex' = mutex
    BY <1>7 DEF UpdateConfiguration, ConfigurePersistence, SetColor
  <2>2. Shape
    BY <1>4, <2>1 DEF PCs, Waiting
  <2> QED
    BY <1>1, <2>2 DEF Shape
<1>8. CASE SetColorModeNormal(t)
  <2>1. Shape
    BY <1>3, <1>4, <1>8 DEF SetColorModeNormal, PCs, Waiting
  <2> QED
    BY <1>1, <2>1 DEF Shape
<1>9. CASE CopyTempColorModeInfo(t)
  <2> DEFINE r == [thread[t] EXCEPT !.pc = "saveMode", !.value = temp]
  <2>1. thread' = [thread EXCEPT ![t] = r] /\ mutex' = mutex /\ temp \in Nat /\ At(t, "save")
    BY <1>9 DEF CopyTempColorModeInfo, DataOK
  <2>2. r \in Records /\ r.pc = "saveMode" /\ r.value \in Nat
    BY <1>2, <2>1 DEF Records, PCs
  <2>3. HasRead(t, r) /\ (t \in Keys => mutex = t)
    BY <1>1, <2>2 DEF HasRead, ThreadsOK
  <2> HIDE DEF r
  <2>4. ThreadsOK' /\ \A u \in Threads : thread'[u] = IF u = t THEN r ELSE thread[u]
    BY <2>1, <2>2, <2>3, ThreadChange
  <2> QED
    BY <1>1, <2>1, <2>4 DEF r, At
<1>10. CASE SaveTempColorMode(t) \/ SaveTempWindow(t)
  <2>1. thread[t].value \in Nat
    BY <1>10 DEF SaveTempColorMode, SaveTempWindow, At, ThreadsOK, HasRead
  <2>2. Done(t) \/ \E pc \in {"saveWindow", "usersParam"} : Goto(t, pc) /\ mutex' = mutex
    BY <1>10 DEF SaveTempColorMode, SaveTempWindow, Saved
  <2>3. Shape
    BY <1>3, <1>4, <2>1, <2>2 DEF PCs, Waiting
  <2> QED
    BY <1>1, <2>3 DEF Shape
<1> QED
  BY <1>5, <1>6, <1>7, <1>8, <1>9, <1>10 DEF UpdateDarkModeSchedule

LEMMA UpdateBase ==
    ASSUME Base, NEW t \in Threads, UpdateDarkModeSchedule(t)
    PROVE  Base'
<1>1. ThreadsOK'
  BY UpdateShape
<1>2. thread[t].dark \in BOOLEAN /\ (thread[t].pc \in {"saveMode", "saveWindow"} => thread[t].value \in Nat)
  BY DEF Base, ThreadsOK, HasRead, Records
<1>3. /\ screenOff' \in BOOLEAN /\ queue' \in {"NONE", "SWITCH_TO_LIGHT", "SWITCH_TO_DARK"}
      /\ temp' \in Nat /\ tempParam' \in [mode : {"Normal", "Temp"}, until : Nat]
      /\ color' \in [Places -> BOOLEAN] /\ torn' \in BOOLEAN
  <2> USE DEF switchVars, tempVars, Base, DataOK
  <2>1. CASE ResetScreenOffOperateInfo(t) \/ IsScreenOff(t) \/ CheckTemporaryStateEffective(t)
             \/ SetScreenOffOperateInfo(t)
    BY <2>1 DEF ResetScreenOffOperateInfo, IsScreenOff, CheckTemporaryStateEffective,
                SetScreenOffOperateInfo
  <2>2. CASE UpdateConfiguration(t) \/ ConfigurePersistence(t)
    BY <1>2, <2>2 DEF UpdateConfiguration, ConfigurePersistence, SetColor
  <2>3. CASE SetColorModeNormal(t) \/ CopyTempColorModeInfo(t)
    <3>1. /\ temp' = Unset \/ temp' = temp
          /\ screenOff' = screenOff /\ queue' = queue /\ tempParam' = tempParam /\ color' = color
          /\ torn' = torn \/ Tears(t)
      BY <2>3 DEF SetColorModeNormal, CopyTempColorModeInfo
    <3>2. Tears(t) => torn' \in BOOLEAN
      BY DEF Tears
    <3> QED
      BY <3>1, <3>2 DEF Unset
  <2>4. CASE SaveTempColorMode(t) \/ SaveTempWindow(t)
    BY <1>2, <2>4 DEF SaveTempColorMode, SaveTempWindow, At
  <2> QED
    BY <2>1, <2>2, <2>3, <2>4 DEF UpdateDarkModeSchedule
<1> QED
  BY <1>1, <1>3 DEF Base, DataOK, UpdateDarkModeSchedule, settingVars, timerVars, bounds

-----------------------------------------------------------------------------
(* All other steps.                                                        *)

\* A step that says anew what its thread does.
LEMMA Restarts ==
    ASSUME ThreadsOK, NEW t \in Threads, NEW r \in Records, HasRead(t, r),
           thread' = [thread EXCEPT ![t] = r], t \notin Keys \/ r.pc \in Waiting,
           mutex' = mutex
    PROVE  /\ ThreadsOK'
           /\ \A u \in Threads : thread'[u] = IF u = t THEN r ELSE thread[u]
<1>1. \/ mutex' = mutex /\ (t \in Keys /\ r.pc \notin Waiting => mutex = t)
  OBVIOUS
<1> QED
  BY <1>1, ThreadChange

\* OnStateChangeLocked takes the mutex exactly if it goes on.
LEMMA Starts ==
    ASSUME Base, NEW t \in Threads, NEW s \in Settings \cup [mode : ModeNames \cup {"INVALID"}, time : Times \cup {Unset}],
           NEW reset \in BOOLEAN, NEW boot \in BOOLEAN, OnStateChangeLocked(t, s, reset, boot)
    PROVE  /\ ThreadsOK' /\ \A u \in Threads \ {t} : thread'[u] = thread[u]
           /\ IF HasColor(s)
              THEN /\ mutex' = t
                   /\ thread'[t] = [Idle EXCEPT !.pc = "queue", !.dark = ColorOf(s),
                                                !.reset = reset, !.boot = boot]
              ELSE mutex' = mutex /\ thread'[t] = Idle
           /\ mutex = Free
           /\ armed' \in Times \cup {Unset} /\ fired' = fired
           /\ s.mode = "CUSTOM_AUTO" => armed' = s.time
           /\ s.mode \in {"ALWAYS_LIGHT", "ALWAYS_DARK"} => armed' = Unset
           /\ s.mode = "INVALID" => armed' = armed
<1>4. /\ armed' \in Times \cup {Unset} /\ fired' = fired
      /\ s.mode = "CUSTOM_AUTO" => armed' = s.time
      /\ s.mode \in {"ALWAYS_LIGHT", "ALWAYS_DARK"} => armed' = Unset
      /\ s.mode = "INVALID" => armed' = armed
  <2>1. Timers(s) /\ fired' = fired
    BY DEF OnStateChangeLocked
  <2> QED
    BY <2>1 DEF Timers, Base, DataOK, Settings
<1>1. mutex = Free
  BY DEF OnStateChangeLocked
<1>2. CASE HasColor(s)
  <2> DEFINE r == [Idle EXCEPT !.pc = "queue", !.dark = ColorOf(s), !.reset = reset, !.boot = boot]
  <2>1. ColorOf(s) \in BOOLEAN
    BY DEF ColorOf
  <2>2. thread' = [thread EXCEPT ![t] = r] /\ mutex' = t
    BY <1>2 DEF OnStateChangeLocked
  <2>3. r \in Records /\ r.pc = "queue"
    BY <2>1 DEF Idle, Records, PCs, Unset
  <2>4. HasRead(t, r)
    BY <2>3 DEF HasRead
  <2> HIDE DEF r
  <2>5. ThreadsOK' /\ \A u \in Threads : thread'[u] = IF u = t THEN r ELSE thread[u]
    BY <1>1, <2>2, <2>3, <2>4, ThreadChange DEF Base
  <2>6. ThreadsOK' /\ (\A u \in Threads \ {t} : thread'[u] = thread[u]) /\ mutex' = t /\ thread'[t] = r
    BY <2>2, <2>5
  <2> QED
    BY <1>1, <1>2, <1>4, <2>6 DEF r
<1>3. CASE ~HasColor(s)
  <2>1. thread' = [thread EXCEPT ![t] = Idle] /\ mutex' = mutex
    BY <1>3 DEF OnStateChangeLocked
  <2>2. ThreadsOK' /\ (\A u \in Threads \ {t} : thread'[u] = thread[u]) /\ thread'[t] = Idle
    BY <2>1, Ends DEF Base
  <2> QED
    BY <1>1, <1>3, <1>4, <2>1, <2>2
<1> QED
  BY <1>2, <1>3

\* What the environment does leaves the threads alone, or takes them all away.
LEMMA EnvironmentBase ==
    ASSUME Base,
           \/ Boundary \/ Crash \/ LeaveContext \/ ScreenOnCallback
           \/ \E mode \in Modes : WriteSetting("mode", mode)
           \/ \E time \in Times : WriteSetting("time", time)
    PROVE  Base'
<1> USE DEF Base
<1>1. ASSUME UNCHANGED << thread, mutex >> PROVE ThreadsOK'
  BY <1>1 DEF ThreadsOK, HasRead
<1>2. ASSUME Change PROVE changes' \in 0 .. CHANGES
  BY <1>2, DarkModeThreadsAssumption DEF Change, DataOK
<1>3. CASE Boundary
  BY <1>1, <1>2, <1>3 DEF Boundary, DataOK, settingVars, switchVars, tempVars, history
<1>4. CASE Crash
  <2>1. thread' = [t \in Threads |-> Idle] /\ mutex' = Free
    BY <1>4 DEF Crash
  <2>2. thread' \in [Threads -> Records] /\ \A t \in Threads : thread'[t] = Idle
    BY <2>1, IdleType
  <2>3. (\A t \in Threads : HasRead(t, thread[t]))'
    BY <2>2, IdleType DEF HasRead
  <2>4. \A key \in Keys : thread'[key].pc \in Waiting
    BY <2>2, IdleType DEF Threads, Waiting
  <2>5. ThreadsOK'
    BY <2>1, <2>2, <2>3, <2>4 DEF ThreadsOK
  <2>6. DataOK'
    BY <1>2, <1>4 DEF Crash, DataOK, Places, Unset
  <2> QED
    BY <2>5, <2>6
<1>5. CASE LeaveContext
  BY <1>1, <1>2, <1>5 DEF LeaveContext, DataOK, switchVars, tempVars, history
<1>6. CASE ScreenOnCallback
  BY <1>1, <1>2, <1>6, ZenonT(30) DEF ScreenOnCallback, DataOK, settingVars, timerVars, tempVars, history
<1>7. CASE (\E mode \in Modes : WriteSetting("mode", mode)) \/ (\E time \in Times : WriteSetting("time", time))
  <2>1. table' \in Settings /\ told' \subseteq Keys
    BY <1>7, TimesType DEF WriteSetting, Settings, DataOK, Keys
  <2> QED
    BY <1>1, <1>2, <1>7, <2>1 DEF WriteSetting, DataOK, timerVars, switchVars, tempVars, history
<1> QED
  BY <1>3, <1>4, <1>5, <1>6, <1>7

LEMMA ObserverBase ==
    ASSUME Base, NEW key \in Keys, ObserverReads(key) \/ SettingDataUpdateFunc(key)
    PROVE  Base'
<1> USE DEF Base
<1>1. key \in Threads /\ key \in {"mode", "time"}
  BY DEF Threads, Keys
<1>2. CASE ObserverReads(key)
  <2> DEFINE r == [Idle EXCEPT !.pc = "observe", !.value = table[key]]
  <2>1. table[key] \in ModeNames \cup Times /\ (key = "mode" => table[key] \in ModeNames)
        /\ (key = "time" => table[key] \in Times)
    BY <1>1 DEF DataOK, Settings
  <2>2. r \in Records /\ r.pc = "observe" /\ r.value = table[key]
    BY <2>1, TimesType DEF Idle, Records, PCs
  <2>3. HasRead(key, r) /\ r.pc \in Waiting
    BY <1>1, <2>1, <2>2 DEF HasRead, Waiting
  <2>4. thread' = [thread EXCEPT ![key] = r] /\ mutex' = mutex
    BY <1>2 DEF ObserverReads
  <2> HIDE DEF r
  <2>5. ThreadsOK'
    BY <1>1, <2>2, <2>3, <2>4, Restarts
  <2> QED
    BY <1>2, <2>5 DEF ObserverReads, DataOK, timerVars, switchVars, tempVars, bounds, history
<1>3. CASE SettingDataUpdateFunc(key)
  <2> DEFINE s == [state EXCEPT ![key] = thread[key].value]
  <2>1. thread[key].value \in (IF key = "mode" THEN ModeNames ELSE Times)
    BY <1>1, <1>3 DEF SettingDataUpdateFunc, At, ThreadsOK, HasRead
  <2>2. s \in [mode : ModeNames \cup {"INVALID"}, time : Times \cup {Unset}]
    BY <1>1, <2>1 DEF DataOK
  <2>3. OnStateChangeLocked(key, s, TRUE, FALSE) /\ state' = s
    BY <1>3 DEF SettingDataUpdateFunc, OnStateChangeLocked
  <2>4. clean' \in BOOLEAN /\ stale' \subseteq Keys
    BY <1>1, <1>3 DEF SettingDataUpdateFunc, DataOK
  <2> HIDE DEF s
  <2>5. ThreadsOK' /\ armed' \in Times \cup {Unset} /\ fired' = fired
    BY <1>1, <2>2, <2>3, Starts
  <2> QED
    BY <1>3, <2>2, <2>3, <2>4, <2>5 DEF SettingDataUpdateFunc, DataOK, settingVars, switchVars, tempVars, bounds
<1> QED
  BY <1>2, <1>3

LEMMA TimerBase ==
    ASSUME Base, TimerCallback \/ CheckTimerCallbackParams
    PROVE  Base'
<1> USE DEF Base
<1>1. "timer" \in Threads /\ "timer" \notin Keys
  BY DEF Threads, Keys
<1>2. CASE TimerCallback
  <2> DEFINE r == [Idle EXCEPT !.pc = "check", !.value = fired]
  <2>1. r \in Records /\ r.pc = "check"
    <3>1. fired \in Nat
      BY TimesType DEF DataOK, Unset
    <3> QED
      BY <3>1 DEF Idle, Records, PCs
  <2>2. HasRead("timer", r)
    BY <2>1 DEF HasRead
  <2>3. thread' = [thread EXCEPT !["timer"] = r] /\ mutex' = mutex
    BY <1>2 DEF TimerCallback
  <2> HIDE DEF r
  <2>4. ThreadsOK'
    BY <1>1, <2>1, <2>2, <2>3, Restarts
  <2> QED
    BY <1>2, <2>4 DEF TimerCallback, DataOK, settingVars, switchVars, tempVars, bounds, history
<1>3. CASE CheckTimerCallbackParams
  <2> DEFINE r == [Idle EXCEPT !.pc = "queue", !.dark = InDarkInterval(state.time)]
  <2>1. r \in Records /\ r.pc = "queue"
    BY DEF Idle, Records, PCs, Unset, InDarkInterval
  <2>2. HasRead("timer", r)
    BY <2>1 DEF HasRead
  <2>3. thread' = [thread EXCEPT !["timer"] = r] \/ thread' = [thread EXCEPT !["timer"] = Idle]
    BY <1>3 DEF CheckTimerCallbackParams
  <2>4. mutex' = mutex /\ (clean' = clean \/ clean' = (clean /\ Alone("timer")))
    BY <1>3 DEF CheckTimerCallbackParams, Decides
  <2> HIDE DEF r
  <2>5. ThreadsOK'
    BY <1>1, <2>1, <2>2, <2>3, <2>4, IdleType, Restarts
  <2>6. clean' \in BOOLEAN
    BY <2>4 DEF DataOK
  <2> QED
    BY <1>3, <2>5, <2>6 DEF CheckTimerCallbackParams, DataOK, settingVars, timerVars, switchVars, tempVars, bounds
<1> QED
  BY <1>2, <1>3

\* The event and IPC threads hold no mutex between their steps, but for loading:
\* they may move on, or begin anew with what they need.
LEMMA MovesOn ==
    ASSUME ThreadsOK, NEW t \in {"event", "ipc"}, mutex' = mutex,
           \/ thread' = [thread EXCEPT ![t] = Idle]
           \/ \E pc \in PCs \ {"observe", "load", "saveMode", "saveWindow"} : Goto(t, pc)
           \/ \E r \in Records : HasRead(t, r) /\ thread' = [thread EXCEPT ![t] = r]
    PROVE  ThreadsOK' /\ \A u \in Threads \ {t} : thread'[u] = thread[u]
<1>1. t \in Threads /\ t \notin Keys
  BY DEF Threads, Keys
<1>2. CASE thread' = [thread EXCEPT ![t] = Idle]
  BY <1>1, <1>2, Ends
<1>3. ASSUME NEW pc \in PCs \ {"observe", "load", "saveMode", "saveWindow"}, Goto(t, pc)
      PROVE  ThreadsOK' /\ \A u \in Threads \ {t} : thread'[u] = thread[u]
  BY <1>1, <1>3, GoOn
<1>4. ASSUME NEW r \in Records, HasRead(t, r), thread' = [thread EXCEPT ![t] = r]
      PROVE  ThreadsOK' /\ \A u \in Threads \ {t} : thread'[u] = thread[u]
  BY <1>1, <1>4, Restarts, ZenonT(30)
<1> QED
  BY <1>2, <1>3, <1>4

LEMMA LoadBase ==
    ASSUME Base, LoadUserSettingData
    PROVE  Base' /\ temp' \in Nat /\ tempParam' \in [mode : {"Normal", "Temp"}, until : Nat]
<1> USE DEF Base
<1>1. "event" \in Threads
  BY DEF Threads
<1> DEFINE s == thread["event"].value
<1>2. s \in Settings /\ OnStateChangeLocked("event", s, FALSE, TRUE) /\ state' = s
  BY <1>1 DEF LoadUserSettingData, OnStateChangeLocked, At, ThreadsOK, HasRead
<1> HIDE DEF s
<1>3. ThreadsOK' /\ armed' \in Times \cup {Unset} /\ fired' = fired
  BY <1>1, <1>2, Starts
<1>4. Restored \in [mode : {"Normal", "Temp"}, until : Nat]
  BY DEF Restored, Normal, Unset, DataOK
<1>5. temp' \in Nat /\ tempParam' \in [mode : {"Normal", "Temp"}, until : Nat]
  BY <1>4 DEF LoadUserSettingData, DataOK
<1>6. state' \in [mode : ModeNames \cup {"INVALID"}, time : Times \cup {Unset}]
  BY <1>2 DEF Settings
<1>7. clean' \in BOOLEAN /\ torn' \in BOOLEAN
  BY DEF LoadUserSettingData, Decides, Tears
<1> QED
  BY <1>3, <1>5, <1>6, <1>7 DEF LoadUserSettingData, DataOK, settingVars, bounds

\* All other steps of the thread of common events.
EventMoves ==
    \/ OnSwitchContext \/ LoadReads \/ TimeChange \/ SetScreenOff
    \/ RestartTimer \/ RestartWithin \/ RestartAllTimer
    \/ HaveScreenOffOperate \/ GetScreenOffOperateInfo \/ ScreenOffDone

LEMMA EventBase ==
    ASSUME Base, EventMoves
    PROVE  Base' /\ mutex' = mutex /\ \A u \in Threads \ {"event"} : thread'[u] = thread[u]
<1> USE DEF Base
<1> DEFINE Result == ThreadsOK' /\ mutex' = mutex /\ \A u \in Threads \ {"event"} : thread'[u] = thread[u]
<1>1. Idle \in Records
  BY IdleType
<1>3. \/ changes' = changes \/ changes' \in 0 .. CHANGES
  BY DarkModeThreadsAssumption DEF DataOK, EventMoves, OnSwitchContext, LoadReads, TimeChange, SetScreenOff,
     RestartTimer, RestartWithin, RestartAllTimer, HaveScreenOffOperate, GetScreenOffOperateInfo, ScreenOffDone,
     Change, bounds
<1>4. CASE OnSwitchContext \/ TimeChange \/ SetScreenOff \/ HaveScreenOffOperate
  <2>1. mutex' = mutex /\ \E pc \in {"read", "restart", "have", "get", "idle"} : Goto("event", pc)
    BY <1>4 DEF OnSwitchContext, TimeChange, SetScreenOff, HaveScreenOffOperate
  <2>2. {"read", "restart", "have", "get", "idle"} \subseteq PCs \ {"observe", "load", "saveMode", "saveWindow"}
    BY DEF PCs
  <2>3. Result
    BY <2>1, <2>2, MovesOn
  <2>4. clean' \in BOOLEAN
    BY <1>4 DEF OnSwitchContext, TimeChange, SetScreenOff, HaveScreenOffOperate, Decides, DataOK, history
  <2> HIDE DEF Result
  <2>5. DataOK'
    BY <1>3, <1>4, <2>4 DEF OnSwitchContext, TimeChange, SetScreenOff, HaveScreenOffOperate, DataOK,
       settingVars, timerVars, switchVars, tempVars, bounds, history
  <2> QED
    BY <2>3, <2>5 DEF Result
<1>5. CASE LoadReads
  <2> DEFINE r == [Idle EXCEPT !.pc = "load", !.value = table]
  <2>1. r \in Records /\ r.value \in Settings
    BY DEF DataOK, Idle, Records, PCs
  <2>2. r.pc = "load"
    BY DEF Idle
  <2>3. HasRead("event", r)
    BY <2>1, <2>2 DEF HasRead
  <2>4. thread' = [thread EXCEPT !["event"] = r] /\ mutex' = mutex
    BY <1>5 DEF LoadReads
  <2> HIDE DEF r
  <2>5. Result
    BY <2>1, <2>3, <2>4, MovesOn
  <2> QED
    BY <1>5, <2>5 DEF LoadReads, DataOK, settingVars, timerVars, switchVars, tempVars, bounds, history
<1>6. CASE RestartTimer \/ RestartWithin \/ GetScreenOffOperateInfo
  <2>1. state.time \in Times \cup {Unset}
    BY DEF DataOK
  <2>2. state.time \in Nat
    BY <2>1, TimeType
  <2>3. \/ thread' = [thread EXCEPT !["event"] = Idle]
        \/ \E r \in Records : HasRead("event", r) /\ thread' = [thread EXCEPT !["event"] = r]
    <3>1. CASE RestartTimer
      <4> DEFINE r == [Idle EXCEPT !.pc = "within", !.value = state.time]
      <4>1. r \in Records /\ r.pc = "within"
        BY <2>2 DEF Idle, Records, PCs
      <4>2. HasRead("event", r)
        BY <4>1 DEF HasRead
      <4> QED
        BY <3>1, <4>1, <4>2, Zenon DEF RestartTimer
    <3>2. CASE RestartWithin
      <4> DEFINE r == [Idle EXCEPT !.pc = "queue", !.dark = InDarkInterval(thread["event"].value),
                                   !.then = "rearm"]
      <4>1. r \in Records /\ r.pc = "queue"
        BY DEF Idle, Records, PCs, InDarkInterval, Unset
      <4>2. HasRead("event", r)
        BY <4>1 DEF HasRead
      <4> QED
        BY <3>2, <4>1, <4>2, Zenon DEF RestartWithin
    <3>3. CASE GetScreenOffOperateInfo
      <4> DEFINE r == [Idle EXCEPT !.pc = "configuration", !.dark = (queue = "SWITCH_TO_DARK"),
                                   !.then = "dequeue"]
      <4>1. r \in Records /\ r.pc = "configuration"
        BY DEF Idle, Records, PCs, Unset
      <4>2. HasRead("event", r)
        BY <4>1 DEF HasRead
      <4> QED
        BY <3>3, <4>1, <4>2, Zenon DEF GetScreenOffOperateInfo
    <3> QED
      BY <1>6, <3>1, <3>2, <3>3
  <2>4. mutex' = mutex
    BY <1>6 DEF RestartTimer, RestartWithin, GetScreenOffOperateInfo
  <2>5. Result
    BY <2>3, <2>4, MovesOn
  <2>6. clean' \in BOOLEAN
    BY <1>6 DEF RestartTimer, RestartWithin, GetScreenOffOperateInfo, Decides, DataOK, history
  <2> HIDE DEF Result
  <2>7. DataOK'
    BY <1>6, <2>6 DEF RestartTimer, RestartWithin, GetScreenOffOperateInfo, DataOK,
       settingVars, timerVars, switchVars, tempVars, bounds, history
  <2> QED
    BY <2>5, <2>7 DEF Result
<1>7. CASE RestartAllTimer \/ ScreenOffDone
  <2>1. thread' = [thread EXCEPT !["event"] = Idle] /\ mutex' = mutex
    BY <1>7 DEF RestartAllTimer, ScreenOffDone
  <2>2. Result
    BY <2>1, MovesOn
  <2> HIDE DEF Result
  <2>3. DataOK'
    BY <1>7 DEF RestartAllTimer, ScreenOffDone, DataOK,
       settingVars, timerVars, switchVars, tempVars, bounds, history
  <2> QED
    BY <2>2, <2>3 DEF Result
<1> QED
  BY <1>4, <1>5, <1>6, <1>7 DEF EventMoves

\* Where the thread of common events goes from and to: loading is begun only
\* in one way, and nothing else changes the phase.
LEMMA EventPlaces ==
    ASSUME Base, EventMoves
    PROVE  /\ thread'["event"].pc \in {"idle", "read", "load", "restart", "have", "within", "queue", "get",
                                       "configuration"}
           /\ \/ (OnSwitchContext \/ LoadReads) /\ thread'["event"].pc \in {"read", "load"}
              \/ /\ phase' = phase /\ thread["event"].pc \notin {"read", "load"}
                 /\ thread'["event"].pc \notin {"read", "load"}
<1> USE DEF Base
<1>1. thread["event"] \in Records /\ "event" \in Threads /\ thread \in [Threads -> Records]
  BY DEF ThreadsOK, Threads
<1>2. CASE OnSwitchContext \/ LoadReads
  <2>1. Goto("event", "read") \/ thread' = [thread EXCEPT !["event"] = [Idle EXCEPT !.pc = "load", !.value = table]]
    BY <1>2 DEF OnSwitchContext, LoadReads
  <2> QED
    <3>1. [Idle EXCEPT !.pc = "load", !.value = table].pc = "load" /\ "pc" \in DOMAIN thread["event"]
      BY <1>1 DEF Idle, Records
    <3>2. thread'["event"].pc \in {"read", "load"}
      BY <1>1, <2>1, <3>1 DEF Goto
    <3> QED
      BY <1>2, <3>2
<1>3. CASE TimeChange \/ SetScreenOff \/ HaveScreenOffOperate
  <2>1. phase' = phase /\ thread["event"].pc \notin {"read", "load"} /\ \E pc \in {"restart", "have", "get", "idle"} : Goto("event", pc)
    BY <1>3 DEF TimeChange, SetScreenOff, HaveScreenOffOperate, settingVars, At
  <2> QED
    BY <1>1, <2>1 DEF Goto, Records
<1>4. CASE RestartTimer
  <2> DEFINE r == [Idle EXCEPT !.pc = "within", !.value = state.time]
  <2>1. r.pc = "within" /\ Idle.pc = "idle"
    BY DEF Idle
  <2>2. thread' = [thread EXCEPT !["event"] = r] \/ thread' = [thread EXCEPT !["event"] = Idle]
    BY <1>4 DEF RestartTimer
  <2> HIDE DEF r
  <2> QED
    BY <1>1, <1>4, <2>1, <2>2 DEF RestartTimer, settingVars, At
<1>5. CASE RestartWithin \/ GetScreenOffOperateInfo \/ RestartAllTimer \/ ScreenOffDone
  <2>1. phase' = phase /\ thread["event"].pc \notin {"read", "load"}
    BY <1>5 DEF RestartWithin, GetScreenOffOperateInfo, RestartAllTimer, ScreenOffDone, settingVars, At
  <2>2. thread'["event"].pc \in {"queue", "configuration", "idle"}
    <3> DEFINE r == [Idle EXCEPT !.pc = "queue", !.dark = InDarkInterval(thread["event"].value), !.then = "rearm"]
               q == [Idle EXCEPT !.pc = "configuration", !.dark = (queue = "SWITCH_TO_DARK"), !.then = "dequeue"]
    <3>1. r.pc = "queue" /\ q.pc = "configuration" /\ Idle.pc = "idle"
      BY DEF Idle
    <3>2. \/ thread' = [thread EXCEPT !["event"] = r] \/ thread' = [thread EXCEPT !["event"] = q]
          \/ thread' = [thread EXCEPT !["event"] = Idle]
      BY <1>5 DEF RestartWithin, GetScreenOffOperateInfo, RestartAllTimer, ScreenOffDone
    <3> HIDE DEF r, q
    <3> QED
      BY <1>1, <3>1, <3>2
  <2> QED
    BY <2>1, <2>2
<1> QED
  BY <1>2, <1>3, <1>4, <1>5 DEF EventMoves

\* The steps of a manual choice of its own.
IpcMoves == SetDarkMode \/ IsDarkModeCustomAuto \/ DoSwitchTemporaryColorMode \/ NotifyDarkModeUpdate

LEMMA IpcBase ==
    ASSUME Base, IpcMoves
    PROVE  Base' /\ mutex' = mutex /\ \A u \in Threads \ {"ipc"} : thread'[u] = thread[u]
<1> USE DEF Base
<1> DEFINE Result == ThreadsOK' /\ mutex' = mutex /\ \A u \in Threads \ {"ipc"} : thread'[u] = thread[u]
<1>1. CASE SetDarkMode
  <2> DEFINE r == [Idle EXCEPT !.pc = "configuration", !.dark = ~color.usersParam]
  <2>1. r \in Records /\ r.pc = "configuration"
    BY DEF Idle, Records, PCs, Unset
  <2>2. HasRead("ipc", r)
    BY <2>1 DEF HasRead
  <2>3. thread' = [thread EXCEPT !["ipc"] = r] /\ mutex' = mutex
    BY <1>1 DEF SetDarkMode
  <2> HIDE DEF r
  <2>4. Result
    BY <2>1, <2>2, <2>3, MovesOn
  <2>5. clean' \in BOOLEAN /\ changes' \in 0 .. CHANGES
    BY <1>1, DarkModeThreadsAssumption DEF SetDarkMode, Decides, Change, DataOK
  <2> HIDE DEF Result
  <2>6. DataOK'
    BY <1>1, <2>5 DEF SetDarkMode, DataOK, settingVars, timerVars, switchVars, tempVars
  <2> QED
    BY <2>4, <2>6 DEF Result
<1>2. CASE IsDarkModeCustomAuto \/ DoSwitchTemporaryColorMode
  <2>1. mutex' = mutex /\ \E pc \in {"choose", "usersParam", "save"} : Goto("ipc", pc)
    BY <1>2 DEF IsDarkModeCustomAuto, DoSwitchTemporaryColorMode
  <2>2. {"choose", "usersParam", "save"} \subseteq PCs \ {"observe", "load", "saveMode", "saveWindow"}
    BY DEF PCs
  <2>3. Result
    BY <2>1, <2>2, MovesOn
  <2>4. torn' \in BOOLEAN /\ temp' \in Nat
    <3>1. temp' \in {temp, Unset, boundaries + 2} /\ (torn' = torn \/ Tears("ipc"))
      BY <1>2 DEF IsDarkModeCustomAuto, DoSwitchTemporaryColorMode, history, tempVars
    <3>2. Tears("ipc") => torn' \in BOOLEAN
      BY DEF Tears
    <3> QED
      BY <3>1, <3>2 DEF DataOK, Unset
  <2> HIDE DEF Result
  <2>5. DataOK'
    BY <1>2, <2>4 DEF IsDarkModeCustomAuto, DoSwitchTemporaryColorMode, DataOK,
       settingVars, timerVars, switchVars, tempVars, bounds, history
  <2> QED
    BY <2>3, <2>5 DEF Result
<1>3. CASE NotifyDarkModeUpdate
  <2>1. thread' = [thread EXCEPT !["ipc"] = Idle] /\ mutex' = mutex
    BY <1>3 DEF NotifyDarkModeUpdate
  <2>2. Result
    BY <2>1, MovesOn
  <2>3. table' \in Settings /\ told' \subseteq Keys
    BY <1>3 DEF NotifyDarkModeUpdate, DataOK, Settings, ModeNames, Keys
  <2> HIDE DEF Result
  <2>4. DataOK'
    BY <1>3, <2>3 DEF NotifyDarkModeUpdate, DataOK, timerVars, switchVars, tempVars, bounds, history
  <2> QED
    BY <2>2, <2>4 DEF Result
<1> QED
  BY <1>1, <1>2, <1>3 DEF IpcMoves

\* The next-state relation, sorted by who moves.
Environment ==
    \/ Boundary \/ Crash \/ LeaveContext \/ ScreenOnCallback
    \/ \E mode \in Modes : WriteSetting("mode", mode)
    \/ \E time \in Times : WriteSetting("time", time)

LEMMA NextCases ==
    ASSUME Next
    PROVE  \/ Environment \/ LoadUserSettingData \/ EventMoves \/ IpcMoves
           \/ TimerCallback \/ CheckTimerCallbackParams
           \/ \E key \in Keys : ObserverReads(key) \/ SettingDataUpdateFunc(key)
           \/ \E t \in Threads : UpdateDarkModeSchedule(t)
BY DEF Next, ThreadStep, Environment, EventMoves, IpcMoves

LEMMA InitBase == Init => Base
<1> SUFFICES ASSUME Init PROVE Base
  OBVIOUS
<1>1. thread \in [Threads -> Records] /\ \A t \in Threads : thread[t] = Idle
  BY IdleType DEF Init
<1>2. \A key \in Keys : thread[key].pc \in Waiting
  BY <1>1, IdleType DEF Threads, Waiting
<1>3. ThreadsOK
  BY <1>1, <1>2, IdleType DEF Init, ThreadsOK
<1>4. table \in Settings /\ state = table /\ armed = state.time /\ state.time \in Times
  BY DEF Init, Settings, ModeNames
<1>5. color \in [Places -> BOOLEAN]
  BY DEF Init, ColorOf
<1>6. DataOK
  <2>1. changes \in 0 .. CHANGES /\ boundaries \in Nat /\ temp \in Nat
    BY DarkModeThreadsAssumption DEF Init, Unset
  <2>2. told \subseteq Keys /\ phase \in {"booting", "registered", "left"} /\ stale \subseteq Keys
    BY DEF Init
  <2>3. /\ screenOff \in BOOLEAN /\ queue \in {"NONE", "SWITCH_TO_LIGHT", "SWITCH_TO_DARK"}
        /\ tempParam \in [mode : {"Normal", "Temp"}, until : Nat]
        /\ clean \in BOOLEAN /\ torn \in BOOLEAN
    BY DEF Init, Normal, Unset
  <2>4. /\ state \in [mode : ModeNames \cup {"INVALID"}, time : Times \cup {Unset}]
        /\ armed \in Times \cup {Unset} /\ fired \in Times \cup {Unset}
    BY <1>4 DEF Init, Settings
  <2> QED
    BY <1>4, <1>5, <2>1, <2>2, <2>3, <2>4 DEF DataOK
<1> QED
  BY <1>3, <1>6 DEF Base

LEMMA NextBase == Base /\ [Next]_vars => Base'
<1> SUFFICES ASSUME Base, [Next]_vars PROVE Base'
  OBVIOUS
<1>1. CASE Next
  BY <1>1, NextCases, EnvironmentBase, LoadBase, EventBase, IpcBase, TimerBase, ObserverBase, UpdateBase
     DEF Environment
<1>2. CASE UNCHANGED vars
  <2>1. ThreadsOK'
    BY <1>2 DEF vars, Base, ThreadsOK, HasRead
  <2>2. DataOK'
    BY <1>2 DEF vars, settingVars, timerVars, switchVars, tempVars, bounds, history, Base, DataOK
  <2> QED
    BY <2>1, <2>2 DEF Base
<1> QED
  BY <1>1, <1>2

LEMMA SpecBase == Spec => []Base
BY InitBase, NextBase, PTL DEF Spec

\* Variables have their types, and an observer that has begun holds the mutex to
\* its end, whatever settings, times, events and crashes there are.
THEOREM TypeOKHolds == Spec => []TypeOK
BY BaseType, SpecBase, PTL

-----------------------------------------------------------------------------
(* The timers.                                                             *)

\* The timers are those of the state in memory, whoever is at work, and loading
\* is not under way in a context that was left.
TimersInv ==
    /\ phase # "left" /\ state.mode = "CUSTOM_AUTO" => armed = state.time
    /\ phase # "left" /\ state.mode \in {"ALWAYS_LIGHT", "ALWAYS_DARK"} => armed = Unset
    /\ thread["event"].pc \in {"read", "load"} => phase # "left"

\* Most steps leave all that alone, and do not begin to load.
LEMMA TimersKept ==
    ASSUME TimersInv, UNCHANGED << phase, state, armed >>,
           thread'["event"].pc \in {"read", "load"} => thread["event"].pc \in {"read", "load"}
    PROVE  TimersInv'
BY DEF TimersInv

LEMMA InitTimers == Init => TimersInv
<1> SUFFICES ASSUME Init PROVE TimersInv
  OBVIOUS
<1>1. thread["event"] = Idle
  BY DEF Init, Threads
<1>2. state.mode = "CUSTOM_AUTO" /\ armed = state.time /\ phase = "registered"
  BY DEF Init
<1> QED
  BY <1>1, <1>2 DEF TimersInv, Idle

LEMMA NextTimers == Base /\ TimersInv /\ [Next]_vars => TimersInv'
<1> SUFFICES ASSUME Base, TimersInv, [Next]_vars PROVE TimersInv'
  OBVIOUS
<1> USE DEF Base
<1>0. "event" \in Threads /\ "event" \notin Keys /\ thread["event"] \in Records
  BY DEF Threads, Keys, ThreadsOK
<1>1. CASE Environment
  <2>1. CASE Boundary \/ ScreenOnCallback \/ (\E mode \in Modes : WriteSetting("mode", mode))
             \/ (\E time \in Times : WriteSetting("time", time))
    <3>1. UNCHANGED << phase, state, armed, thread >>
      BY <2>1 DEF Boundary, ScreenOnCallback, WriteSetting, settingVars, timerVars, history
    <3> QED
      BY <3>1, TimersKept
  <2>2. CASE Crash
    <3>1. thread'["event"].pc = "idle" /\ state'.mode = "INVALID" /\ phase' = "booting"
      BY <1>0, <2>2 DEF Crash, Idle
    <3> QED
      BY <3>1 DEF TimersInv
  <2>3. CASE LeaveContext
    <3>1. phase' = "left" /\ armed' = Unset /\ thread'["event"].pc = "idle"
      BY <2>3 DEF LeaveContext, At
    <3> QED
      BY <3>1 DEF TimersInv
  <2> QED
    BY <1>1, <2>1, <2>2, <2>3 DEF Environment
<1>2. CASE LoadUserSettingData
  <2> DEFINE s == thread["event"].value
  <2>1. s \in Settings /\ OnStateChangeLocked("event", s, FALSE, TRUE) /\ state' = s
    BY <1>0, <1>2 DEF LoadUserSettingData, OnStateChangeLocked, At, ThreadsOK, HasRead
  <2>2. phase # "left" /\ phase' = phase
    BY <1>2 DEF TimersInv, LoadUserSettingData, At, settingVars
  <2> HIDE DEF s
  <2>3. /\ s.mode = "CUSTOM_AUTO" => armed' = s.time
        /\ s.mode \in {"ALWAYS_LIGHT", "ALWAYS_DARK"} => armed' = Unset
    BY <1>0, <2>1, Starts
  <2> QED
    BY <2>1, <2>2, <2>3 DEF TimersInv
<1>3. ASSUME NEW key \in Keys, SettingDataUpdateFunc(key) PROVE TimersInv'
  <2> DEFINE s == [state EXCEPT ![key] = thread[key].value]
  <2>1. key \in Threads /\ key \in {"mode", "time"} /\ key # "event"
    BY DEF Threads, Keys
  <2>2. thread[key].value \in (IF key = "mode" THEN ModeNames ELSE Times)
    BY <1>3, <2>1 DEF SettingDataUpdateFunc, At, ThreadsOK, HasRead
  <2>3. s \in [mode : ModeNames \cup {"INVALID"}, time : Times \cup {Unset}]
    BY <2>1, <2>2 DEF DataOK
  <2>4. OnStateChangeLocked(key, s, TRUE, FALSE) /\ state' = s /\ phase' = phase
    BY <1>3 DEF SettingDataUpdateFunc, OnStateChangeLocked, settingVars
  <2> HIDE DEF s
  <2>5. /\ s.mode = "CUSTOM_AUTO" => armed' = s.time
        /\ s.mode \in {"ALWAYS_LIGHT", "ALWAYS_DARK"} => armed' = Unset
        /\ \A u \in Threads \ {key} : thread'[u] = thread[u]
    BY <2>1, <2>3, <2>4, Starts
  <2>6. thread'["event"] = thread["event"]
    BY <1>0, <2>1, <2>5
  <2> QED
    BY <2>4, <2>5, <2>6 DEF TimersInv
<1>4. ASSUME NEW key \in Keys, ObserverReads(key) PROVE TimersInv'
  <2>1. UNCHANGED << phase, state, armed >> /\ thread'["event"] = thread["event"]
    BY <1>0, <1>4 DEF ObserverReads, timerVars, history, ThreadsOK
  <2> QED
    BY <2>1, TimersKept
<1>5. CASE TimerCallback \/ CheckTimerCallbackParams
  <2>1. UNCHANGED << phase, state, armed >> /\ thread'["event"] = thread["event"]
    BY <1>0, <1>5 DEF TimerCallback, CheckTimerCallbackParams, settingVars, timerVars, history, ThreadsOK
  <2> QED
    BY <2>1, TimersKept
<1>6. CASE IpcMoves
  <2>1. UNCHANGED << phase, state, armed >>
    BY <1>6 DEF IpcMoves, SetDarkMode, IsDarkModeCustomAuto, DoSwitchTemporaryColorMode, NotifyDarkModeUpdate,
       settingVars, timerVars, history
  <2>2. thread'["event"] = thread["event"]
    BY <1>0, <1>6, IpcBase
  <2> QED
    BY <2>1, <2>2, TimersKept
<1>7. CASE EventMoves
  <2>1. CASE OnSwitchContext
    <3>1. phase = "booting" /\ phase' = "registered" /\ state' = state /\ armed' = armed
      BY <2>1 DEF OnSwitchContext, timerVars
    <3> QED
      BY <3>1 DEF TimersInv
  <2>2. CASE LoadReads
    <3>1. UNCHANGED << phase, state, armed >> /\ thread["event"].pc = "read"
      BY <2>2 DEF LoadReads, settingVars, timerVars, history, At
    <3> QED
      BY <3>1, TimersKept
  <2>3. CASE /\ phase' = phase /\ thread["event"].pc \notin {"read", "load"}
             /\ thread'["event"].pc \notin {"read", "load"}
    <3>1. UNCHANGED << state, armed >>
      BY <1>7 DEF EventMoves, OnSwitchContext, LoadReads, TimeChange, SetScreenOff, RestartTimer, RestartWithin,
         RestartAllTimer, HaveScreenOffOperate, GetScreenOffOperateInfo, ScreenOffDone, timerVars, history
    <3> QED
      BY <2>3, <3>1, TimersKept
  <2> QED
    BY <1>7, <2>1, <2>2, <2>3, EventPlaces
<1>8. ASSUME NEW t \in Threads, UpdateDarkModeSchedule(t) PROVE TimersInv'
  <2>1. UNCHANGED << phase, state, armed >>
    BY <1>8 DEF UpdateDarkModeSchedule, settingVars, timerVars
  <2>2. /\ \A u \in Threads \ {t} : thread'[u] = thread[u]
        /\ thread'[t] = Idle \/ thread'[t].pc \notin Waiting
           \/ thread'[t] = [thread[t] EXCEPT !.pc = "saveMode", !.value = temp]
    BY <1>8, UpdateShape
  <2>3. thread[t] \in Records
    BY DEF ThreadsOK
  <2>4. thread'[t].pc \notin {"read", "load"}
    <3>1. [thread[t] EXCEPT !.pc = "saveMode", !.value = temp].pc = "saveMode" /\ Idle.pc = "idle"
      BY <2>3 DEF Idle, Records
    <3> QED
      BY <2>2, <3>1 DEF Waiting
  <2> QED
    BY <1>0, <2>1, <2>2, <2>4, TimersKept
<1>9. CASE UNCHANGED vars
  BY <1>9, TimersKept DEF vars, settingVars, timerVars, history
<1> QED
  BY <1>1, <1>2, <1>3, <1>4, <1>5, <1>6, <1>7, <1>8, <1>9, NextCases

-----------------------------------------------------------------------------
(* The manual choice and its parameters.                                   *)

SavingPCs == {"save", "saveMode", "saveWindow"}
Persisted ==
    /\ tempParam.mode = (IF temp = Unset THEN "Normal" ELSE "Temp")
    /\ temp # Unset => tempParam.until = temp

\* A thread is the only one that saves, and has the choice as it is.
Saves(t) ==
    /\ thread[t].pc \in SavingPCs
    /\ \A u \in Threads \ {t} : thread[u].pc \notin SavingPCs
    /\ thread[t].pc \in {"saveMode", "saveWindow"} => thread[t].value = temp
    /\ thread[t].pc = "saveWindow" => temp # Unset /\ tempParam.mode = "Temp"

NobodySaves == \A t \in Threads : thread[t].pc \notin SavingPCs
Loaded == phase # "booting" /\ thread["event"].pc \notin {"read", "load"}

\* From loading on, and until two threads save at a time, the choice is in its
\* parameters or one thread is about to bring it there.
ChoiceInv == ~torn /\ Loaded => (NobodySaves /\ Persisted) \/ \E t \in Threads : Saves(t)

\* Most steps have nothing to do with the choice.
LEMMA ChoiceKept ==
    ASSUME ChoiceInv, UNCHANGED << temp, tempParam, torn >>, Loaded' => Loaded,
           NEW t \in Threads, \A u \in Threads \ {t} : thread'[u] = thread[u],
           thread'[t] = thread[t] \/ (thread[t].pc \notin SavingPCs /\ thread'[t].pc \notin SavingPCs)
    PROVE  ChoiceInv'
<1> SUFFICES ASSUME ~torn, Loaded
             PROVE  ((NobodySaves /\ Persisted) \/ \E u \in Threads : Saves(u))'
  BY DEF ChoiceInv
<1>1. ASSUME NEW u \in Threads
      PROVE  thread'[u] = thread[u] \/ (thread[u].pc \notin SavingPCs /\ thread'[u].pc \notin SavingPCs)
  <2>1. CASE u = t
    BY <2>1
  <2>2. CASE u # t
    BY <1>1, <2>2
  <2> QED
    BY <2>1, <2>2
<1>2. CASE NobodySaves /\ Persisted
  BY <1>1, <1>2 DEF NobodySaves, Persisted
<1>3. ASSUME NEW v \in Threads, Saves(v) PROVE Saves(v)'
  BY <1>1, <1>3 DEF Saves
<1> QED
  BY <1>2, <1>3 DEF ChoiceInv

\* A thread that changes the choice saves it, and is the only one to do so or torn.
LEMMA ChoiceSaved ==
    ASSUME NEW t \in Threads, Tears(t), thread'[t].pc = "save",
           \A u \in Threads \ {t} : thread'[u] = thread[u]
    PROVE  ChoiceInv'
<1> SUFFICES ASSUME ~torn' PROVE Saves(t)'
  BY DEF ChoiceInv
<1>1. \A u \in Threads \ {t} : thread'[u].pc \notin SavingPCs
  BY DEF Tears, SavingPCs
<1> QED
  BY <1>1 DEF Saves, SavingPCs

LEMMA InitChoice == Init => ChoiceInv
<1> SUFFICES ASSUME Init PROVE NobodySaves /\ Persisted
  BY DEF ChoiceInv
<1>1. \A t \in Threads : thread[t].pc = "idle"
  BY DEF Init, Idle
<1> QED
  BY <1>1 DEF Init, NobodySaves, Persisted, SavingPCs, Normal

\* The steps of UpdateDarkModeSchedule: only the last four are about the choice.
LEMMA UpdateChoice ==
    ASSUME Base, ChoiceInv, NEW t \in Threads, UpdateDarkModeSchedule(t)
    PROVE  ChoiceInv'
<1> USE DEF Base
<1>1. /\ \A u \in Threads \ {t} : thread'[u] = thread[u]
      /\ thread[t].pc \notin Waiting /\ thread[t] \in Records
      /\ \/ thread'[t] = Idle
         \/ thread'[t].pc \notin Waiting /\ thread'[t] = [thread[t] EXCEPT !.pc = thread'[t].pc]
         \/ /\ thread[t].pc = "save" /\ temp \in Nat
            /\ thread'[t] = [thread[t] EXCEPT !.pc = "saveMode", !.value = temp]
  BY UpdateShape DEF ThreadsOK
<1>2. Loaded' => Loaded
  <2>1. phase' = phase
    BY DEF UpdateDarkModeSchedule, settingVars
  <2>2. thread["event"].pc \in {"read", "load"} => thread'["event"] = thread["event"]
    BY <1>1 DEF Waiting, Threads
  <2> QED
    BY <2>1, <2>2 DEF Loaded
<1>3. ASSUME Done(t) PROVE thread'[t].pc \notin SavingPCs
  <2>1. CASE thread'[t] = Idle
    BY <2>1 DEF Idle, SavingPCs
  <2>2. CASE thread[t].then \in {"rearm", "dequeue"} /\ thread'[t] = [thread[t] EXCEPT !.pc = thread[t].then]
    BY <1>1, <2>2 DEF Records, SavingPCs
  <2> QED
    BY <1>1, <1>3, <2>1, <2>2, IsDone
<1>4. ASSUME NEW pc, Goto(t, pc) PROVE thread'[t].pc = pc /\ thread'[t].value = thread[t].value
  BY <1>1, <1>4 DEF Goto, ThreadsOK, Records
<1>11. ASSUME UNCHANGED << temp, tempParam, torn >>, thread[t].pc \notin SavingPCs, thread'[t].pc \notin SavingPCs
       PROVE  ChoiceInv'
  BY <1>1, <1>2, <1>11, ChoiceKept
<1>5. CASE ResetScreenOffOperateInfo(t) \/ IsScreenOff(t) \/ CheckTemporaryStateEffective(t)
           \/ SetScreenOffOperateInfo(t)
  <2>1. thread[t].pc \notin SavingPCs /\ UNCHANGED << temp, tempParam, torn >>
    BY <1>5 DEF ResetScreenOffOperateInfo, IsScreenOff, CheckTemporaryStateEffective,
       SetScreenOffOperateInfo, At, SavingPCs, tempVars
  <2>2. Done(t) \/ \E pc \in {"configuration", "screen", "now", "later", "enqueue"} : Goto(t, pc)
    BY <1>5 DEF ResetScreenOffOperateInfo, IsScreenOff, CheckTemporaryStateEffective, SetScreenOffOperateInfo
  <2>3. thread'[t].pc \notin SavingPCs
    BY <1>3, <1>4, <2>2 DEF SavingPCs
  <2> QED
    BY <1>11, <2>1, <2>3
<1>6. CASE UpdateConfiguration(t) \/ ConfigurePersistence(t)
  <2>1. thread[t].pc \notin SavingPCs /\ UNCHANGED << temp, tempParam, torn >>
    BY <1>6 DEF UpdateConfiguration, ConfigurePersistence, SetColor, At, SavingPCs, tempVars
  <2>2. \E pc \in {"switch", "usersParam", "param", "notify", "normal"} : Goto(t, pc)
    BY <1>6 DEF UpdateConfiguration, ConfigurePersistence, SetColor
  <2>3. thread'[t].pc \notin SavingPCs
    BY <1>4, <2>2 DEF SavingPCs
  <2> QED
    BY <1>11, <2>1, <2>3
<1>7. CASE SetColorModeNormal(t)
  <2>1. CASE temp # Unset
    <3>1. Goto(t, "save") /\ Tears(t)
      BY <1>7, <2>1 DEF SetColorModeNormal
    <3> QED
      BY <1>1, <1>4, <3>1, ChoiceSaved
  <2>2. CASE temp = Unset
    <3>1. Done(t) /\ UNCHANGED << temp, tempParam, torn >> /\ thread[t].pc \notin SavingPCs
      BY <1>7, <2>2 DEF SetColorModeNormal, At, SavingPCs
    <3> QED
      BY <1>3, <1>11, <3>1
  <2> QED
    BY <2>1, <2>2
<1>8. ASSUME thread[t].pc \in SavingPCs, ~torn, Loaded PROVE Saves(t)
  BY <1>8 DEF ChoiceInv, Saves, NobodySaves
<1>9. ASSUME Saved(t) PROVE thread'[t].pc \notin SavingPCs
  BY <1>3, <1>4, <1>9 DEF Saved, SavingPCs
<1>10. CASE CopyTempColorModeInfo(t) \/ SaveTempColorMode(t) \/ SaveTempWindow(t)
  <2>1. thread[t].pc \in SavingPCs /\ torn' = torn /\ temp' = temp
    BY <1>10 DEF CopyTempColorModeInfo, SaveTempColorMode, SaveTempWindow, At, SavingPCs, tempVars
  <2> SUFFICES ASSUME Saves(t) PROVE (NobodySaves /\ Persisted)' \/ Saves(t)'
    BY <1>2, <1>8, <2>1 DEF ChoiceInv
  <2>2. \A u \in Threads \ {t} : thread'[u].pc \notin SavingPCs
    BY <1>1 DEF Saves
  <2>3. CASE CopyTempColorModeInfo(t)
    <3>1. thread' = [thread EXCEPT ![t].pc = "saveMode", ![t].value = temp] /\ tempParam' = tempParam
      BY <2>3 DEF CopyTempColorModeInfo, tempVars
    <3>2. thread'[t].pc = "saveMode" /\ thread'[t].value = temp
      BY <1>1, <3>1 DEF ThreadsOK, Records
    <3> QED
      BY <2>1, <2>2, <3>2 DEF Saves, SavingPCs
  <2>4. CASE SaveTempColorMode(t)
    <3>1. thread[t].value = temp
      BY <2>4 DEF SaveTempColorMode, At, Saves
    <3>2. CASE temp # Unset
      <4>1. tempParam' = [tempParam EXCEPT !.mode = "Temp"] /\ Goto(t, "saveWindow")
        BY <2>4, <3>1, <3>2 DEF SaveTempColorMode
      <4>2. tempParam'.mode = "Temp" /\ thread'[t].pc = "saveWindow" /\ thread'[t].value = temp
        BY <1>4, <3>1, <4>1 DEF DataOK
      <4> QED
        BY <2>1, <2>2, <3>2, <4>2 DEF Saves, SavingPCs
    <3>3. CASE temp = Unset
      <4>1. tempParam' = [tempParam EXCEPT !.mode = "Normal"] /\ Saved(t)
        BY <2>4, <3>1, <3>3 DEF SaveTempColorMode
      <4>2. tempParam'.mode = "Normal" /\ thread'[t].pc \notin SavingPCs
        BY <1>9, <4>1 DEF DataOK
      <4> QED
        BY <2>1, <2>2, <3>3, <4>2 DEF NobodySaves, Persisted
    <3> QED
      BY <3>2, <3>3
  <2>5. CASE SaveTempWindow(t)
    <3>1. thread[t].value = temp /\ temp # Unset /\ tempParam.mode = "Temp"
      BY <2>5 DEF SaveTempWindow, At, Saves
    <3>2. tempParam' = [tempParam EXCEPT !.until = temp] /\ Saved(t)
      BY <2>5, <3>1 DEF SaveTempWindow
    <3>3. tempParam'.mode = "Temp" /\ tempParam'.until = temp /\ thread'[t].pc \notin SavingPCs
      BY <1>9, <3>1, <3>2 DEF DataOK
    <3> QED
      BY <2>1, <2>2, <3>1, <3>3 DEF NobodySaves, Persisted
  <2> QED
    BY <1>10, <2>3, <2>4, <2>5
<1> QED
  BY <1>5, <1>6, <1>7, <1>10 DEF UpdateDarkModeSchedule

LEMMA NextChoice == Base /\ ChoiceInv /\ [Next]_vars => ChoiceInv'
<1> SUFFICES ASSUME Base, ChoiceInv, [Next]_vars PROVE ChoiceInv'
  OBVIOUS
<1> USE DEF Base
<1>2. "event" \in Threads /\ "ipc" \in Threads /\ "timer" \in Threads /\ Keys \subseteq Threads
      /\ "event" \notin Keys
  BY DEF Threads, Keys
<1>1. ASSUME UNCHANGED << temp, tempParam, torn, thread >>, phase' = phase \/ phase = "registered"
      PROVE  ChoiceInv'
  <2>1. Loaded' => Loaded
    BY <1>1 DEF Loaded
  <2> QED
    BY <1>1, <1>2, <2>1, ChoiceKept
<1>3. CASE Environment
  <2>1. CASE Boundary \/ ScreenOnCallback \/ LeaveContext \/ (\E mode \in Modes : WriteSetting("mode", mode))
             \/ (\E time \in Times : WriteSetting("time", time))
    <3>1. UNCHANGED << temp, tempParam, torn, thread >> /\ (phase' = phase \/ phase = "registered")
      BY <2>1 DEF Boundary, ScreenOnCallback, WriteSetting, LeaveContext, settingVars, tempVars, history
    <3> QED
      BY <3>1, <1>1
  <2>2. CASE Crash
    <3>1. phase' = "booting"
      BY <2>2 DEF Crash
    <3> QED
      BY <3>1 DEF ChoiceInv, Loaded
  <2> QED
    BY <1>3, <2>1, <2>2 DEF Environment
<1>4. CASE LoadUserSettingData
  <2>1. /\ \A u \in Threads \ {"event"} : thread'[u] = thread[u]
        /\ thread'["event"].pc \in {"idle", "queue"}
    <3> DEFINE s == thread["event"].value
    <3>1. s \in Settings /\ OnStateChangeLocked("event", s, FALSE, TRUE)
      BY <1>2, <1>4 DEF LoadUserSettingData, At, ThreadsOK, HasRead
    <3> HIDE DEF s
    <3>2. /\ \A u \in Threads \ {"event"} : thread'[u] = thread[u]
          /\ \/ thread'["event"] = Idle
             \/ thread'["event"] = [Idle EXCEPT !.pc = "queue", !.dark = ColorOf(s), !.reset = FALSE, !.boot = TRUE]
      BY <1>2, <3>1, Starts
    <3> QED
      <4>1. [Idle EXCEPT !.pc = "queue", !.dark = ColorOf(s), !.reset = FALSE, !.boot = TRUE].pc = "queue"
            /\ Idle.pc = "idle"
        BY DEF Idle
      <4> QED
        BY <3>2, <4>1
  <2>2. temp' = Restored.until /\ tempParam' = [Restored EXCEPT !.until = tempParam.until] /\ Tears("event")
    BY <1>4 DEF LoadUserSettingData
  <2>3. Persisted'
    BY <2>2 DEF Persisted, Restored, Normal, TempEffective, Unset, DataOK
  <2>4. ~torn' => NobodySaves'
    BY <2>1, <2>2 DEF Tears, NobodySaves, SavingPCs
  <2> QED
    BY <2>3, <2>4 DEF ChoiceInv
<1>5. ASSUME NEW key \in Keys, ObserverReads(key) \/ SettingDataUpdateFunc(key) PROVE ChoiceInv'
  <2>1. UNCHANGED << temp, tempParam, torn, phase >> /\ thread[key].pc \in {"idle", "observe"}
    BY <1>5 DEF ObserverReads, SettingDataUpdateFunc, settingVars, tempVars, history, At
  <2>2. (\A u \in Threads \ {key} : thread'[u] = thread[u]) /\ thread'[key].pc \in {"idle", "observe", "queue"}
    <3>1. CASE ObserverReads(key)
      <4> DEFINE r == [Idle EXCEPT !.pc = "observe", !.value = table[key]]
      <4>1. r.pc = "observe"
        BY DEF Idle
      <4>2. thread' = [thread EXCEPT ![key] = r]
        BY <3>1 DEF ObserverReads
      <4> HIDE DEF r
      <4> QED
        BY <1>2, <4>1, <4>2 DEF ThreadsOK
    <3>2. CASE SettingDataUpdateFunc(key)
      <4>1. PICK s : OnStateChangeLocked(key, s, TRUE, FALSE)
        BY <3>2 DEF SettingDataUpdateFunc
      <4> DEFINE r == [Idle EXCEPT !.pc = "queue", !.dark = ColorOf(s), !.reset = TRUE, !.boot = FALSE]
      <4>2. r.pc = "queue" /\ Idle.pc = "idle"
        BY DEF Idle
      <4>3. thread' = [thread EXCEPT ![key] = r] \/ thread' = [thread EXCEPT ![key] = Idle]
        BY <4>1 DEF OnStateChangeLocked
      <4> HIDE DEF r
      <4> QED
        BY <1>2, <4>2, <4>3 DEF ThreadsOK
    <3> QED
      BY <1>5, <3>1, <3>2
  <2>4. Loaded' => Loaded
    BY <1>2, <2>1, <2>2 DEF Loaded
  <2>5. thread[key].pc \notin SavingPCs /\ thread'[key].pc \notin SavingPCs
    BY <2>1, <2>2 DEF SavingPCs
  <2> QED
    BY <1>2, <2>1, <2>2, <2>4, <2>5, ChoiceKept
<1>6. CASE TimerCallback \/ CheckTimerCallbackParams
  <2>1. UNCHANGED << temp, tempParam, torn, phase >> /\ thread["timer"].pc \in {"idle", "check"}
    BY <1>6 DEF TimerCallback, CheckTimerCallbackParams, settingVars, tempVars, history, At
  <2>2. (\A u \in Threads \ {"timer"} : thread'[u] = thread[u]) /\ thread'["timer"].pc \in {"idle", "check", "queue"}
    <3>1. CASE TimerCallback
      <4> DEFINE r == [Idle EXCEPT !.pc = "check", !.value = fired]
      <4>1. r.pc = "check"
        BY DEF Idle
      <4>2. thread' = [thread EXCEPT !["timer"] = r]
        BY <3>1 DEF TimerCallback
      <4> HIDE DEF r
      <4> QED
        BY <1>2, <4>1, <4>2 DEF ThreadsOK
    <3>2. CASE CheckTimerCallbackParams
      <4> DEFINE r == [Idle EXCEPT !.pc = "queue", !.dark = InDarkInterval(state.time)]
      <4>1. r.pc = "queue" /\ Idle.pc = "idle"
        BY DEF Idle
      <4>2. thread' = [thread EXCEPT !["timer"] = r] \/ thread' = [thread EXCEPT !["timer"] = Idle]
        BY <3>2 DEF CheckTimerCallbackParams
      <4> HIDE DEF r
      <4> QED
        BY <1>2, <4>1, <4>2 DEF ThreadsOK
    <3> QED
      BY <1>6, <3>1, <3>2
  <2>4. Loaded' => Loaded
    BY <1>2, <2>1, <2>2 DEF Loaded
  <2>5. thread["timer"].pc \notin SavingPCs /\ thread'["timer"].pc \notin SavingPCs
    BY <2>1, <2>2 DEF SavingPCs
  <2> QED
    BY <1>2, <2>1, <2>2, <2>4, <2>5, ChoiceKept
<1>7. CASE EventMoves
  <2>1. UNCHANGED << temp, tempParam, torn >>
    BY <1>7 DEF EventMoves, OnSwitchContext, LoadReads, TimeChange, SetScreenOff, RestartTimer, RestartWithin,
       RestartAllTimer, HaveScreenOffOperate, GetScreenOffOperateInfo, ScreenOffDone, tempVars, history
  <2>2. thread["event"].pc \in {"idle", "read", "restart", "within", "rearm", "have", "get", "dequeue"}
    BY <1>7 DEF EventMoves, OnSwitchContext, LoadReads, TimeChange, SetScreenOff, RestartTimer, RestartWithin,
       RestartAllTimer, HaveScreenOffOperate, GetScreenOffOperateInfo, ScreenOffDone, At
  <2>3. /\ thread'["event"].pc \notin SavingPCs
        /\ thread'["event"].pc \in {"read", "load"} \/ (phase' = phase /\ thread["event"].pc \notin {"read", "load"})
    BY <1>7, EventPlaces DEF SavingPCs
  <2>4. Loaded' => Loaded
    BY <2>2, <2>3 DEF Loaded
  <2>5. thread["event"].pc \notin SavingPCs /\ thread'["event"].pc \notin SavingPCs
    BY <2>2, <2>3 DEF SavingPCs
  <2>6. \A u \in Threads \ {"event"} : thread'[u] = thread[u]
    BY <1>7, EventBase
  <2> QED
    BY <1>2, <2>1, <2>4, <2>5, <2>6, ChoiceKept
<1>8. CASE IpcMoves
  <2>1. \A u \in Threads \ {"ipc"} : thread'[u] = thread[u]
    BY <1>8, IpcBase
  <2>2. phase' = phase /\ thread'["event"] = thread["event"]
    BY <1>2, <1>8, <2>1 DEF IpcMoves, SetDarkMode, IsDarkModeCustomAuto, DoSwitchTemporaryColorMode,
       NotifyDarkModeUpdate, settingVars
  <2>3. CASE SetDarkMode \/ IsDarkModeCustomAuto \/ NotifyDarkModeUpdate
    <3>1. UNCHANGED << temp, tempParam, torn >> /\ thread["ipc"].pc \in {"idle", "switch", "notify"}
      BY <2>3 DEF SetDarkMode, IsDarkModeCustomAuto, NotifyDarkModeUpdate, tempVars, history, At
    <3>2. \/ thread' = [thread EXCEPT !["ipc"] = Idle]
          \/ thread' = [thread EXCEPT !["ipc"] = [Idle EXCEPT !.pc = "configuration", !.dark = ~color.usersParam]]
          \/ \E pc \in {"choose", "usersParam"} : Goto("ipc", pc)
      BY <2>3 DEF SetDarkMode, IsDarkModeCustomAuto, NotifyDarkModeUpdate
    <3>3. thread'["ipc"].pc \in {"idle", "configuration", "choose", "usersParam"}
      <4>1. [Idle EXCEPT !.pc = "configuration", !.dark = ~color.usersParam].pc = "configuration" /\ Idle.pc = "idle"
        BY DEF Idle
      <4>2. \A pc : Goto("ipc", pc) => thread'["ipc"].pc = pc
        BY <1>2 DEF Goto, ThreadsOK, Records
      <4> QED
        BY <1>2, <3>2, <4>1, <4>2 DEF ThreadsOK
    <3>4. thread["ipc"].pc \notin SavingPCs /\ thread'["ipc"].pc \notin SavingPCs
      BY <3>1, <3>3 DEF SavingPCs
    <3> QED
      BY <1>2, <2>1, <2>2, <3>1, <3>4, ChoiceKept DEF Loaded
  <2>4. CASE DoSwitchTemporaryColorMode
    <3>1. Tears("ipc") /\ Goto("ipc", "save")
      BY <2>4 DEF DoSwitchTemporaryColorMode
    <3>2. thread'["ipc"].pc = "save"
      BY <1>2, <3>1 DEF Goto, ThreadsOK, Records
    <3> QED
      BY <1>2, <2>1, <3>1, <3>2, ChoiceSaved
  <2> QED
    BY <1>8, <2>3, <2>4 DEF IpcMoves
<1>9. CASE UNCHANGED vars
  <2>1. UNCHANGED << temp, tempParam, torn, thread, phase >>
    BY <1>9 DEF vars, settingVars, tempVars, history
  <2> QED
    BY <2>1, <1>1
<1> QED
  BY <1>3, <1>4, <1>5, <1>6, <1>7, <1>8, <1>9, NextCases, UpdateChoice

\* The manual choice in memory is the one that a restart finds, unless two
\* threads saved at a time, whatever crashes there are between two parameters.
THEOREM ChoiceIsPersistedHolds == Spec => []ChoiceIsPersisted
<1>1. ChoiceInv => ChoiceIsPersisted
  BY DEF ChoiceInv, ChoiceIsPersisted, Quiet, At, Loaded, Saves, SavingPCs, Persisted, Threads
<1> QED
  BY <1>1, InitBase, InitChoice, NextBase, NextChoice, PTL DEF Spec

-----------------------------------------------------------------------------
(* The three places that hold the colour.                                  *)

Agree == color.configuration = color.usersParam /\ color.usersParam = color.param

\* What the places hold while a thread is the only one that has decided.
Stage(t) ==
    /\ thread[t].pc \notin Waiting
    /\ thread[t].pc = "queue" => thread[t].reset \/ Agree
    /\ thread[t].pc \in {"screen", "now", "later", "enqueue", "within", "get", "dequeue", "rearm", "notify"} => Agree
    /\ thread[t].pc = "normal" => Agree /\ t # "ipc"
    /\ thread[t].pc \in {"usersParam", "param", "switch", "choose"} => color.configuration = thread[t].dark
    /\ thread[t].pc = "param" => color.usersParam = thread[t].dark
    /\ thread[t].pc \in SavingPCs => IF t = "ipc" THEN color.configuration = thread[t].dark ELSE Agree

NobodyDecided == \A t \in Threads : thread[t].pc \in Waiting
Decided(t) == Stage(t) /\ \A u \in Threads \ {t} : thread[u].pc \in Waiting

\* Unless decisions overlapped, the places agree or one thread is about to make
\* them agree.
ColorInv == clean => (NobodyDecided /\ Agree) \/ \E t \in Threads : Decided(t)

\* A thread comes or goes without deciding.
LEMMA ColorWaits ==
    ASSUME ColorInv, clean' => clean, color' = color, NEW t \in Threads,
           \A u \in Threads \ {t} : thread'[u] = thread[u],
           thread'[t] = thread[t] \/ (thread[t].pc \in Waiting /\ thread'[t].pc \in Waiting)
    PROVE  ColorInv'
<1> SUFFICES ASSUME clean
             PROVE  ((NobodyDecided /\ Agree) \/ \E u \in Threads : Decided(u))'
  BY DEF ColorInv
<1>1. ASSUME NEW u \in Threads
      PROVE  thread'[u] = thread[u] \/ (thread[u].pc \in Waiting /\ thread'[u].pc \in Waiting)
  <2>1. CASE u = t
    BY <2>1
  <2>2. CASE u # t
    BY <1>1, <2>2
  <2> QED
    BY <2>1, <2>2
<1>2. CASE NobodyDecided /\ Agree
  BY <1>1, <1>2 DEF NobodyDecided, Agree
<1>3. ASSUME NEW v \in Threads, Decided(v) PROVE Decided(v)'
  <2>1. thread'[v] = thread[v]
    BY <1>1, <1>3 DEF Decided, Stage
  <2>2. Stage(v)'
    BY <1>3, <2>1 DEF Decided, Stage, Agree
  <2> QED
    BY <1>1, <1>3, <2>2 DEF Decided
<1> QED
  BY <1>2, <1>3 DEF ColorInv

\* A thread decides: if it is the only one, the places agree.
LEMMA ColorDecides ==
    ASSUME ColorInv, NEW t \in Threads, thread[t].pc \in Waiting, clean' => clean /\ Alone(t), color' = color,
           \A u \in Threads \ {t} : thread'[u] = thread[u],
           Agree => thread'[t].pc \in Waiting \/ Stage(t)'
    PROVE  ColorInv'
<1> SUFFICES ASSUME clean, Alone(t)
             PROVE  ((NobodyDecided /\ Agree) \/ \E u \in Threads : Decided(u))'
  BY DEF ColorInv
<1>1. NobodyDecided
  BY DEF Alone, NobodyDecided
<1>2. Agree /\ Agree'
  BY <1>1 DEF ColorInv, NobodyDecided, Decided, Stage, Agree
<1>3. \A u \in Threads \ {t} : thread'[u].pc \in Waiting
  BY <1>1 DEF NobodyDecided
<1>4. CASE thread'[t].pc \in Waiting
  BY <1>2, <1>3, <1>4 DEF NobodyDecided
<1>5. CASE Stage(t)'
  BY <1>3, <1>5 DEF Decided
<1> QED
  BY <1>2, <1>4, <1>5

\* A thread goes on with what it decided, or has done it.
LEMMA ColorGoesOn ==
    ASSUME ColorInv, clean' = clean, NEW t \in Threads, thread[t].pc \notin Waiting,
           \A u \in Threads \ {t} : thread'[u] = thread[u],
           Stage(t) => (thread'[t].pc \in Waiting /\ Agree') \/ Stage(t)'
    PROVE  ColorInv'
<1> SUFFICES ASSUME clean
             PROVE  ((NobodyDecided /\ Agree) \/ \E u \in Threads : Decided(u))'
  BY DEF ColorInv
<1>1. Decided(t)
  BY DEF ColorInv, NobodyDecided, Decided
<1>2. \A u \in Threads \ {t} : thread'[u].pc \in Waiting
  BY <1>1 DEF Decided
<1>3. CASE thread'[t].pc \in Waiting /\ Agree'
  BY <1>2, <1>3 DEF NobodyDecided
<1>4. CASE Stage(t)'
  BY <1>2, <1>4 DEF Decided
<1> QED
  BY <1>1, <1>3, <1>4 DEF Decided

LEMMA InitColor == Init => ColorInv
<1> SUFFICES ASSUME Init PROVE NobodyDecided /\ Agree
  BY DEF ColorInv
<1>1. \A t \in Threads : thread[t].pc = "idle"
  BY DEF Init, Idle
<1> QED
  BY <1>1 DEF Init, NobodyDecided, Waiting, Agree, Places

LEMMA UpdateColor ==
    ASSUME Base, ColorInv, NEW t \in Threads, UpdateDarkModeSchedule(t)
    PROVE  ColorInv'
<1> USE DEF Base
<1>1. /\ \A u \in Threads \ {t} : thread'[u] = thread[u]
      /\ thread[t].pc \notin Waiting /\ thread[t] \in Records /\ clean' = clean
  BY UpdateShape DEF ThreadsOK, UpdateDarkModeSchedule
<1> SUFFICES ASSUME Stage(t) PROVE (thread'[t].pc \in Waiting /\ Agree') \/ Stage(t)'
  BY <1>1, ColorGoesOn
<1>2. ASSUME Done(t), Agree, color' = color PROVE (thread'[t].pc \in Waiting /\ Agree') \/ Stage(t)'
  <2>1. Agree'
    BY <1>2 DEF Agree
  <2>2. CASE thread'[t] = Idle
    BY <2>1, <2>2 DEF Idle, Waiting
  <2>3. CASE thread[t].then \in {"rearm", "dequeue"} /\ thread'[t] = [thread[t] EXCEPT !.pc = thread[t].then]
    <3>1. thread'[t].pc \in {"rearm", "dequeue"}
      BY <1>1, <2>3 DEF Records
    <3> QED
      BY <2>1, <3>1 DEF Stage, Waiting, SavingPCs
  <2> QED
    BY <1>1, <1>2, <2>2, <2>3, IsDone
<1>3. ASSUME NEW pc, Goto(t, pc)
      PROVE  thread'[t].pc = pc /\ thread'[t].dark = thread[t].dark /\ thread'[t].reset = thread[t].reset
  BY <1>1, <1>3 DEF Goto, ThreadsOK, Records
<1>4. ASSUME thread'[t].pc = "configuration" PROVE Stage(t)'
  BY <1>4 DEF Stage, Waiting, SavingPCs
<1>5. ASSUME Agree, color' = color, thread'[t].pc \in {"screen", "now", "later", "enqueue"} PROVE Stage(t)'
  BY <1>5 DEF Stage, Waiting, SavingPCs, Agree
<1>6. ASSUME IF t = "ipc" THEN color.configuration = thread'[t].dark ELSE Agree,
             color' = color, thread'[t].pc \in SavingPCs
      PROVE  Stage(t)'
  BY <1>6 DEF Stage, Waiting, SavingPCs, Agree
<1>7. CASE ResetScreenOffOperateInfo(t) \/ IsScreenOff(t)
  <2>1. color' = color
    BY <1>7 DEF ResetScreenOffOperateInfo, IsScreenOff
  <2>2. thread'[t].pc = "configuration" \/ (thread'[t].pc \in {"screen", "now", "later"} /\ Agree)
    <3>1. CASE ResetScreenOffOperateInfo(t)
      <4>1. IF thread[t].reset THEN Goto(t, "configuration") ELSE Goto(t, "screen") /\ Agree
        BY <3>1 DEF ResetScreenOffOperateInfo, At, Stage
      <4> QED
        BY <1>3, <4>1
    <3>2. CASE IsScreenOff(t)
      <4>1. (Goto(t, "now") \/ Goto(t, "later")) /\ Agree
        BY <3>2 DEF IsScreenOff, At, Stage
      <4> QED
        BY <1>3, <4>1
    <3> QED
      BY <1>7, <3>1, <3>2
  <2> QED
    BY <1>4, <1>5, <2>1, <2>2
<1>8. CASE CheckTemporaryStateEffective(t) \/ SetScreenOffOperateInfo(t)
  <2>1. color' = color /\ Agree
    BY <1>8 DEF CheckTemporaryStateEffective, SetScreenOffOperateInfo, At, Stage
  <2>2. Done(t) \/ Goto(t, "configuration") \/ Goto(t, "enqueue")
    BY <1>8 DEF CheckTemporaryStateEffective, SetScreenOffOperateInfo
  <2> QED
    BY <1>2, <1>3, <1>4, <1>5, <2>1, <2>2
<1>9. CASE UpdateConfiguration(t)
  <2>1. /\ color' = [color EXCEPT !["configuration"] = thread[t].dark]
        /\ Goto(t, "switch") \/ Goto(t, "usersParam")
    BY <1>9 DEF UpdateConfiguration, SetColor
  <2>2. color'.configuration = thread'[t].dark /\ thread'[t].pc \in {"switch", "usersParam"}
    BY <1>3, <2>1 DEF DataOK, Places
  <2> QED
    BY <2>2 DEF Stage, Waiting, SavingPCs
<1>10. CASE ConfigurePersistence(t)
  <2>1. CASE SetColor(t, "usersParam", "param")
    <3>1. color' = [color EXCEPT !["usersParam"] = thread[t].dark] /\ Goto(t, "param") /\ thread[t].pc = "usersParam"
      BY <2>1 DEF SetColor, At
    <3>2. color.configuration = thread[t].dark
      BY <3>1 DEF Stage
    <3>3. color'.configuration = thread'[t].dark /\ color'.usersParam = thread'[t].dark /\ thread'[t].pc = "param"
      BY <1>3, <3>1, <3>2 DEF DataOK, Places
    <3> QED
      BY <3>3 DEF Stage, Waiting, SavingPCs
  <2>2. CASE SetColor(t, "param", IF t = "ipc" THEN "notify" ELSE "normal")
    <3>1. /\ color' = [color EXCEPT !["param"] = thread[t].dark] /\ thread[t].pc = "param"
          /\ IF t = "ipc" THEN Goto(t, "notify") ELSE Goto(t, "normal")
      BY <2>2 DEF SetColor, At
    <3>2. color.configuration = thread[t].dark /\ color.usersParam = thread[t].dark
      BY <3>1 DEF Stage
    <3>3. Agree' /\ thread'[t].pc = (IF t = "ipc" THEN "notify" ELSE "normal")
      BY <1>3, <3>1, <3>2 DEF DataOK, Places, Agree
    <3> QED
      BY <3>3 DEF Stage, Waiting, SavingPCs
  <2> QED
    BY <1>10, <2>1, <2>2 DEF ConfigurePersistence
<1>11. CASE SetColorModeNormal(t)
  <2>1. color' = color /\ Agree /\ t # "ipc" /\ (Done(t) \/ Goto(t, "save"))
    BY <1>11 DEF SetColorModeNormal, At, Stage
  <2> QED
    BY <1>2, <1>3, <1>6, <2>1 DEF SavingPCs
<1>12. CASE CopyTempColorModeInfo(t) \/ SaveTempColorMode(t) \/ SaveTempWindow(t)
  <2>1. color' = color /\ thread[t].pc \in SavingPCs
    BY <1>12 DEF CopyTempColorModeInfo, SaveTempColorMode, SaveTempWindow, At, SavingPCs
  <2>2. IF t = "ipc" THEN color.configuration = thread[t].dark ELSE Agree
    BY <2>1 DEF Stage
  <2>3. CASE CopyTempColorModeInfo(t)
    <3>1. thread' = [thread EXCEPT ![t].pc = "saveMode", ![t].value = temp]
      BY <2>3 DEF CopyTempColorModeInfo
    <3>2. thread'[t].pc = "saveMode" /\ thread'[t].dark = thread[t].dark
      BY <1>1, <3>1 DEF ThreadsOK, Records
    <3> QED
      BY <1>6, <2>1, <2>2, <3>2 DEF SavingPCs
  <2>4. CASE Goto(t, "saveWindow")
    <3>1. thread'[t].pc = "saveWindow" /\ thread'[t].dark = thread[t].dark
      BY <1>3, <2>4
    <3> QED
      BY <1>6, <2>1, <2>2, <3>1 DEF SavingPCs
  <2>5. CASE Saved(t)
    <3>1. CASE t = "ipc"
      <4>1. thread'[t].pc = "usersParam" /\ thread'[t].dark = thread[t].dark
        BY <1>3, <2>5, <3>1 DEF Saved
      <4> QED
        BY <2>1, <2>2, <3>1, <4>1 DEF Stage, Waiting, SavingPCs
    <3>2. CASE t # "ipc"
      BY <1>2, <2>1, <2>2, <2>5, <3>2 DEF Saved
    <3> QED
      BY <3>1, <3>2
  <2>6. CopyTempColorModeInfo(t) \/ Goto(t, "saveWindow") \/ Saved(t)
    BY <1>12 DEF SaveTempColorMode, SaveTempWindow
  <2> QED
    BY <2>3, <2>4, <2>5, <2>6
<1> QED
  BY <1>7, <1>8, <1>9, <1>10, <1>11, <1>12 DEF UpdateDarkModeSchedule

\* The steps of the thread of common events: three decide, three go on, and the
\* others wait.
LEMMA EventColor ==
    ASSUME Base, ColorInv, EventMoves
    PROVE  ColorInv'
<1> USE DEF Base
<1>1. /\ "event" \in Threads /\ "event" # "ipc" /\ thread["event"] \in Records /\ thread \in [Threads -> Records]
      /\ \A u \in Threads \ {"event"} : thread'[u] = thread[u]
  BY EventBase DEF ThreadsOK, Threads
<1>2. color' = color
  BY DEF EventMoves, OnSwitchContext, LoadReads, TimeChange, SetScreenOff, RestartTimer, RestartWithin,
       RestartAllTimer, HaveScreenOffOperate, GetScreenOffOperateInfo, ScreenOffDone
<1>3. \A pc : Goto("event", pc) => thread'["event"].pc = pc
  BY <1>1 DEF Goto, Records
<1>4. CASE OnSwitchContext \/ LoadReads \/ TimeChange \/ SetScreenOff
  <2>1. clean' = clean /\ thread["event"].pc \in {"idle", "read"}
    BY <1>4 DEF OnSwitchContext, LoadReads, TimeChange, SetScreenOff, history, At
  <2>2. thread'["event"].pc \in {"read", "load", "restart", "have"}
    <3>1. [Idle EXCEPT !.pc = "load", !.value = table].pc = "load"
      BY DEF Idle
    <3>2. \/ Goto("event", "read") \/ Goto("event", "restart") \/ Goto("event", "have")
          \/ thread' = [thread EXCEPT !["event"] = [Idle EXCEPT !.pc = "load", !.value = table]]
      BY <1>4 DEF OnSwitchContext, LoadReads, TimeChange, SetScreenOff
    <3> QED
      BY <1>1, <1>3, <3>1, <3>2
  <2>3. thread["event"].pc \in Waiting /\ thread'["event"].pc \in Waiting
    BY <2>1, <2>2 DEF Waiting
  <2> QED
    BY <1>1, <1>2, <2>1, <2>3, ColorWaits
<1>5. CASE RestartTimer \/ HaveScreenOffOperate
  <2>1. thread["event"].pc \in Waiting
    BY <1>5 DEF RestartTimer, HaveScreenOffOperate, At, Waiting
  <2>2. \/ clean' = (clean /\ Alone("event")) /\ thread'["event"].pc \in {"within", "get"}
        \/ clean' = clean /\ thread'["event"].pc = "idle"
    <3>1. CASE RestartTimer
      <4> DEFINE r == [Idle EXCEPT !.pc = "within", !.value = state.time]
      <4>1. r.pc = "within" /\ Idle.pc = "idle"
        BY DEF Idle
      <4>2. \/ clean' = (clean /\ Alone("event")) /\ thread' = [thread EXCEPT !["event"] = r]
            \/ clean' = clean /\ thread' = [thread EXCEPT !["event"] = Idle]
        BY <3>1 DEF RestartTimer, Decides
      <4> HIDE DEF r
      <4> QED
        BY <1>1, <4>1, <4>2
    <3>2. CASE HaveScreenOffOperate
      <4>1. \/ clean' = (clean /\ Alone("event")) /\ Goto("event", "get")
            \/ clean' = clean /\ Goto("event", "idle")
        BY <3>2 DEF HaveScreenOffOperate, Decides
      <4> QED
        BY <1>3, <4>1
    <3> QED
      BY <1>5, <3>1, <3>2
  <2>3. CASE clean' = (clean /\ Alone("event")) /\ thread'["event"].pc \in {"within", "get"}
    <3>1. Agree => Stage("event")'
      BY <1>2, <2>3 DEF Stage, Agree, Waiting, SavingPCs
    <3> QED
      BY <1>1, <1>2, <2>1, <2>3, <3>1, ColorDecides
  <2>4. CASE clean' = clean /\ thread'["event"].pc = "idle"
    BY <1>1, <1>2, <2>1, <2>4, ColorWaits DEF Waiting
  <2> QED
    BY <2>2, <2>3, <2>4
<1>6. CASE RestartWithin \/ GetScreenOffOperateInfo \/ RestartAllTimer \/ ScreenOffDone
  <2>1. clean' = clean /\ thread["event"].pc \in {"within", "get", "rearm", "dequeue"}
    BY <1>6 DEF RestartWithin, GetScreenOffOperateInfo, RestartAllTimer, ScreenOffDone, history, At
  <2>2. thread["event"].pc \notin Waiting /\ (Stage("event") => Agree /\ Agree')
    BY <1>2, <2>1 DEF Waiting, Stage, Agree
  <2>3. thread'["event"].pc \in {"queue", "configuration", "idle"}
    <3> DEFINE r == [Idle EXCEPT !.pc = "queue", !.dark = InDarkInterval(thread["event"].value), !.then = "rearm"]
               q == [Idle EXCEPT !.pc = "configuration", !.dark = (queue = "SWITCH_TO_DARK"), !.then = "dequeue"]
    <3>1. r.pc = "queue" /\ q.pc = "configuration" /\ Idle.pc = "idle"
      BY DEF Idle
    <3>2. \/ thread' = [thread EXCEPT !["event"] = r] \/ thread' = [thread EXCEPT !["event"] = q]
          \/ thread' = [thread EXCEPT !["event"] = Idle]
      BY <1>6 DEF RestartWithin, GetScreenOffOperateInfo, RestartAllTimer, ScreenOffDone
    <3> HIDE DEF r, q
    <3> QED
      BY <1>1, <3>1, <3>2
  <2>4. Stage("event") => (thread'["event"].pc \in Waiting /\ Agree') \/ Stage("event")'
    BY <2>2, <2>3 DEF Stage, Waiting, SavingPCs
  <2> QED
    BY <1>1, <2>1, <2>2, <2>4, ColorGoesOn
<1> QED
  BY <1>4, <1>5, <1>6 DEF EventMoves

LEMMA IpcColor ==
    ASSUME Base, ColorInv, IpcMoves
    PROVE  ColorInv'
<1> USE DEF Base
<1>1. /\ "ipc" \in Threads /\ thread["ipc"] \in Records /\ thread \in [Threads -> Records]
      /\ \A u \in Threads \ {"ipc"} : thread'[u] = thread[u]
  BY IpcBase DEF ThreadsOK, Threads
<1>2. color' = color
  BY DEF IpcMoves, SetDarkMode, IsDarkModeCustomAuto, DoSwitchTemporaryColorMode, NotifyDarkModeUpdate
<1>3. \A pc : Goto("ipc", pc) => thread'["ipc"].pc = pc /\ thread'["ipc"].dark = thread["ipc"].dark
  BY <1>1 DEF Goto, Records
<1>4. CASE SetDarkMode
  <2> DEFINE r == [Idle EXCEPT !.pc = "configuration", !.dark = ~color.usersParam]
  <2>1. r.pc = "configuration"
    BY DEF Idle
  <2>2. thread' = [thread EXCEPT !["ipc"] = r] /\ clean' = (clean /\ Alone("ipc")) /\ thread["ipc"].pc = "idle"
    BY <1>4 DEF SetDarkMode, Decides, At
  <2> HIDE DEF r
  <2>3. thread'["ipc"].pc = "configuration"
    BY <1>1, <2>1, <2>2
  <2>4. Stage("ipc")' /\ thread["ipc"].pc \in Waiting
    BY <2>2, <2>3 DEF Stage, Waiting, SavingPCs
  <2> QED
    BY <1>1, <1>2, <2>2, <2>4, ColorDecides
<1>5. CASE IsDarkModeCustomAuto \/ DoSwitchTemporaryColorMode
  <2>1. clean' = clean /\ thread["ipc"].pc \in {"switch", "choose"}
    BY <1>5 DEF IsDarkModeCustomAuto, DoSwitchTemporaryColorMode, history, At
  <2>2. Goto("ipc", "choose") \/ Goto("ipc", "usersParam") \/ Goto("ipc", "save")
    BY <1>5 DEF IsDarkModeCustomAuto, DoSwitchTemporaryColorMode
  <2>3. thread'["ipc"].pc \in {"choose", "usersParam", "save"} /\ thread'["ipc"].dark = thread["ipc"].dark
    BY <1>3, <2>2
  <2>4. thread["ipc"].pc \notin Waiting /\ (Stage("ipc") => Stage("ipc")')
    BY <1>2, <2>1, <2>3 DEF Stage, Waiting, SavingPCs
  <2> QED
    BY <1>1, <2>1, <2>4, ColorGoesOn
<1>6. CASE NotifyDarkModeUpdate
  <2>1. thread' = [thread EXCEPT !["ipc"] = Idle] /\ clean' = clean /\ thread["ipc"].pc = "notify"
    BY <1>6 DEF NotifyDarkModeUpdate, history, At
  <2>2. thread'["ipc"].pc \in Waiting
    BY <1>1, <2>1 DEF Idle, Waiting
  <2>3. thread["ipc"].pc \notin Waiting /\ (Stage("ipc") => Agree')
    BY <1>2, <2>1 DEF Stage, Waiting, Agree
  <2> QED
    BY <1>1, <2>1, <2>2, <2>3, ColorGoesOn
<1> QED
  BY <1>4, <1>5, <1>6 DEF IpcMoves

\* An observer repairs what overlapping decisions have left, if nobody disturbs it.
LEMMA ObserverColor ==
    ASSUME Base, ColorInv, NEW key \in Keys, ObserverReads(key) \/ SettingDataUpdateFunc(key)
    PROVE  ColorInv'
<1> USE DEF Base
<1>1. key \in Threads /\ key \in {"mode", "time"} /\ key # "ipc" /\ thread \in [Threads -> Records]
  BY DEF Threads, Keys, ThreadsOK
<1>2. color' = color
  BY DEF ObserverReads, SettingDataUpdateFunc
<1>3. CASE ObserverReads(key)
  <2> DEFINE r == [Idle EXCEPT !.pc = "observe", !.value = table[key]]
  <2>1. r.pc = "observe"
    BY DEF Idle
  <2>2. thread' = [thread EXCEPT ![key] = r] /\ clean' = clean /\ thread[key].pc = "idle"
    BY <1>3 DEF ObserverReads, history, At
  <2> HIDE DEF r
  <2>3. /\ \A u \in Threads \ {key} : thread'[u] = thread[u]
        /\ thread'[key].pc = "observe"
    BY <1>1, <2>1, <2>2
  <2> QED
    BY <1>1, <1>2, <2>2, <2>3, ColorWaits DEF Waiting
<1>4. CASE SettingDataUpdateFunc(key)
  <2> DEFINE s == [state EXCEPT ![key] = thread[key].value]
  <2>1. thread[key].value \in (IF key = "mode" THEN ModeNames ELSE Times) /\ thread[key].pc \in Waiting
    BY <1>1, <1>4 DEF SettingDataUpdateFunc, At, ThreadsOK, HasRead, Waiting
  <2>2. s \in [mode : ModeNames \cup {"INVALID"}, time : Times \cup {Unset}]
    BY <1>1, <2>1 DEF DataOK
  <2>3. /\ OnStateChangeLocked(key, s, TRUE, FALSE) /\ state' = s
        /\ clean' = (Alone(key) /\ (clean \/ HasColor(state')))
    BY <1>4 DEF SettingDataUpdateFunc, OnStateChangeLocked
  <2> HIDE DEF s
  <2>4. /\ \A u \in Threads \ {key} : thread'[u] = thread[u]
        /\ IF HasColor(s)
           THEN thread'[key] = [Idle EXCEPT !.pc = "queue", !.dark = ColorOf(s), !.reset = TRUE, !.boot = FALSE]
           ELSE thread'[key] = Idle
    BY <1>1, <2>2, <2>3, Starts
  <2>5. CASE HasColor(s)
    <3>1. thread'[key].pc = "queue" /\ thread'[key].reset
      BY <2>4, <2>5 DEF Idle
    <3>2. Stage(key)'
      BY <3>1 DEF Stage, Waiting, SavingPCs
    <3>3. clean' => \A u \in Threads \ {key} : thread'[u].pc \in Waiting
      BY <2>3, <2>4 DEF Alone
    <3> QED
      BY <1>1, <3>2, <3>3 DEF ColorInv, Decided
  <2>6. CASE ~HasColor(s)
    <3>1. thread'[key].pc \in Waiting
      BY <2>4, <2>6 DEF Idle, Waiting
    <3>2. clean' => clean /\ Alone(key)
      BY <2>3, <2>6
    <3> QED
      BY <1>1, <1>2, <2>1, <2>4, <3>1, <3>2, ColorDecides
  <2> QED
    BY <2>5, <2>6
<1> QED
  BY <1>3, <1>4

LEMMA TimerColor ==
    ASSUME Base, ColorInv, TimerCallback \/ CheckTimerCallbackParams
    PROVE  ColorInv'
<1> USE DEF Base
<1>1. "timer" \in Threads /\ "timer" # "ipc" /\ thread \in [Threads -> Records]
  BY DEF Threads, ThreadsOK
<1>2. color' = color /\ thread["timer"].pc \in Waiting
  BY DEF TimerCallback, CheckTimerCallbackParams, At, Waiting
<1> DEFINE r == [Idle EXCEPT !.pc = "check", !.value = fired]
           q == [Idle EXCEPT !.pc = "queue", !.dark = InDarkInterval(state.time)]
<1>3. r.pc = "check" /\ q.pc = "queue" /\ Idle.pc = "idle"
  BY DEF Idle
<1>4. \/ clean' = clean /\ thread' = [thread EXCEPT !["timer"] = r]
      \/ clean' = clean /\ thread' = [thread EXCEPT !["timer"] = Idle]
      \/ clean' = (clean /\ Alone("timer")) /\ thread' = [thread EXCEPT !["timer"] = q]
  BY DEF TimerCallback, CheckTimerCallbackParams, Decides, history
<1> HIDE DEF r, q
<1>5. /\ \A u \in Threads \ {"timer"} : thread'[u] = thread[u]
      /\ \/ clean' = clean /\ thread'["timer"].pc \in {"check", "idle"}
         \/ clean' = (clean /\ Alone("timer")) /\ thread'["timer"].pc = "queue"
  BY <1>1, <1>3, <1>4
<1>6. CASE clean' = clean /\ thread'["timer"].pc \in {"check", "idle"}
  <2>1. thread'["timer"].pc \in Waiting
    BY <1>6 DEF Waiting
  <2> QED
    BY <1>1, <1>2, <1>5, <1>6, <2>1, ColorWaits
<1>7. CASE clean' = (clean /\ Alone("timer")) /\ thread'["timer"].pc = "queue"
  <2>1. Agree => Stage("timer")'
    BY <1>2, <1>7 DEF Stage, Agree, Waiting, SavingPCs
  <2> QED
    BY <1>1, <1>2, <1>5, <1>7, <2>1, ColorDecides
<1> QED
  BY <1>5, <1>6, <1>7

LEMMA NextColor == Base /\ ColorInv /\ [Next]_vars => ColorInv'
<1> SUFFICES ASSUME Base, ColorInv, [Next]_vars PROVE ColorInv'
  OBVIOUS
<1> USE DEF Base
<1>1. "event" \in Threads /\ "event" # "ipc"
  BY DEF Threads
<1>2. ASSUME UNCHANGED << clean, color, thread >> PROVE ColorInv'
  BY <1>1, <1>2, ColorWaits
<1>3. CASE Environment
  <2>1. CASE Boundary \/ ScreenOnCallback \/ LeaveContext \/ (\E mode \in Modes : WriteSetting("mode", mode))
             \/ (\E time \in Times : WriteSetting("time", time))
    <3>1. UNCHANGED << clean, color, thread >>
      BY <2>1 DEF Boundary, ScreenOnCallback, WriteSetting, LeaveContext, history
    <3> QED
      BY <1>2, <3>1
  <2>2. CASE Crash
    <3>1. thread' = [t \in Threads |-> Idle] /\ color' = [c \in Places |-> color.param]
      BY <2>2 DEF Crash
    <3>2. \A t \in Threads : thread'[t].pc \in Waiting
      BY <3>1 DEF Idle, Waiting
    <3>3. Agree'
      BY <3>1 DEF Agree, Places
    <3> QED
      BY <3>2, <3>3 DEF ColorInv, NobodyDecided
  <2> QED
    BY <1>3, <2>1, <2>2 DEF Environment
<1>4. CASE LoadUserSettingData
  <2> DEFINE s == thread["event"].value
  <2>1. s \in Settings /\ OnStateChangeLocked("event", s, FALSE, TRUE) /\ thread["event"].pc \in Waiting
    BY <1>1, <1>4 DEF LoadUserSettingData, At, ThreadsOK, HasRead, Waiting
  <2>2. clean' = (clean /\ Alone("event")) /\ color' = color
    BY <1>4 DEF LoadUserSettingData, Decides
  <2> HIDE DEF s
  <2>3. /\ \A u \in Threads \ {"event"} : thread'[u] = thread[u]
        /\ \/ thread'["event"] = Idle
           \/ thread'["event"] = [Idle EXCEPT !.pc = "queue", !.dark = ColorOf(s), !.reset = FALSE, !.boot = TRUE]
    BY <1>1, <2>1, Starts
  <2>4. [Idle EXCEPT !.pc = "queue", !.dark = ColorOf(s), !.reset = FALSE, !.boot = TRUE].pc = "queue"
        /\ Idle.pc = "idle"
    BY DEF Idle
  <2>5. thread'["event"].pc \in {"idle", "queue"}
    BY <2>3, <2>4
  <2>6. Agree => thread'["event"].pc \in Waiting \/ Stage("event")'
    BY <2>2, <2>5 DEF Stage, Agree, Waiting, SavingPCs
  <2> QED
    BY <1>1, <2>1, <2>2, <2>3, <2>6, ColorDecides
<1>5. CASE UNCHANGED vars
  BY <1>2, <1>5 DEF vars, history
<1> QED
  BY <1>3, <1>4, <1>5, NextCases, UpdateColor, EventColor, IpcColor, ObserverColor, TimerColor

\* The three places agree whenever nothing is under way, unless decisions
\* overlapped, and then from the next change of a setting on that is left undisturbed.
THEOREM ColorsAgreeHolds == Spec => []ColorsAgree
<1>1. ColorInv => ColorsAgree
  BY DEF ColorInv, ColorsAgree, Quiet, At, Decided, Stage, Waiting, Agree, Threads
<1> QED
  BY <1>1, InitBase, InitColor, NextBase, NextColor, PTL DEF Spec
-----------------------------------------------------------------------------
(* The colour that the state in memory stands for.                         *)

IpcPCs == {"idle", "configuration", "switch", "choose", "usersParam", "param", "notify"} \cup SavingPCs

\* Until the settings are loaded only manual choices are made, and from then on
\* the state has a colour; a callback is one of timers that were set.
StartInv ==
    /\ phase = "booting" =>
          /\ state.mode = "INVALID" /\ told = {} /\ queue = "NONE" /\ armed = Unset /\ fired = Unset
          /\ \A t \in Threads \ {"ipc"} : thread[t].pc \in {"idle", "have"}
    /\ phase = "booting" \/ thread["event"].pc = "read" => stale = {}
    /\ phase = "registered" /\ thread["event"].pc \notin {"read", "load"} => state \in Settings
    /\ thread["timer"].pc = "check" => thread["timer"].value # Unset
    /\ thread["ipc"].pc \in IpcPCs

\* A setting of which no observer is to be told is in memory, and in what
\* loading has read, unless an observer is bringing it there or loading overwrote it.
SettingsInv ==
    phase = "registered" => \A key \in Keys \ told :
        IF thread[key].pc = "observe" THEN thread[key].value = table[key]
        ELSE \/ key \in stale
             \/ /\ state[key] = table[key]
                /\ thread["event"].pc = "load" => thread["event"].value[key] = table[key]

\* An observer or a callback of the timers will decide anew.
DueTimer ==
    /\ state.mode = "CUSTOM_AUTO"
    /\ fired = state.time \/ (thread["timer"].pc = "check" /\ thread["timer"].value = state.time)
DueObserver == told # {} \/ \E key \in Keys : thread[key].pc = "observe"
Due == DueTimer \/ DueObserver

Kept == state.mode = "CUSTOM_AUTO" /\ TempEffective(temp)
Follows(dark) == HasColor(state) => dark = ColorOf(state)
QueueRight ==
    queue # "NONE" => state.mode = "CUSTOM_AUTO" /\ state.time # Unset /\ ~TempEffective(temp)

\* The colour is right, or will be.
Settled == QueueRight /\ (Due \/ Kept \/ Follows(DecidedDark))

\* What holds at the places of a manual choice r that is the only decision ...
GoesIpc(r) ==
    /\ r.pc \in {"configuration", "switch"} => QueueRight
    /\ r.pc \notin {"configuration", "switch"} => queue = "NONE"
    /\ r.pc \in {"choose"} \cup SavingPCs => state.mode = "CUSTOM_AUTO"
    /\ r.pc \in {"param", "notify"} => color.usersParam = r.dark
    /\ r.pc \in SavingPCs \cup {"usersParam", "param", "notify"} /\ state.mode = "CUSTOM_AUTO" =>
          Due \/ TempEffective(temp) \/ Follows(r.dark)

\* ... and of any other decision: until the screen and the choice have been
\* looked at, while the colour is set, and at the places of the common events.
Asks == {"queue", "screen", "now", "later", "enqueue"}
Sets == {"configuration", "usersParam", "param", "normal"} \cup SavingPCs

GoesElse(r) ==
    /\ r.pc \in Asks =>
          /\ r.then # "dequeue"
          /\ r.reset \/ r.boot \/ (state.mode = "CUSTOM_AUTO" /\ state.time # Unset)
          /\ r.boot => state.mode = "CUSTOM_AUTO" \/ Due \/ Follows(color.usersParam)
    /\ r.pc \in Asks \ {"queue"} => queue = "NONE" /\ ~r.reset
    /\ r.pc \in {"later", "enqueue"} => ~r.boot
    /\ r.pc = "enqueue" => ~TempEffective(temp)
    /\ r.pc \in Sets => r.then = "dequeue" \/ queue = "NONE"
    /\ r.pc \in Asks \cup Sets \cup {"dequeue"} => Due \/ Follows(r.dark)
    /\ r.pc \in {"param", "normal", "dequeue"} \cup SavingPCs => color.usersParam = r.dark
    /\ r.pc = "get" => queue # "NONE" /\ QueueRight /\ (Due \/ Follows(queue = "SWITCH_TO_DARK"))
    /\ r.pc = "within" => QueueRight /\ state.mode = "CUSTOM_AUTO" /\ r.value = state.time
    /\ r.pc = "rearm" => Settled

Goes(t) ==
    /\ thread[t].pc \notin Waiting
    /\ IF t = "ipc" THEN GoesIpc(thread[t]) ELSE GoesElse(thread[t])

Calm == clean /\ stale = {} /\ phase # "left"

\* Unless decisions overlapped or loading overwrote a setting, the colour is
\* right or will be, or one thread is about to make it so.
FollowInv ==
    Calm => \/ NobodyDecided /\ Settled
            \/ \E t \in Threads : Goes(t) /\ \A u \in Threads \ {t} : thread[u].pc \in Waiting

FollowAll == StartInv /\ SettingsInv /\ FollowInv

\* A thread other than loading does something that settings do not depend on.
LEMMA StartKept ==
    ASSUME Base, StartInv, UNCHANGED << phase, state, stale >>,
           phase = "booting" => UNCHANGED << told, queue, armed, fired >>,
           NEW t \in Threads, \A u \in Threads \ {t} : thread'[u] = thread[u],
           t # "ipc" /\ phase = "booting" => thread'[t].pc \in {"idle", "have"},
           thread[t].pc \in {"read", "load"} => thread'[t].pc \in {"read", "load"},
           thread'[t].pc = "read" => thread[t].pc = "read",
           t = "timer" /\ thread'[t].pc = "check" => thread'[t].value # Unset,
           t = "ipc" => thread'[t].pc \in IpcPCs
    PROVE  StartInv'
<1>1. {"event", "timer", "ipc"} \subseteq Threads
  BY DEF Threads
<1>2. phase = "booting" => \A u \in Threads \ {"ipc"} : thread'[u].pc \in {"idle", "have"}
  BY DEF StartInv
<1>3. thread'["event"].pc = "read" => thread["event"].pc = "read"
  BY <1>1
<1>4. thread'["event"].pc \notin {"read", "load"} => thread["event"].pc \notin {"read", "load"}
  BY <1>1
<1>5. thread'["timer"].pc = "check" => thread'["timer"].value # Unset
  BY <1>1 DEF StartInv
<1>6. thread'["ipc"].pc \in IpcPCs
  BY <1>1 DEF StartInv
<1> QED
  BY <1>2, <1>3, <1>4, <1>5, <1>6 DEF StartInv

LEMMA SettingsKept ==
    ASSUME SettingsInv, UNCHANGED << table, told, phase, state, stale >>,
           NEW t \in Threads, \A u \in Threads \ {t} : thread'[u] = thread[u],
           \/ thread'[t] = thread[t]
           \/ thread[t].pc # "observe" /\ thread'[t].pc \notin {"observe", "load"}
    PROVE  SettingsInv'
<1>1. "event" \in Threads /\ Keys \subseteq Threads
  BY DEF Threads, Keys
<1>2. thread'["event"] = thread["event"] \/ thread'["event"].pc # "load"
  BY <1>1
<1>3. ASSUME NEW key \in Keys
      PROVE  thread'[key] = thread[key] \/ (thread[key].pc # "observe" /\ thread'[key].pc # "observe")
  BY <1>1
<1> QED
  BY <1>2, <1>3 DEF SettingsInv

LEMMA DueKept ==
    ASSUME UNCHANGED << state, fired, told >>,
           NEW t \in Threads, \A u \in Threads \ {t} : thread'[u] = thread[u],
           thread[t].pc \notin {"observe", "check"}, thread'[t].pc \notin {"observe", "check"}
    PROVE  Due' <=> Due
<1>1. "timer" \in Threads /\ Keys \subseteq Threads
  BY DEF Threads, Keys
<1>2. DueTimer' <=> DueTimer
  BY <1>1 DEF DueTimer
<1>3. DueObserver' <=> DueObserver
  BY <1>1 DEF DueObserver
<1> QED
  BY <1>2, <1>3 DEF Due

\* A thread comes or goes without deciding, or time passes.
LEMMA FollowWaits ==
    ASSUME Base, FollowInv, Calm' => Calm, UNCHANGED << state, queue, color, temp >>,
           boundaries' \in Nat, boundaries <= boundaries',
           \/ Due' \/ ~HasColor(state)
           \/ ~Due /\ (boundaries' = boundaries \/ state.mode # "CUSTOM_AUTO"),
           NEW t \in Threads, \A u \in Threads \ {t} : thread'[u] = thread[u],
           thread'[t] = thread[t] \/ (thread[t].pc \in Waiting /\ thread'[t].pc \in Waiting)
    PROVE  FollowInv'
<1> SUFFICES ASSUME Calm
             PROVE  (\/ NobodyDecided /\ Settled
                     \/ \E v \in Threads : Goes(v) /\ \A u \in Threads \ {v} : thread[u].pc \in Waiting)'
  BY DEF FollowInv
<1>1. TempEffective(temp)' => TempEffective(temp)
  BY DEF TempEffective, Base, DataOK
<1>2. QueueRight => QueueRight'
  BY <1>1 DEF QueueRight
<1>3. HasColor(state)' <=> HasColor(state)
  BY DEF HasColor
<1>4. ~Due' => \/ ~HasColor(state)
               \/ ~Due /\ (ColorOf(state)' <=> ColorOf(state)) /\ (Kept => Kept')
  BY DEF ColorOf, InDarkInterval, Kept, TempEffective
<1>5. \A dark : Due \/ Follows(dark) => Due' \/ (HasColor(state)' => dark = ColorOf(state)')
  BY <1>3, <1>4 DEF Follows, ColorOf
<1>6. DecidedDark' = DecidedDark
  BY DEF DecidedDark
<1>7. Settled => Settled'
  <2> SUFFICES ASSUME Settled PROVE Due' \/ Kept' \/ Follows(DecidedDark)'
    BY <1>2 DEF Settled
  <2>1. CASE Due \/ Follows(DecidedDark)
    BY <1>5, <1>6, <2>1 DEF Follows
  <2>2. CASE Kept
    BY <1>3, <1>4, <2>2 DEF Follows
  <2> QED
    BY <2>1, <2>2 DEF Settled
<1>8. ASSUME NEW u \in Threads
      PROVE  thread'[u] = thread[u] \/ (thread[u].pc \in Waiting /\ thread'[u].pc \in Waiting)
  <2>1. CASE u = t
    BY <2>1
  <2>2. CASE u # t
    BY <1>8, <2>2
  <2> QED
    BY <2>1, <2>2
<1>9. CASE NobodyDecided /\ Settled
  BY <1>7, <1>8, <1>9 DEF NobodyDecided
<1>10. ASSUME NEW v \in Threads, Goes(v) PROVE Goes(v)'
  <2>1. thread'[v] = thread[v]
    BY <1>8, <1>10 DEF Goes
  <2>2. ASSUME v = "ipc" PROVE GoesIpc(thread[v])'
    <3>1. GoesIpc(thread[v])
      BY <1>10, <2>2 DEF Goes
    <3>2. TempEffective(temp) /\ state.mode = "CUSTOM_AUTO" => TempEffective(temp)' \/ Due' \/ ~HasColor(state)
      BY <1>4 DEF Kept
    <3> QED
      BY <1>2, <1>3, <1>5, <2>1, <3>1, <3>2 DEF GoesIpc, Follows
  <2>3. ASSUME v # "ipc" PROVE GoesElse(thread[v])'
    <3>1. GoesElse(thread[v])
      BY <1>10, <2>3 DEF Goes
    <3> QED
      BY <1>1, <1>2, <1>5, <1>7, <2>1, <3>1 DEF GoesElse, Follows
  <2> QED
    BY <1>10, <2>1, <2>2, <2>3 DEF Goes
<1> QED
  BY <1>8, <1>9, <1>10 DEF FollowInv

\* A thread decides, and is the only one.
LEMMA FollowDecides ==
    ASSUME FollowInv, NEW t \in Threads, thread[t].pc \in Waiting, Calm' => Calm /\ Alone(t),
           \A u \in Threads \ {t} : thread'[u] = thread[u],
           Calm' /\ Settled => Goes(t)' \/ (thread'[t].pc \in Waiting /\ Settled')
    PROVE  FollowInv'
<1> SUFFICES ASSUME Calm', Calm, Alone(t)
             PROVE  (\/ NobodyDecided /\ Settled
                     \/ \E v \in Threads : Goes(v) /\ \A u \in Threads \ {v} : thread[u].pc \in Waiting)'
  BY DEF FollowInv
<1>1. NobodyDecided
  BY DEF Alone, NobodyDecided
<1>2. Settled
  BY <1>1 DEF FollowInv, NobodyDecided, Goes
<1>3. \A u \in Threads \ {t} : thread'[u].pc \in Waiting
  BY <1>1 DEF NobodyDecided
<1>4. CASE Goes(t)'
  BY <1>3, <1>4
<1>5. CASE thread'[t].pc \in Waiting /\ Settled'
  BY <1>3, <1>5 DEF NobodyDecided
<1> QED
  BY <1>2, <1>4, <1>5

\* A thread goes on with what it decided, or has done it.
LEMMA FollowGoesOn ==
    ASSUME FollowInv, NEW t \in Threads, thread[t].pc \notin Waiting, Calm' => Calm,
           \A u \in Threads \ {t} : thread'[u] = thread[u],
           Calm' /\ Goes(t) => Goes(t)' \/ (thread'[t].pc \in Waiting /\ Settled')
    PROVE  FollowInv'
<1> SUFFICES ASSUME Calm', Calm
             PROVE  (\/ NobodyDecided /\ Settled
                     \/ \E v \in Threads : Goes(v) /\ \A u \in Threads \ {v} : thread[u].pc \in Waiting)'
  BY DEF FollowInv
<1>1. Goes(t) /\ \A u \in Threads \ {t} : thread[u].pc \in Waiting
  BY DEF FollowInv, NobodyDecided, Goes
<1>2. \A u \in Threads \ {t} : thread'[u].pc \in Waiting
  BY <1>1
<1>3. CASE Goes(t)'
  BY <1>2, <1>3
<1>4. CASE thread'[t].pc \in Waiting /\ Settled'
  BY <1>2, <1>4 DEF NobodyDecided
<1> QED
  BY <1>1, <1>3, <1>4

LEMMA UpdateElseFollow ==
    ASSUME Base, FollowAll, NEW t \in Threads, t # "ipc", UpdateDarkModeSchedule(t)
    PROVE  FollowAll'
<1> USE DEF Base
<1>1. /\ thread[t] \in Records /\ thread[t].pc \notin Waiting
      /\ \A u \in Threads \ {t} : thread'[u] = thread[u]
  BY UpdateShape DEF ThreadsOK
<1>2. thread'[t].pc \notin {"observe", "check", "read", "load"}
  <2>1. [thread[t] EXCEPT !.pc = "saveMode", !.value = temp].pc = "saveMode" /\ Idle.pc = "idle"
    BY <1>1 DEF Idle, Records
  <2>2. thread'[t] = Idle \/ thread'[t].pc \notin Waiting
        \/ thread'[t] = [thread[t] EXCEPT !.pc = "saveMode", !.value = temp]
    BY UpdateShape
  <2> QED
    BY <2>1, <2>2 DEF Waiting
<1>3. UNCHANGED << table, told, phase, state, armed, fired, boundaries, clean, stale >>
  BY DEF UpdateDarkModeSchedule, settingVars, timerVars, bounds
<1>4. phase # "booting"
  BY <1>1 DEF FollowAll, StartInv, Waiting
<1>5. StartInv'
  BY <1>1, <1>2, <1>3, <1>4, StartKept DEF FollowAll, Waiting
<1>6. SettingsInv'
  BY <1>1, <1>2, <1>3, SettingsKept DEF FollowAll, Waiting
<1>7. Due' <=> Due
  BY <1>1, <1>2, <1>3, DueKept DEF Waiting
<1>8. \A dark : (HasColor(state)' => dark = ColorOf(state)') <=> Follows(dark)
  BY <1>3 DEF Follows, HasColor, ColorOf, InDarkInterval
<1> SUFFICES ASSUME GoesElse(thread[t])
             PROVE  Goes(t)' \/ (thread'[t].pc \in Waiting /\ Settled')
  BY <1>1, <1>3, <1>5, <1>6, FollowGoesOn DEF FollowAll, Calm, Goes
<1>9. ASSUME NEW pc, Goto(t, pc)
      PROVE  /\ thread'[t].pc = pc /\ thread'[t].dark = thread[t].dark /\ thread'[t].reset = thread[t].reset
             /\ thread'[t].boot = thread[t].boot /\ thread'[t].then = thread[t].then
  BY <1>1, <1>9 DEF Goto, ThreadsOK, Records
<1>10. ASSUME Done(t), Settled', thread[t].then # "dequeue"
       PROVE  Goes(t)' \/ (thread'[t].pc \in Waiting /\ Settled')
  <2>1. CASE thread'[t] = Idle
    BY <1>10, <2>1 DEF Idle, Waiting
  <2>2. CASE thread[t].then \in {"rearm", "dequeue"} /\ thread'[t] = [thread[t] EXCEPT !.pc = thread[t].then]
    <3>1. thread'[t].pc = "rearm"
      BY <1>1, <1>10, <2>2 DEF Records
    <3> QED
      BY <1>10, <3>1 DEF Goes, GoesElse, Waiting, Asks, Sets, SavingPCs
  <2> QED
    BY <1>1, <1>10, <2>1, <2>2, IsDone
<1>11. ASSUME Done(t), thread[t].pc \in {"normal"} \cup SavingPCs, UNCHANGED << queue, color >>
       PROVE  Goes(t)' \/ (thread'[t].pc \in Waiting /\ Settled')
  <2>1. /\ color.usersParam = thread[t].dark /\ (Due \/ Follows(thread[t].dark))
        /\ thread[t].then = "dequeue" \/ queue = "NONE"
    BY <1>11 DEF GoesElse, Sets
  <2>2. CASE thread[t].then = "dequeue"
    <3>1. Goto(t, "dequeue")
      BY <1>11, <2>2 DEF Done
    <3>2. thread'[t].pc = "dequeue" /\ thread'[t].dark = thread[t].dark
      BY <1>9, <3>1
    <3> QED
      BY <1>7, <1>8, <1>11, <2>1, <3>2 DEF Goes, GoesElse, Waiting, Asks, Sets, SavingPCs, Follows
  <2>3. CASE thread[t].then # "dequeue"
    <3>1. queue' = "NONE" /\ color'.usersParam = thread[t].dark
      BY <1>11, <2>1, <2>3
    <3>2. QueueRight' /\ DecidedDark' = thread[t].dark
      BY <3>1 DEF QueueRight, DecidedDark
    <3>4. Due' \/ Follows(thread[t].dark)
      BY <1>7, <2>1
    <3>3. Settled'
      BY <1>8, <3>4, <3>2 DEF Settled, Follows
    <3> QED
      BY <1>10, <1>11, <2>3, <3>3
  <2> QED
    BY <2>2, <2>3
<1>12. CASE ResetScreenOffOperateInfo(t)
  <2>1. /\ thread[t].pc = "queue" /\ queue' = "NONE" /\ color' = color
        /\ Goto(t, IF thread[t].reset THEN "configuration" ELSE "screen")
    BY <1>12 DEF ResetScreenOffOperateInfo, At
  <2>2. thread'[t].pc = (IF thread[t].reset THEN "configuration" ELSE "screen")
    BY <1>9, <2>1
  <2>3. /\ thread[t].then # "dequeue"
        /\ thread[t].reset \/ thread[t].boot \/ (state.mode = "CUSTOM_AUTO" /\ state.time # Unset)
        /\ thread[t].boot => state.mode = "CUSTOM_AUTO" \/ Due \/ Follows(color.usersParam)
        /\ Due \/ Follows(thread[t].dark)
    BY <2>1 DEF GoesElse, Asks
  <2>4. CASE thread[t].reset
    <3>1. thread'[t].pc = "configuration"
      BY <2>2, <2>4
    <3> QED
      BY <1>7, <1>8, <1>9, <2>1, <2>3, <2>4, <3>1 DEF Goes, GoesElse, Waiting, Asks, Sets, SavingPCs, Follows
  <2>5. CASE ~thread[t].reset
    <3>1. thread'[t].pc = "screen"
      BY <2>2, <2>5
    <3> QED
      BY <1>3, <1>7, <1>8, <1>9, <2>1, <2>3, <2>5, <3>1
         DEF Goes, GoesElse, Waiting, Asks, Sets, SavingPCs, Follows
  <2> QED
    BY <2>4, <2>5
<1>13. CASE IsScreenOff(t)
  <2>1. /\ thread[t].pc = "screen" /\ UNCHANGED << queue, color >>
        /\ Goto(t, IF screenOff \/ thread[t].boot THEN "now" ELSE "later")
    BY <1>13 DEF IsScreenOff, At, switchVars
  <2>2. thread'[t].pc \in {"now", "later"} /\ (thread'[t].pc = "later" => ~thread[t].boot)
    BY <1>9, <2>1
  <2>3. /\ thread[t].then # "dequeue" /\ queue = "NONE" /\ ~thread[t].reset
        /\ thread[t].boot \/ (state.mode = "CUSTOM_AUTO" /\ state.time # Unset)
        /\ thread[t].boot => state.mode = "CUSTOM_AUTO" \/ Due \/ Follows(color.usersParam)
        /\ Due \/ Follows(thread[t].dark)
    BY <2>1 DEF GoesElse, Asks
  <2> QED
    BY <1>3, <1>7, <1>8, <1>9, <2>1, <2>2, <2>3 DEF Goes, GoesElse, Waiting, Asks, Sets, SavingPCs, Follows
<1>14. CASE CheckTemporaryStateEffective(t)
  <2>1. /\ thread[t].pc \in {"now", "later"} /\ UNCHANGED << queue, color, temp >>
        /\ IF TempEffective(temp) THEN Done(t)
           ELSE Goto(t, IF thread[t].pc = "now" THEN "configuration" ELSE "enqueue")
    BY <1>14 DEF CheckTemporaryStateEffective, At, switchVars, tempVars
  <2>2. /\ thread[t].then # "dequeue" /\ queue = "NONE" /\ ~thread[t].reset
        /\ thread[t].boot \/ (state.mode = "CUSTOM_AUTO" /\ state.time # Unset)
        /\ thread[t].boot => state.mode = "CUSTOM_AUTO" \/ Due \/ Follows(color.usersParam)
        /\ Due \/ Follows(thread[t].dark)
        /\ thread[t].pc = "later" => ~thread[t].boot
    BY <2>1 DEF GoesElse, Asks
  <2>3. CASE TempEffective(temp)
    <3>1. Due' \/ Kept' \/ Follows(color.usersParam)'
      BY <1>3, <1>7, <1>8, <2>1, <2>2, <2>3 DEF Kept, TempEffective, Follows
    <3>2. Settled'
      BY <2>1, <2>2, <3>1 DEF Settled, QueueRight, DecidedDark
    <3> QED
      BY <1>10, <2>1, <2>2, <2>3, <3>2
  <2>4. CASE ~TempEffective(temp)
    <3>1. ~TempEffective(temp)'
      BY <1>3, <2>1, <2>4 DEF TempEffective
    <3>2. thread'[t].pc = (IF thread[t].pc = "now" THEN "configuration" ELSE "enqueue")
      BY <1>9, <2>1, <2>4
    <3>3. CASE thread[t].pc = "now"
      <4>1. thread'[t].pc = "configuration" /\ thread'[t].dark = thread[t].dark
        BY <1>9, <2>1, <2>4, <3>3
      <4> QED
        BY <1>7, <1>8, <2>1, <2>2, <4>1 DEF Goes, GoesElse, Waiting, Asks, Sets, SavingPCs, Follows
    <3>4. CASE thread[t].pc = "later"
      <4>1. /\ thread'[t].pc = "enqueue" /\ thread'[t].dark = thread[t].dark /\ thread'[t].reset = thread[t].reset
            /\ thread'[t].boot = thread[t].boot /\ thread'[t].then = thread[t].then
        BY <1>9, <2>1, <2>4, <3>4
      <4> QED
        BY <1>3, <1>7, <1>8, <2>1, <2>2, <3>1, <3>4, <4>1
           DEF Goes, GoesElse, Waiting, Asks, Sets, SavingPCs, Follows
    <3> QED
      BY <2>1, <3>3, <3>4
  <2> QED
    BY <2>3, <2>4
<1>15. CASE SetScreenOffOperateInfo(t)
  <2>1. /\ thread[t].pc = "enqueue" /\ UNCHANGED << color, temp >> /\ Done(t)
        /\ queue' = IF thread[t].dark THEN "SWITCH_TO_DARK" ELSE "SWITCH_TO_LIGHT"
    BY <1>15 DEF SetScreenOffOperateInfo, At, tempVars
  <2>2. /\ thread[t].then # "dequeue" /\ ~TempEffective(temp)
        /\ state.mode = "CUSTOM_AUTO" /\ state.time # Unset
        /\ Due \/ Follows(thread[t].dark)
    BY <2>1 DEF GoesElse, Asks
  <2>3. thread[t].dark \in BOOLEAN
    BY <1>1 DEF Records
  <2>4. QueueRight'
    BY <1>3, <2>1, <2>2 DEF QueueRight, TempEffective
  <2>5. DecidedDark' = thread[t].dark
    BY <2>1, <2>3 DEF DecidedDark
  <2>6. Settled'
    BY <1>7, <1>8, <2>2, <2>4, <2>5 DEF Settled, Follows
  <2> QED
    BY <1>10, <2>1, <2>2, <2>6
<1>16. CASE UpdateConfiguration(t)
  <2>1. /\ thread[t].pc = "configuration" /\ queue' = queue /\ Goto(t, "usersParam")
    BY <1>16 DEF UpdateConfiguration, SetColor, At, switchVars
  <2>2. thread'[t].pc = "usersParam"
    BY <1>9, <2>1
  <2>3. (thread[t].then = "dequeue" \/ queue = "NONE") /\ (Due \/ Follows(thread[t].dark))
    BY <2>1 DEF GoesElse, Sets
  <2> QED
    BY <1>7, <1>8, <1>9, <2>1, <2>2, <2>3 DEF Goes, GoesElse, Waiting, Asks, Sets, SavingPCs, Follows
<1>17. CASE ConfigurePersistence(t)
  <2>1. /\ thread[t].pc \in {"usersParam", "param"} /\ queue' = queue
        /\ \/ color' = [color EXCEPT !["usersParam"] = thread[t].dark] /\ Goto(t, "param")
           \/ /\ color' = [color EXCEPT !["param"] = thread[t].dark] /\ Goto(t, "normal")
              /\ color.usersParam = thread[t].dark
    BY <1>17 DEF ConfigurePersistence, SetColor, At, switchVars, GoesElse
  <2>2. thread'[t].pc \in {"param", "normal"} /\ thread'[t].dark = thread[t].dark
        /\ thread'[t].then = thread[t].then
    BY <1>9, <2>1
  <2>3. color'.usersParam = thread[t].dark
    BY <2>1 DEF DataOK, Places
  <2>4. (thread[t].then = "dequeue" \/ queue = "NONE") /\ (Due \/ Follows(thread[t].dark))
    BY <2>1 DEF GoesElse, Sets
  <2> QED
    BY <1>7, <1>8, <2>1, <2>2, <2>3, <2>4 DEF Goes, GoesElse, Waiting, Asks, Sets, SavingPCs, Follows
<1>18. CASE SetColorModeNormal(t) \/ CopyTempColorModeInfo(t) \/ SaveTempColorMode(t) \/ SaveTempWindow(t)
  <2>1. thread[t].pc \in {"normal"} \cup SavingPCs /\ UNCHANGED << queue, color >>
    BY <1>18 DEF SetColorModeNormal, CopyTempColorModeInfo, SaveTempColorMode, SaveTempWindow, At,
       switchVars, SavingPCs
  <2>2. \/ Done(t)
        \/ /\ thread'[t].pc \in SavingPCs
           /\ thread'[t].dark = thread[t].dark /\ thread'[t].then = thread[t].then
    <3>1. CASE CopyTempColorModeInfo(t)
      <4>1. thread' = [thread EXCEPT ![t].pc = "saveMode", ![t].value = temp]
        BY <3>1 DEF CopyTempColorModeInfo
      <4> QED
        BY <1>1, <4>1 DEF ThreadsOK, Records, SavingPCs
    <3>2. CASE SetColorModeNormal(t) \/ SaveTempColorMode(t) \/ SaveTempWindow(t)
      <4>1. Done(t) \/ Goto(t, "save") \/ Goto(t, "saveWindow")
        BY <3>2 DEF SetColorModeNormal, SaveTempColorMode, SaveTempWindow, Saved
      <4> QED
        BY <1>9, <4>1 DEF SavingPCs
    <3> QED
      BY <1>18, <3>1, <3>2
  <2>3. CASE Done(t)
    BY <1>11, <2>1, <2>3
  <2>4. CASE /\ thread'[t].pc \in SavingPCs
             /\ thread'[t].dark = thread[t].dark /\ thread'[t].then = thread[t].then
    <3>1. /\ color.usersParam = thread[t].dark /\ (Due \/ Follows(thread[t].dark))
          /\ thread[t].then = "dequeue" \/ queue = "NONE"
      BY <2>1 DEF GoesElse, Sets
    <3> QED
      BY <1>7, <1>8, <2>1, <2>4, <3>1 DEF Goes, GoesElse, Waiting, Asks, Sets, SavingPCs, Follows
  <2> QED
    BY <2>2, <2>3, <2>4
<1> QED
  BY <1>12, <1>13, <1>14, <1>15, <1>16, <1>17, <1>18 DEF UpdateDarkModeSchedule

\* The places of a manual choice on its way through the same steps.
LEMMA UpdateIpcFollow ==
    ASSUME Base, FollowAll, UpdateDarkModeSchedule("ipc")
    PROVE  FollowAll'
<1> USE DEF Base
<1>0. "ipc" \in Threads
  BY DEF Threads
<1>1. /\ thread["ipc"] \in Records /\ thread["ipc"].pc \notin Waiting
      /\ \A u \in Threads \ {"ipc"} : thread'[u] = thread[u]
  BY <1>0, UpdateShape DEF ThreadsOK
<1>2. thread["ipc"].pc \in {"configuration", "usersParam", "param"} \cup SavingPCs
  BY <1>1 DEF FollowAll, StartInv, IpcPCs, Waiting, UpdateDarkModeSchedule, ResetScreenOffOperateInfo,
     IsScreenOff, CheckTemporaryStateEffective, SetScreenOffOperateInfo, UpdateConfiguration,
     ConfigurePersistence, SetColor, SetColorModeNormal, CopyTempColorModeInfo, SaveTempColorMode,
     SaveTempWindow, At, SavingPCs
<1>3. UNCHANGED << table, told, phase, state, armed, fired, boundaries, clean, stale >>
  BY DEF UpdateDarkModeSchedule, settingVars, timerVars, bounds
<1>4. ASSUME NEW pc, Goto("ipc", pc)
      PROVE  thread'["ipc"].pc = pc /\ thread'["ipc"].dark = thread["ipc"].dark
  BY <1>0, <1>1, <1>4 DEF Goto, ThreadsOK, Records
<1>5. /\ UNCHANGED << queue, temp >> /\ thread'["ipc"].dark = thread["ipc"].dark
      /\ \/ thread["ipc"].pc = "configuration" /\ thread'["ipc"].pc = "switch" /\ color'.usersParam = color.usersParam
         \/ thread["ipc"].pc = "usersParam" /\ thread'["ipc"].pc = "param" /\ color'.usersParam = thread["ipc"].dark
         \/ thread["ipc"].pc = "param" /\ thread'["ipc"].pc = "notify" /\ color'.usersParam = color.usersParam
         \/ thread["ipc"].pc \in SavingPCs /\ thread'["ipc"].pc \in {"saveMode", "saveWindow", "usersParam"}
  <2>1. CASE UpdateConfiguration("ipc")
    <3>1. /\ thread["ipc"].pc = "configuration" /\ UNCHANGED << queue, temp >> /\ Goto("ipc", "switch")
          /\ color' = [color EXCEPT !["configuration"] = thread["ipc"].dark]
      BY <2>1 DEF UpdateConfiguration, SetColor, At, switchVars, tempVars
    <3> QED
      BY <1>4, <3>1 DEF DataOK, Places
  <2>2. CASE ConfigurePersistence("ipc")
    <3>1. /\ UNCHANGED << queue, temp >>
          /\ \/ /\ thread["ipc"].pc = "usersParam" /\ Goto("ipc", "param")
                /\ color' = [color EXCEPT !["usersParam"] = thread["ipc"].dark]
             \/ /\ thread["ipc"].pc = "param" /\ Goto("ipc", "notify")
                /\ color' = [color EXCEPT !["param"] = thread["ipc"].dark]
      BY <2>2 DEF ConfigurePersistence, SetColor, At, switchVars, tempVars
    <3> QED
      BY <1>4, <3>1 DEF DataOK, Places
  <2>3. CASE CopyTempColorModeInfo("ipc")
    <3>1. /\ thread["ipc"].pc = "save" /\ UNCHANGED << queue, temp >>
          /\ thread' = [thread EXCEPT !["ipc"].pc = "saveMode", !["ipc"].value = temp]
      BY <2>3 DEF CopyTempColorModeInfo, At, switchVars, tempVars
    <3> QED
      BY <1>0, <1>1, <3>1 DEF ThreadsOK, Records, SavingPCs
  <2>4. CASE SaveTempColorMode("ipc") \/ SaveTempWindow("ipc")
    <3>1. /\ thread["ipc"].pc \in SavingPCs /\ UNCHANGED << queue, temp >>
          /\ Goto("ipc", "saveWindow") \/ Goto("ipc", "usersParam")
      BY <2>4 DEF SaveTempColorMode, SaveTempWindow, Saved, At, switchVars, SavingPCs
    <3> QED
      BY <1>4, <3>1
  <2> QED
    BY <1>2, <2>1, <2>2, <2>3, <2>4 DEF UpdateDarkModeSchedule, ResetScreenOffOperateInfo, IsScreenOff,
       CheckTemporaryStateEffective, SetScreenOffOperateInfo, SetColorModeNormal, At, SavingPCs
<1>6. thread'["ipc"].pc \in IpcPCs \ Waiting
  BY <1>5 DEF IpcPCs, Waiting, SavingPCs
<1>7. StartInv'
  BY <1>0, <1>1, <1>3, <1>5, <1>6, StartKept DEF FollowAll, Waiting
<1>8. SettingsInv'
  BY <1>0, <1>1, <1>3, <1>6, SettingsKept DEF FollowAll, Waiting
<1>9. Due' <=> Due
  BY <1>0, <1>1, <1>3, <1>6, DueKept DEF Waiting
<1>10. \A dark : (HasColor(state)' => dark = ColorOf(state)') <=> Follows(dark)
  BY <1>3 DEF Follows, HasColor, ColorOf, InDarkInterval
<1>11. (TempEffective(temp)' <=> TempEffective(temp)) /\ (QueueRight' <=> QueueRight)
  BY <1>3, <1>5 DEF TempEffective, QueueRight
<1>12. ASSUME GoesIpc(thread["ipc"]) PROVE GoesIpc(thread["ipc"])'
  <2>1. CASE thread["ipc"].pc = "configuration"
    BY <1>3, <1>5, <1>11, <1>12, <2>1 DEF GoesIpc, SavingPCs
  <2>2. CASE thread["ipc"].pc \in {"usersParam", "param"}
    BY <1>3, <1>5, <1>9, <1>10, <1>11, <1>12, <2>2 DEF GoesIpc, SavingPCs, Follows
  <2>3. CASE thread["ipc"].pc \in SavingPCs
    BY <1>3, <1>5, <1>9, <1>10, <1>11, <1>12, <2>3 DEF GoesIpc, SavingPCs, Follows
  <2> QED
    BY <1>2, <2>1, <2>2, <2>3
<1>13. FollowInv'
  BY <1>0, <1>1, <1>3, <1>6, <1>12, FollowGoesOn DEF FollowAll, Calm, Goes
<1> QED
  BY <1>7, <1>8, <1>13 DEF FollowAll

LEMMA IpcFollow ==
    ASSUME Base, FollowAll, IpcMoves
    PROVE  FollowAll'
<1> USE DEF Base
<1>1. /\ "ipc" \in Threads /\ thread["ipc"] \in Records /\ thread \in [Threads -> Records]
      /\ \A u \in Threads \ {"ipc"} : thread'[u] = thread[u]
  BY IpcBase DEF ThreadsOK, Threads
<1>2. UNCHANGED << phase, state, stale, armed, fired, boundaries, color >>
  BY DEF IpcMoves, SetDarkMode, IsDarkModeCustomAuto, DoSwitchTemporaryColorMode, NotifyDarkModeUpdate,
     settingVars, timerVars, bounds, history
<1>3. ASSUME NEW pc, Goto("ipc", pc)
      PROVE  thread'["ipc"].pc = pc /\ thread'["ipc"].dark = thread["ipc"].dark
  BY <1>1, <1>3 DEF Goto, Records
<1>4. /\ SetDarkMode => /\ thread["ipc"].pc = "idle" /\ thread'["ipc"].pc = "configuration"
      /\ IsDarkModeCustomAuto => /\ thread["ipc"].pc = "switch" /\ thread'["ipc"].dark = thread["ipc"].dark
                                 /\ thread'["ipc"].pc = (IF state.mode = "CUSTOM_AUTO" THEN "choose" ELSE "usersParam")
      /\ DoSwitchTemporaryColorMode => /\ thread["ipc"].pc = "choose" /\ thread'["ipc"].pc = "save"
                                       /\ thread'["ipc"].dark = thread["ipc"].dark
      /\ NotifyDarkModeUpdate => thread["ipc"].pc = "notify" /\ thread'["ipc"].pc = "idle"
  <2>1. ASSUME SetDarkMode PROVE thread["ipc"].pc = "idle" /\ thread'["ipc"].pc = "configuration"
    <3> DEFINE r == [Idle EXCEPT !.pc = "configuration", !.dark = ~color.usersParam]
    <3>1. r.pc = "configuration"
      BY DEF Idle
    <3>2. thread' = [thread EXCEPT !["ipc"] = r] /\ thread["ipc"].pc = "idle"
      BY <2>1 DEF SetDarkMode, At
    <3> HIDE DEF r
    <3> QED
      BY <1>1, <3>1, <3>2
  <2>2. ASSUME NotifyDarkModeUpdate PROVE thread["ipc"].pc = "notify" /\ thread'["ipc"].pc = "idle"
    BY <1>1, <2>2 DEF NotifyDarkModeUpdate, At, Idle
  <2>3. ASSUME IsDarkModeCustomAuto
        PROVE  /\ thread["ipc"].pc = "switch" /\ thread'["ipc"].dark = thread["ipc"].dark
               /\ thread'["ipc"].pc = (IF state.mode = "CUSTOM_AUTO" THEN "choose" ELSE "usersParam")
    BY <1>3, <2>3 DEF IsDarkModeCustomAuto, At
  <2>4. ASSUME DoSwitchTemporaryColorMode
        PROVE  /\ thread["ipc"].pc = "choose" /\ thread'["ipc"].pc = "save"
               /\ thread'["ipc"].dark = thread["ipc"].dark
    BY <1>3, <2>4 DEF DoSwitchTemporaryColorMode, At
  <2> QED
    BY <2>1, <2>2, <2>3, <2>4
<1>5. /\ thread["ipc"].pc \in {"idle", "switch", "choose", "notify"}
      /\ thread'["ipc"].pc \in {"configuration", "choose", "usersParam", "save", "idle"}
  BY <1>4 DEF IpcMoves
<1>6. phase = "booting" => UNCHANGED << told, queue >>
  <2>1. CASE SetDarkMode \/ DoSwitchTemporaryColorMode
    BY <2>1 DEF SetDarkMode, DoSwitchTemporaryColorMode, settingVars, switchVars
  <2>2. CASE IsDarkModeCustomAuto
    BY <2>2 DEF IsDarkModeCustomAuto, settingVars, FollowAll, StartInv
  <2>3. CASE NotifyDarkModeUpdate
    BY <2>3 DEF NotifyDarkModeUpdate, switchVars
  <2> QED
    BY <2>1, <2>2, <2>3 DEF IpcMoves
<1>7. StartInv'
  BY <1>1, <1>2, <1>5, <1>6, StartKept DEF FollowAll, IpcPCs, SavingPCs
<1>8. SettingsInv'
  <2>1. CASE SetDarkMode \/ IsDarkModeCustomAuto \/ DoSwitchTemporaryColorMode
    <3>1. UNCHANGED << table, told >>
      BY <2>1 DEF SetDarkMode, IsDarkModeCustomAuto, DoSwitchTemporaryColorMode, settingVars
    <3> QED
      BY <1>1, <1>2, <1>5, <3>1, SettingsKept DEF FollowAll
  <2>2. CASE NotifyDarkModeUpdate
    <3> SUFFICES ASSUME phase = "registered" PROVE SettingsInv'
      BY <1>2 DEF SettingsInv
    <3>1. \/ UNCHANGED << table, told >>
          \/ \E mode : table' = [table EXCEPT !.mode = mode] /\ told' = told \cup {"mode"}
      BY <2>2 DEF NotifyDarkModeUpdate
    <3>2. told \subseteq told' /\ \A key \in Keys \ told' : table'[key] = table[key]
      BY <3>1 DEF DataOK, Settings, Keys
    <3>3. thread'["event"] = thread["event"] /\ \A key \in Keys : thread'[key] = thread[key]
      BY <1>1 DEF Threads, Keys
    <3> QED
      BY <1>2, <3>2, <3>3 DEF FollowAll, SettingsInv
  <2> QED
    BY <2>1, <2>2 DEF IpcMoves
<1>9. ASSUME UNCHANGED told PROVE Due' <=> Due
  BY <1>1, <1>2, <1>5, <1>9, DueKept
<1>10. \A dark : (HasColor(state)' => dark = ColorOf(state)') <=> Follows(dark)
  BY <1>2 DEF Follows, HasColor, ColorOf, InDarkInterval
<1>11. CASE SetDarkMode
  <2>1. thread["ipc"].pc = "idle" /\ thread'["ipc"].pc = "configuration"
    BY <1>4, <1>11
  <2>2. clean' = (clean /\ Alone("ipc")) /\ queue' = queue /\ temp' = temp
    BY <1>11 DEF SetDarkMode, Decides, switchVars, tempVars
  <2>3. QueueRight => QueueRight'
    BY <1>2, <2>2 DEF QueueRight, TempEffective
  <2>4. Settled => Goes("ipc")'
    BY <2>1, <2>3 DEF Settled, Goes, GoesIpc, Waiting, SavingPCs
  <2>5. Calm' => Calm /\ Alone("ipc")
    BY <1>2, <2>2 DEF Calm
  <2>6. FollowInv'
    BY <1>1, <2>1, <2>4, <2>5, FollowDecides DEF FollowAll, Waiting
  <2> QED
    BY <1>7, <1>8, <2>6 DEF FollowAll
<1>12. CASE IsDarkModeCustomAuto \/ DoSwitchTemporaryColorMode \/ NotifyDarkModeUpdate
  <2>1. clean' = clean /\ thread["ipc"].pc \notin Waiting
    BY <1>4, <1>12 DEF IsDarkModeCustomAuto, DoSwitchTemporaryColorMode, NotifyDarkModeUpdate, history, Waiting
  <2>2. Calm' => Calm
    BY <1>2, <2>1 DEF Calm
  <2>3. ASSUME Calm, GoesIpc(thread["ipc"])
        PROVE  Goes("ipc")' \/ (thread'["ipc"].pc \in Waiting /\ Settled')
    <3>1. CASE IsDarkModeCustomAuto
      <4>1. QueueRight /\ thread'["ipc"].pc = (IF state.mode = "CUSTOM_AUTO" THEN "choose" ELSE "usersParam")
        BY <1>4, <2>3, <3>1 DEF GoesIpc
      <4>2. queue' = "NONE"
        BY <3>1, <4>1 DEF IsDarkModeCustomAuto, QueueRight
      <4>3. CASE state.mode = "CUSTOM_AUTO"
        BY <1>2, <4>1, <4>2, <4>3 DEF Goes, GoesIpc, Waiting, SavingPCs
      <4>4. CASE state.mode # "CUSTOM_AUTO"
        BY <1>2, <4>1, <4>2, <4>4 DEF Goes, GoesIpc, Waiting, SavingPCs
      <4> QED
        BY <4>3, <4>4
    <3>2. CASE DoSwitchTemporaryColorMode
      <4>1. /\ thread["ipc"].pc = "choose" /\ thread'["ipc"].pc = "save" /\ thread'["ipc"].dark = thread["ipc"].dark
            /\ UNCHANGED << queue, told >>
        BY <1>4, <3>2 DEF DoSwitchTemporaryColorMode, switchVars, settingVars
      <4>2. state.mode = "CUSTOM_AUTO" /\ queue = "NONE"
        BY <2>3, <4>1 DEF GoesIpc
      <4>3. TempEffective(temp)' \/ Follows(thread["ipc"].dark)
        <5>1. PICK within \in BOOLEAN :
                /\ state.mode = "CUSTOM_AUTO" /\ state.time # Unset => within = InDarkInterval(state.time)
                /\ temp' = IF within = thread["ipc"].dark THEN Unset ELSE boundaries + 2
          BY <3>2 DEF DoSwitchTemporaryColorMode
        <5>2. CASE within = thread["ipc"].dark
          BY <4>2, <5>1, <5>2 DEF Follows, HasColor, ColorOf
        <5>3. CASE within # thread["ipc"].dark
          BY <1>2, <5>1, <5>3 DEF TempEffective, DataOK
        <5> QED
          BY <5>2, <5>3
      <4>4. TempEffective(temp)' \/ (HasColor(state)' => thread["ipc"].dark = ColorOf(state)')
        BY <1>10, <4>3
      <4>5. GoesIpc(thread["ipc"])'
        BY <1>2, <4>1, <4>2, <4>4 DEF GoesIpc, SavingPCs, Follows
      <4> QED
        BY <4>1, <4>5 DEF Goes, Waiting
    <3>3. CASE NotifyDarkModeUpdate
      <4>1. /\ thread["ipc"].pc = "notify" /\ thread'["ipc"].pc = "idle" /\ UNCHANGED << queue, temp >>
        BY <1>4, <3>3 DEF NotifyDarkModeUpdate, switchVars, tempVars
      <4>2. /\ queue = "NONE" /\ color.usersParam = thread["ipc"].dark
            /\ state.mode = "CUSTOM_AUTO" => Due \/ TempEffective(temp) \/ Follows(thread["ipc"].dark)
        BY <2>3, <4>1 DEF GoesIpc, SavingPCs
      <4> DEFINE mode == IF thread["ipc"].dark THEN "ALWAYS_DARK" ELSE "ALWAYS_LIGHT"
                 rewrites == state.mode \notin {mode, "CUSTOM_AUTO"} /\ phase # "booting"
      <4>3. told' = IF rewrites /\ phase = "registered" THEN told \cup {"mode"} ELSE told
        BY <3>3 DEF NotifyDarkModeUpdate
      <4>4. Due' \/ Kept' \/ Follows(thread["ipc"].dark)
        <5>1. CASE rewrites
          <6>1. "mode" \in told'
            BY <2>3, <4>3, <5>1 DEF Calm, DataOK
          <6> QED
            BY <6>1 DEF Due, DueObserver
        <5>2. CASE state.mode = "CUSTOM_AUTO"
          <6>1. told' = told
            BY <4>3, <5>2
          <6>2. (Due' <=> Due) /\ (TempEffective(temp) => Kept')
            BY <1>2, <1>9, <4>1, <5>2, <6>1 DEF Kept, TempEffective
          <6> QED
            BY <4>2, <5>2, <6>2
        <5>3. CASE phase = "booting"
          BY <5>3 DEF FollowAll, StartInv, Follows, HasColor
        <5>4. CASE state.mode = mode
          <6>1. thread["ipc"].dark \in BOOLEAN
            BY <1>1 DEF Records
          <6> QED
            BY <5>4, <6>1 DEF Follows, ColorOf
        <5> QED
          BY <5>1, <5>2, <5>3, <5>4
      <4>5. QueueRight' /\ DecidedDark' = thread["ipc"].dark
        BY <1>2, <4>1, <4>2 DEF QueueRight, DecidedDark
      <4>6. Settled'
        BY <1>10, <4>4, <4>5 DEF Settled, Follows
      <4> QED
        BY <4>1, <4>6 DEF Waiting
    <3> QED
      BY <1>12, <3>1, <3>2, <3>3
  <2>4. FollowInv'
    BY <1>1, <2>1, <2>2, <2>3, FollowGoesOn DEF FollowAll, Goes
  <2> QED
    BY <1>7, <1>8, <2>4 DEF FollowAll
<1> QED
  BY <1>11, <1>12 DEF IpcMoves

LEMMA TimerFollow ==
    ASSUME Base, FollowAll, TimerCallback \/ CheckTimerCallbackParams
    PROVE  FollowAll'
<1> USE DEF Base
<1>1. /\ "timer" \in Threads /\ "timer" # "ipc" /\ "timer" # "event" /\ "timer" \notin Keys
      /\ thread \in [Threads -> Records]
  BY DEF Threads, ThreadsOK, Keys
<1>2. UNCHANGED << table, told, phase, state, armed, queue, temp, color, boundaries, stale >>
  BY DEF TimerCallback, CheckTimerCallbackParams, settingVars, timerVars, switchVars, tempVars, bounds, history
<1> DEFINE r == [Idle EXCEPT !.pc = "check", !.value = fired]
           q == [Idle EXCEPT !.pc = "queue", !.dark = InDarkInterval(state.time)]
<1>3. /\ r.pc = "check" /\ r.value = fired /\ Idle.pc = "idle"
      /\ q.pc = "queue" /\ q.dark = InDarkInterval(state.time) /\ ~q.reset /\ ~q.boot /\ q.then = "finish"
  BY DEF Idle
<1>4. \/ /\ TimerCallback /\ clean' = clean /\ thread' = [thread EXCEPT !["timer"] = r]
         /\ thread["timer"].pc = "idle" /\ fired # Unset /\ fired' = Unset
      \/ /\ clean' = clean /\ thread' = [thread EXCEPT !["timer"] = Idle] /\ fired' = fired
         /\ thread["timer"].pc = "check"
         /\ ~(state.mode = "CUSTOM_AUTO" /\ state.time = thread["timer"].value)
      \/ /\ clean' = (clean /\ Alone("timer")) /\ thread' = [thread EXCEPT !["timer"] = q] /\ fired' = fired
         /\ thread["timer"].pc = "check"
         /\ state.mode = "CUSTOM_AUTO" /\ state.time = thread["timer"].value
  BY DEF TimerCallback, CheckTimerCallbackParams, Decides, history, timerVars, At
<1> HIDE DEF r, q
<1>5. /\ \A u \in Threads \ {"timer"} : thread'[u] = thread[u]
      /\ \/ clean' = clean /\ thread'["timer"] = r /\ fired # Unset /\ thread["timer"].pc = "idle" /\ fired' = Unset
         \/ /\ clean' = clean /\ thread'["timer"] = Idle /\ thread["timer"].pc = "check" /\ fired' = fired
            /\ ~(state.mode = "CUSTOM_AUTO" /\ state.time = thread["timer"].value)
         \/ /\ clean' = (clean /\ Alone("timer")) /\ thread'["timer"] = q /\ thread["timer"].pc = "check"
            /\ fired' = fired /\ state.mode = "CUSTOM_AUTO" /\ state.time = thread["timer"].value
  BY <1>1, <1>4
<1>6. phase # "booting"
  BY <1>1, <1>5 DEF FollowAll, StartInv
<1>7. StartInv'
  BY <1>1, <1>2, <1>3, <1>5, <1>6, StartKept DEF FollowAll
<1>8. SettingsInv'
  BY <1>1, <1>2, <1>3, <1>5, SettingsKept DEF FollowAll
<1>9. ASSUME clean' = clean, thread'["timer"] = r \/ thread'["timer"] = Idle PROVE FollowInv'
  <2>1. Due => Due'
    <3>1. DueObserver => DueObserver'
      BY <1>1, <1>2, <1>5 DEF DueObserver, Threads, Keys
    <3>2. DueTimer => DueTimer'
      BY <1>2, <1>3, <1>5, <1>9 DEF DueTimer
    <3> QED
      BY <3>1, <3>2 DEF Due
  <2>2. thread["timer"].pc \in Waiting /\ thread'["timer"].pc \in Waiting
    BY <1>3, <1>5, <1>9 DEF Waiting
  <2>3. boundaries' \in Nat /\ boundaries <= boundaries'
    BY <1>2 DEF DataOK
  <2> QED
    BY <1>1, <1>2, <1>5, <1>9, <2>1, <2>2, <2>3, FollowWaits DEF FollowAll, Calm
<1>10. ASSUME clean' = (clean /\ Alone("timer")), thread'["timer"] = q, thread["timer"].pc = "check",
              state.mode = "CUSTOM_AUTO", state.time = thread["timer"].value
       PROVE  FollowInv'
  <2>1. state.time # Unset
    BY <1>10 DEF FollowAll, StartInv
  <2>2. HasColor(state)' => q.dark = ColorOf(state)'
    BY <1>2, <1>3, <1>10, <2>1 DEF Follows, HasColor, ColorOf, InDarkInterval
  <2>3. Goes("timer")'
    BY <1>1, <1>2, <1>3, <1>10, <2>1, <2>2 DEF Goes, GoesElse, Follows, Waiting, Asks, Sets, SavingPCs
  <2>4. Calm' => Calm /\ Alone("timer")
    BY <1>2, <1>10 DEF Calm
  <2> QED
    BY <1>1, <1>5, <1>10, <2>3, <2>4, FollowDecides DEF FollowAll, Waiting
<1>11. FollowInv'
  BY <1>5, <1>9, <1>10
<1> QED
  BY <1>7, <1>8, <1>11 DEF FollowAll

\* Loading is begun: the observers will be told of all, and then hold what it read.
LEMMA LoadBeginsFollow ==
    ASSUME Base, FollowAll, OnSwitchContext \/ LoadReads
    PROVE  FollowAll'
<1> USE DEF Base
<1>1. /\ "event" \in Threads /\ "event" # "ipc" /\ "event" # "timer" /\ "event" \notin Keys
      /\ {"timer", "ipc"} \cup Keys \subseteq Threads \ {"event"} /\ thread["event"] \in Records
      /\ thread \in [Threads -> Records]
      /\ \A u \in Threads \ {"event"} : thread'[u] = thread[u]
  BY EventBase DEF ThreadsOK, Threads, Keys, EventMoves
<1>2. UNCHANGED << table, state, armed, fired, queue, temp, color, boundaries, clean, stale >>
  BY DEF OnSwitchContext, LoadReads, settingVars, timerVars, switchVars, tempVars, bounds, history
<1>3. boundaries' \in Nat /\ boundaries <= boundaries'
  BY <1>2 DEF DataOK
<1>4. CASE OnSwitchContext
  <2>1. /\ phase = "booting" /\ phase' = "registered" /\ told' = Keys
        /\ thread["event"].pc = "idle" /\ thread'["event"].pc = "read"
    BY <1>1, <1>4 DEF OnSwitchContext, At, Goto, Records
  <2>2. StartInv'
    BY <1>1, <1>2, <2>1 DEF FollowAll, StartInv
  <2>3. SettingsInv'
    BY <2>1 DEF SettingsInv
  <2>4. Due'
    BY <2>1 DEF Due, DueObserver, Keys
  <2>5. Calm' => Calm
    BY <1>2, <2>1 DEF Calm
  <2>6. FollowInv'
    BY <1>1, <1>2, <1>3, <2>1, <2>4, <2>5, FollowWaits DEF FollowAll, Waiting
  <2> QED
    BY <2>2, <2>3, <2>6 DEF FollowAll
<1>5. CASE LoadReads
  <2> DEFINE r == [Idle EXCEPT !.pc = "load", !.value = table]
  <2>1. r.pc = "load" /\ r.value = table
    BY DEF Idle
  <2>2. UNCHANGED << told, phase >> /\ thread' = [thread EXCEPT !["event"] = r] /\ thread["event"].pc = "read"
    BY <1>5 DEF LoadReads, At, settingVars
  <2> HIDE DEF r
  <2>3. thread'["event"].pc = "load" /\ thread'["event"].value = table
    BY <1>1, <2>1, <2>2
  <2>4. phase # "booting"
    BY <1>1, <2>2 DEF FollowAll, StartInv
  <2>5. StartInv'
    BY <1>1, <1>2, <2>2, <2>3, <2>4, StartKept DEF FollowAll
  <2>6. SettingsInv'
    BY <1>1, <1>2, <2>2, <2>3 DEF FollowAll, SettingsInv
  <2>7. Due' <=> Due
    BY <1>1, <1>2, <2>2, <2>3, DueKept
  <2>8. Calm' => Calm
    BY <1>2, <2>2 DEF Calm
  <2>9. FollowInv'
    BY <1>1, <1>2, <1>3, <2>2, <2>3, <2>7, <2>8, FollowWaits DEF FollowAll, Waiting
  <2> QED
    BY <2>5, <2>6, <2>9 DEF FollowAll
<1> QED
  BY <1>4, <1>5

\* The other steps of the thread of common events: some wait, some decide and
\* some go on.
EventActs ==
    \/ TimeChange \/ SetScreenOff \/ RestartTimer \/ RestartWithin \/ RestartAllTimer
    \/ HaveScreenOffOperate \/ GetScreenOffOperateInfo \/ ScreenOffDone

LEMMA EventShape ==
    ASSUME Base, EventActs
    PROVE  LET r == thread["event"]
               s == thread'["event"] IN
           \/ /\ clean' = clean /\ queue' = queue
              /\ \/ r.pc = "idle" /\ s.pc = "restart" /\ phase = "registered"
                 \/ r.pc = "idle" /\ s.pc = "have"
                 \/ r.pc = "restart" /\ s.pc = "idle"
                 \/ r.pc = "have" /\ s.pc = "idle"
           \/ /\ clean' = (clean /\ Alone("event")) /\ queue' = queue
              /\ \/ /\ r.pc = "restart" /\ s.pc = "within" /\ s.value = state.time
                    /\ state.mode = "CUSTOM_AUTO"
                 \/ r.pc = "have" /\ s.pc = "get" /\ queue # "NONE"
           \/ /\ clean' = clean /\ queue' = queue
              /\ \/ /\ r.pc = "within" /\ s.pc = "queue" /\ (s.dark <=> InDarkInterval(r.value))
                    /\ s.then = "rearm" /\ ~s.reset /\ ~s.boot
                 \/ /\ r.pc = "get" /\ s.pc = "configuration" /\ (s.dark <=> queue = "SWITCH_TO_DARK")
                    /\ s.then = "dequeue"
                 \/ r.pc = "rearm" /\ s.pc = "idle"
           \/ clean' = clean /\ queue' = "NONE" /\ r.pc = "dequeue" /\ s.pc = "idle"
<1> USE DEF Base
<1>1. "event" \in Threads /\ thread["event"] \in Records /\ thread \in [Threads -> Records]
  BY DEF ThreadsOK, Threads
<1>2. ASSUME NEW pc, Goto("event", pc) PROVE thread'["event"].pc = pc
  BY <1>1, <1>2 DEF Goto, Records
<1>3. Idle.pc = "idle"
  BY DEF Idle
<1>4. CASE TimeChange \/ SetScreenOff
  <2>1. /\ clean' = clean /\ queue' = queue /\ thread["event"].pc = "idle"
        /\ (Goto("event", "restart") /\ phase = "registered") \/ Goto("event", "have")
    BY <1>4 DEF TimeChange, SetScreenOff, history, switchVars, At
  <2> QED
    BY <1>2, <2>1
<1>5. CASE HaveScreenOffOperate
  <2>1. /\ queue' = queue /\ thread["event"].pc = "have"
        /\ \/ Goto("event", "get") /\ clean' = (clean /\ Alone("event")) /\ queue # "NONE"
           \/ Goto("event", "idle") /\ clean' = clean
    BY <1>5 DEF HaveScreenOffOperate, Decides, switchVars, At
  <2> QED
    BY <1>2, <2>1
<1>6. CASE RestartTimer
  <2> DEFINE r == [Idle EXCEPT !.pc = "within", !.value = state.time]
  <2>1. r.pc = "within" /\ r.value = state.time
    BY DEF Idle
  <2>2. /\ queue' = queue /\ thread["event"].pc = "restart"
        /\ \/ /\ state.mode = "CUSTOM_AUTO" /\ thread' = [thread EXCEPT !["event"] = r]
              /\ clean' = (clean /\ Alone("event"))
           \/ thread' = [thread EXCEPT !["event"] = Idle] /\ clean' = clean
    BY <1>6 DEF RestartTimer, Decides, switchVars, At
  <2> HIDE DEF r
  <2> QED
    BY <1>1, <1>3, <2>1, <2>2
<1>7. CASE RestartWithin
  <2> DEFINE r == [Idle EXCEPT !.pc = "queue", !.dark = InDarkInterval(thread["event"].value),
                               !.then = "rearm"]
  <2>1. /\ r.pc = "queue" /\ (r.dark <=> InDarkInterval(thread["event"].value)) /\ r.then = "rearm"
        /\ ~r.reset /\ ~r.boot
    BY DEF Idle
  <2>2. /\ queue' = queue /\ clean' = clean /\ thread["event"].pc = "within"
        /\ thread' = [thread EXCEPT !["event"] = r]
    BY <1>7 DEF RestartWithin, switchVars, history, At
  <2> HIDE DEF r
  <2> QED
    BY <1>1, <2>1, <2>2
<1>8. CASE GetScreenOffOperateInfo
  <2> DEFINE r == [Idle EXCEPT !.pc = "configuration", !.dark = (queue = "SWITCH_TO_DARK"),
                               !.then = "dequeue"]
  <2>1. r.pc = "configuration" /\ (r.dark <=> queue = "SWITCH_TO_DARK") /\ r.then = "dequeue"
    BY DEF Idle
  <2>2. /\ queue' = queue /\ clean' = clean /\ thread["event"].pc = "get"
        /\ thread' = [thread EXCEPT !["event"] = r]
    BY <1>8 DEF GetScreenOffOperateInfo, switchVars, history, At
  <2> HIDE DEF r
  <2> QED
    BY <1>1, <2>1, <2>2
<1>9. CASE RestartAllTimer
  BY <1>1, <1>3, <1>9 DEF RestartAllTimer, switchVars, history, At
<1>10. CASE ScreenOffDone
  BY <1>1, <1>3, <1>10 DEF ScreenOffDone, history, At
<1> QED
  BY <1>4, <1>5, <1>6, <1>7, <1>8, <1>9, <1>10 DEF EventActs

LEMMA EventFollow ==
    ASSUME Base, FollowAll, EventActs
    PROVE  FollowAll'
<1> USE DEF Base
<1>1. /\ "event" \in Threads /\ "event" # "ipc" /\ "event" # "timer"
      /\ \A u \in Threads \ {"event"} : thread'[u] = thread[u]
  BY EventBase DEF Threads, EventMoves, EventActs
<1>2. UNCHANGED << table, told, phase, state, armed, fired, temp, color, boundaries, stale >>
  BY DEF EventActs, TimeChange, SetScreenOff, RestartTimer, RestartWithin, RestartAllTimer,
     HaveScreenOffOperate, GetScreenOffOperateInfo, ScreenOffDone,
     settingVars, timerVars, switchVars, tempVars, bounds, history
<1>3. /\ thread["event"].pc \notin {"read", "load", "observe", "check"}
      /\ thread'["event"].pc \notin {"read", "load", "observe", "check"}
  BY EventShape
<1>4. phase = "booting" => thread'["event"].pc \in {"idle", "have"} /\ queue' = queue
  <2> SUFFICES ASSUME phase = "booting" PROVE thread'["event"].pc \in {"idle", "have"} /\ queue' = queue
    OBVIOUS
  <2>1. thread["event"].pc \in {"idle", "have"} /\ queue = "NONE"
    BY <1>1 DEF FollowAll, StartInv
  <2> QED
    BY <2>1, EventShape
<1>5. StartInv'
  BY <1>1, <1>2, <1>3, <1>4, StartKept DEF FollowAll
<1>6. SettingsInv'
  BY <1>1, <1>2, <1>3, SettingsKept DEF FollowAll
<1>7. Due' <=> Due
  BY <1>1, <1>2, <1>3, DueKept
<1>8. \A dark : (HasColor(state)' => dark = ColorOf(state)') <=> Follows(dark)
  BY <1>2 DEF Follows, HasColor, ColorOf, InDarkInterval
<1>9. queue' = queue => (QueueRight' <=> QueueRight) /\ (Settled' <=> Settled)
  <2> SUFFICES ASSUME queue' = queue PROVE (QueueRight' <=> QueueRight) /\ (Settled' <=> Settled)
    OBVIOUS
  <2>1. QueueRight' <=> QueueRight
    BY <1>2 DEF QueueRight, TempEffective
  <2>2. (Kept' <=> Kept) /\ DecidedDark' = DecidedDark
    BY <1>2 DEF Kept, TempEffective, DecidedDark
  <2> QED
    BY <1>7, <1>8, <2>1, <2>2 DEF Settled, Follows
<1>10. CASE /\ clean' = clean /\ queue' = queue
            /\ thread["event"].pc \in Waiting /\ thread'["event"].pc \in Waiting
  <2>1. boundaries' \in Nat /\ boundaries <= boundaries'
    BY <1>2 DEF DataOK
  <2>2. FollowInv'
    BY <1>1, <1>2, <1>7, <1>10, <2>1, FollowWaits DEF FollowAll, Calm
  <2> QED
    BY <1>5, <1>6, <2>2 DEF FollowAll
<1>11. CASE /\ clean' = (clean /\ Alone("event")) /\ queue' = queue
            /\ \/ /\ thread["event"].pc = "restart" /\ thread'["event"].pc = "within"
                  /\ thread'["event"].value = state.time /\ state.mode = "CUSTOM_AUTO"
               \/ thread["event"].pc = "have" /\ thread'["event"].pc = "get" /\ queue # "NONE"
  <2>1. Settled => Goes("event")'
    <3> SUFFICES ASSUME Settled PROVE Goes("event")'
      OBVIOUS
    <3>1. QueueRight' /\ (queue # "NONE" => Due' \/ Follows(queue = "SWITCH_TO_DARK"))
      BY <1>7, <1>9, <1>11 DEF Settled, QueueRight, Kept, DecidedDark
    <3>2. CASE thread'["event"].pc = "within"
      BY <1>1, <1>2, <1>11, <3>1, <3>2 DEF Goes, GoesElse, Waiting, Asks, Sets, SavingPCs
    <3>3. CASE thread'["event"].pc = "get"
      BY <1>1, <1>2, <1>8, <1>11, <3>1, <3>3 DEF Goes, GoesElse, Waiting, Asks, Sets, SavingPCs, Follows
    <3> QED
      BY <1>11, <3>2, <3>3
  <2>2. Calm' => Calm /\ Alone("event")
    BY <1>2, <1>11 DEF Calm
  <2>3. thread["event"].pc \in Waiting
    BY <1>11 DEF Waiting
  <2>4. FollowInv'
    BY <1>1, <2>1, <2>2, <2>3, FollowDecides DEF FollowAll
  <2> QED
    BY <1>5, <1>6, <2>4 DEF FollowAll
<1>12. CASE /\ clean' = clean
            /\ \/ /\ queue' = queue /\ thread["event"].pc = "within" /\ thread'["event"].pc = "queue"
                  /\ (thread'["event"].dark <=> InDarkInterval(thread["event"].value))
                  /\ thread'["event"].then = "rearm" /\ ~thread'["event"].reset /\ ~thread'["event"].boot
               \/ /\ queue' = queue /\ thread["event"].pc = "get" /\ thread'["event"].pc = "configuration"
                  /\ (thread'["event"].dark <=> queue = "SWITCH_TO_DARK")
                  /\ thread'["event"].then = "dequeue"
               \/ queue' = queue /\ thread["event"].pc = "rearm" /\ thread'["event"].pc = "idle"
               \/ queue' = "NONE" /\ thread["event"].pc = "dequeue" /\ thread'["event"].pc = "idle"
  <2>1. thread["event"].pc \notin Waiting /\ (Calm' => Calm)
    BY <1>2, <1>12 DEF Calm, Waiting
  <2>2. thread'["event"].dark \in BOOLEAN
    BY <1>1, EventBase DEF EventMoves, EventActs, ThreadsOK, Records
  <2>3. ASSUME Calm, GoesElse(thread["event"])
        PROVE  Goes("event")' \/ (thread'["event"].pc \in Waiting /\ Settled')
    <3>1. CASE thread["event"].pc = "within"
      <4>1. state.mode = "CUSTOM_AUTO" /\ thread["event"].value = state.time
        BY <2>3, <3>1 DEF GoesElse
      <4>2. state.time \in Times
        <5>1. phase # "booting"
          BY <1>1, <3>1 DEF FollowAll, StartInv
        <5>2. phase = "registered"
          BY <2>3, <5>1 DEF Calm, DataOK
        <5> QED
          BY <3>1, <5>2 DEF FollowAll, StartInv, Settings
      <4>3. state.time # Unset
        BY <4>2, TimesType DEF Unset
      <4>4. Follows(thread'["event"].dark)
        BY <1>12, <2>2, <3>1, <4>1, <4>3 DEF Follows, ColorOf
      <4>5. /\ thread'["event"].pc = "queue" /\ thread'["event"].then = "rearm" /\ ~thread'["event"].boot
            /\ ~thread'["event"].reset
        BY <1>12, <3>1
      <4>6. HasColor(state)' => thread'["event"].dark = ColorOf(state)'
        BY <1>8, <4>4
      <4> QED
        BY <1>1, <1>2, <4>1, <4>3, <4>5, <4>6 DEF Goes, GoesElse, Waiting, Asks, Sets, SavingPCs, Follows
    <3>2. CASE thread["event"].pc = "get"
      <4>1. thread'["event"].pc = "configuration" /\ thread'["event"].then = "dequeue"
        BY <1>12, <3>2
      <4>2. Due \/ Follows(queue = "SWITCH_TO_DARK")
        BY <2>3, <3>2 DEF GoesElse
      <4>3. thread'["event"].dark = (queue = "SWITCH_TO_DARK")
        BY <1>12, <2>2, <3>2
      <4>4. Due' \/ (HasColor(state)' => thread'["event"].dark = ColorOf(state)')
        BY <1>7, <1>8, <4>2, <4>3
      <4> QED
        BY <1>1, <4>1, <4>4 DEF Goes, GoesElse, Waiting, Asks, Sets, SavingPCs, Follows
    <3>3. CASE thread["event"].pc = "rearm"
      <4>1. Settled /\ queue' = queue /\ thread'["event"].pc = "idle"
        BY <1>12, <2>3, <3>3 DEF GoesElse
      <4> QED
        BY <1>9, <4>1 DEF Waiting
    <3>4. CASE thread["event"].pc = "dequeue"
      <4>1. queue' = "NONE" /\ thread'["event"].pc = "idle"
        BY <1>12, <3>4
      <4>2. color.usersParam = thread["event"].dark /\ (Due \/ Follows(thread["event"].dark))
        BY <2>3, <3>4 DEF GoesElse
      <4>3. QueueRight' /\ DecidedDark' = thread["event"].dark
        BY <1>2, <4>1, <4>2 DEF QueueRight, DecidedDark
      <4>4. Due' \/ Follows(thread["event"].dark)
        BY <1>7, <4>2
      <4>5. Settled'
        BY <1>8, <4>3, <4>4 DEF Settled, Follows
      <4> QED
        BY <4>1, <4>5 DEF Waiting
    <3> QED
      BY <1>12, <3>1, <3>2, <3>3, <3>4
  <2>4. FollowInv'
    BY <1>1, <2>1, <2>3, FollowGoesOn DEF FollowAll, Goes
  <2> QED
    BY <1>5, <1>6, <2>4 DEF FollowAll
<1> QED
  BY EventShape, <1>10, <1>11, <1>12 DEF Waiting

\* An observer brings its setting into memory, and decides for the colour of it.
LEMMA ObserverFollow ==
    ASSUME Base, FollowAll, NEW key \in Keys, ObserverReads(key) \/ SettingDataUpdateFunc(key)
    PROVE  FollowAll'
<1> USE DEF Base
<1>1. /\ key \in Threads /\ key \in {"mode", "time"} /\ key # "ipc" /\ key # "event" /\ key # "timer"
      /\ {"event", "timer", "ipc"} \subseteq Threads \ {key} /\ Keys \subseteq Threads
      /\ thread \in [Threads -> Records]
  BY DEF Threads, Keys, ThreadsOK
<1>2. UNCHANGED << table, phase, queue, temp, color, boundaries >>
  BY DEF ObserverReads, SettingDataUpdateFunc, settingVars, switchVars, tempVars, bounds
<1>3. phase # "booting"
  BY <1>1 DEF ObserverReads, SettingDataUpdateFunc, At, FollowAll, StartInv
<1>4. CASE ObserverReads(key)
  <2> DEFINE r == [Idle EXCEPT !.pc = "observe", !.value = table[key]]
  <2>1. r.pc = "observe" /\ r.value = table[key]
    BY DEF Idle
  <2>2. /\ thread' = [thread EXCEPT ![key] = r] /\ thread[key].pc = "idle" /\ told' = told \ {key}
        /\ UNCHANGED << state, armed, fired, clean, stale >>
    BY <1>4 DEF ObserverReads, history, timerVars, At
  <2> HIDE DEF r
  <2>3. /\ \A u \in Threads \ {key} : thread'[u] = thread[u]
        /\ thread'[key].pc = "observe" /\ thread'[key].value = table[key]
    BY <1>1, <2>1, <2>2
  <2>4. StartInv'
    BY <1>1, <1>2, <1>3, <2>2, <2>3, StartKept DEF FollowAll
  <2>5. SettingsInv'
    BY <1>1, <1>2, <2>2, <2>3 DEF FollowAll, SettingsInv
  <2>6. Due'
    BY <2>3 DEF Due, DueObserver
  <2>7. (Calm' => Calm) /\ boundaries' \in Nat /\ boundaries <= boundaries'
    BY <1>2, <2>2 DEF Calm, DataOK
  <2>8. FollowInv'
    BY <1>1, <1>2, <2>2, <2>3, <2>6, <2>7, FollowWaits DEF FollowAll, Waiting
  <2> QED
    BY <2>4, <2>5, <2>8 DEF FollowAll
<1>5. CASE SettingDataUpdateFunc(key)
  <2> DEFINE s == [state EXCEPT ![key] = thread[key].value]
  <2>1. /\ thread[key].value \in (IF key = "mode" THEN ModeNames ELSE Times) /\ thread[key].pc = "observe"
    BY <1>1, <1>5 DEF SettingDataUpdateFunc, At, ThreadsOK, HasRead
  <2>2. /\ s \in [mode : ModeNames \cup {"INVALID"}, time : Times \cup {Unset}]
        /\ s[key] = thread[key].value /\ \A k \in Keys \ {key} : s[k] = state[k]
        /\ state \in Settings => s \in Settings
        /\ s.time = Unset => state.time = Unset
        /\ s.mode = "INVALID" => state.mode = "INVALID"
    <3>1. key = "mode" => s.mode \in ModeNames /\ s.time = state.time
      BY <1>1, <2>1 DEF DataOK
    <3>2. key = "time" => s.time \in Times /\ s.mode = state.mode
      BY <1>1, <2>1 DEF DataOK
    <3>3. s \in [mode : ModeNames \cup {"INVALID"}, time : Times \cup {Unset}]
      BY <1>1, <2>1 DEF DataOK
    <3>4. s[key] = thread[key].value /\ \A k \in Keys \ {key} : s[k] = state[k]
      BY <1>1 DEF DataOK, Keys
    <3>5. state \in Settings => s \in Settings
      BY <1>1, <2>1 DEF Settings
    <3> HIDE DEF s
    <3>6. "INVALID" \notin ModeNames /\ Unset \notin Times
      BY TimesType DEF ModeNames, Unset
    <3> QED
      BY <1>1, <3>1, <3>2, <3>3, <3>4, <3>5, <3>6
  <2>3. /\ OnStateChangeLocked(key, s, TRUE, FALSE) /\ state' = s /\ told' = told
        /\ clean' = (Alone(key) /\ (clean \/ HasColor(state')))
        /\ stale' = IF thread["event"].pc = "load" THEN stale \cup {key} ELSE stale \ {key}
    BY <1>5 DEF SettingDataUpdateFunc, OnStateChangeLocked, settingVars, At
  <2> HIDE DEF s
  <2>4. /\ \A u \in Threads \ {key} : thread'[u] = thread[u]
        /\ IF HasColor(s)
           THEN thread'[key] = [Idle EXCEPT !.pc = "queue", !.dark = ColorOf(s), !.reset = TRUE, !.boot = FALSE]
           ELSE thread'[key] = Idle
    BY <1>1, <2>2, <2>3, Starts
  <2>5. thread'[key].pc \in {"idle", "queue"}
    <3>1. [Idle EXCEPT !.pc = "queue", !.dark = ColorOf(s), !.reset = TRUE, !.boot = FALSE].pc = "queue"
          /\ Idle.pc = "idle"
      BY DEF Idle
    <3> QED
      BY <2>4, <3>1
  <2>6. thread'["event"] = thread["event"] /\ thread'["timer"] = thread["timer"] /\ thread'["ipc"] = thread["ipc"]
    BY <1>1, <2>4
  <2>7. StartInv'
    <3>1. thread["event"].pc = "read" => stale' = {}
      BY <2>3 DEF FollowAll, StartInv
    <3> QED
      BY <1>2, <1>3, <2>2, <2>3, <2>6, <3>1 DEF FollowAll, StartInv
  <2>8. SettingsInv'
    <3> SUFFICES ASSUME phase = "registered", NEW k \in Keys, k \notin told
                 PROVE  (IF thread[k].pc = "observe" THEN thread[k].value = table[k]
                         ELSE \/ k \in stale
                              \/ /\ state[k] = table[k]
                                 /\ thread["event"].pc = "load" => thread["event"].value[k] = table[k])'
      BY <1>2, <2>3 DEF SettingsInv
    <3>1. CASE k = key
      <4>1. thread[key].value = table[key]
        BY <2>1, <3>1 DEF FollowAll, SettingsInv
      <4>2. state'[key] = table'[key] /\ thread'[key].pc # "observe"
        BY <1>2, <2>2, <2>3, <2>5, <4>1
      <4>3. thread'["event"].pc = "load" => key \in stale'
        BY <2>3, <2>6
      <4> QED
        BY <3>1, <4>2, <4>3
    <3>2. CASE k # key
      <4>1. thread'[k] = thread[k] /\ state'[k] = state[k] /\ (k \in stale' <=> k \in stale)
        BY <1>1, <2>2, <2>3, <2>4, <3>2
      <4> QED
        BY <1>2, <2>6, <4>1 DEF FollowAll, SettingsInv
    <3> QED
      BY <3>1, <3>2
  <2>9. CASE HasColor(s)
    <3> DEFINE r == [Idle EXCEPT !.pc = "queue", !.dark = ColorOf(s), !.reset = TRUE, !.boot = FALSE]
    <3>1. r.pc = "queue" /\ r.dark = ColorOf(s) /\ r.reset /\ ~r.boot /\ r.then = "finish"
      BY DEF Idle
    <3>2. thread'[key] = r
      BY <2>4, <2>9
    <3> HIDE DEF r
    <3>3. Follows(thread[key].dark)'
      BY <1>2, <2>3, <3>1, <3>2 DEF Follows, HasColor, ColorOf, InDarkInterval
    <3>4. Goes(key)'
      BY <1>1, <3>1, <3>2, <3>3 DEF Goes, GoesElse, Waiting, Asks, Sets, SavingPCs
    <3>5. Calm' => \A u \in Threads \ {key} : thread'[u].pc \in Waiting
      BY <2>3, <2>4 DEF Calm, Alone
    <3>6. FollowInv'
      BY <1>1, <3>4, <3>5 DEF FollowInv
    <3> QED
      BY <2>7, <2>8, <3>6 DEF FollowAll
  <2>10. CASE ~HasColor(s)
    <3>1. s \notin Settings
      <4>1. s \in Settings => s.mode \in ModeNames /\ s.time \in Times
        BY DEF Settings
      <4> QED
        BY <2>10, <4>1, TimesType DEF HasColor, ModeNames, Unset
    <3>2. Calm' => Calm /\ Alone(key)
      <4> SUFFICES ASSUME Calm' PROVE stale = {}
        BY <1>2, <2>3, <2>10 DEF Calm, HasColor
      <4>1. phase = "registered"
        BY <1>2, <1>3 DEF Calm, DataOK
      <4>2. thread["event"].pc \in {"read", "load"}
        BY <2>2, <3>1, <4>1 DEF FollowAll, StartInv
      <4>3. thread["event"].pc # "load"
        BY <2>3 DEF Calm
      <4> QED
        BY <4>2, <4>3 DEF FollowAll, StartInv
    <3>3. Settled => Settled'
      <4> SUFFICES ASSUME QueueRight PROVE Settled'
        BY DEF Settled
      <4>1. s.mode \in {"INVALID", "CUSTOM_AUTO"} /\ (s.mode = "CUSTOM_AUTO" => s.time = Unset)
        BY <2>2, <2>10 DEF HasColor, ModeNames
      <4>2. queue = "NONE"
        BY <2>2, <4>1 DEF QueueRight
      <4>3. QueueRight'
        BY <1>2, <4>2 DEF QueueRight
      <4>4. Follows(DecidedDark)'
        BY <2>3, <2>10 DEF Follows, HasColor
      <4> QED
        BY <4>3, <4>4 DEF Settled
    <3>4. thread'[key].pc \in Waiting /\ thread[key].pc \in Waiting
      BY <2>1, <2>4, <2>10 DEF Idle, Waiting
    <3>5. FollowInv'
      BY <1>1, <2>4, <3>2, <3>3, <3>4, FollowDecides DEF FollowAll
    <3> QED
      BY <2>7, <2>8, <3>5 DEF FollowAll
  <2> QED
    BY <2>9, <2>10
<1> QED
  BY <1>4, <1>5

\* Loading decides for the colour of what it read, and if a manual choice keeps
\* it from setting that, the colour is right or an observer will see to it.
LEMMA LoadFollow ==
    ASSUME Base, FollowAll, TimersInv, LoadUserSettingData
    PROVE  FollowAll'
<1> USE DEF Base
<1>1. /\ "event" \in Threads /\ "event" # "ipc" /\ "event" \notin Keys
      /\ {"timer", "ipc"} \cup Keys \subseteq Threads \ {"event"}
  BY DEF Threads, Keys
<1> DEFINE s == thread["event"].value
<1>2. /\ s \in Settings /\ OnStateChangeLocked("event", s, FALSE, TRUE) /\ state' = s
      /\ thread["event"].pc = "load"
  BY <1>1 DEF LoadUserSettingData, OnStateChangeLocked, At, ThreadsOK, HasRead
<1>3. /\ UNCHANGED << table, told, phase, color, boundaries, stale >>
      /\ queue' = "NONE" /\ clean' = (clean /\ Alone("event"))
  BY DEF LoadUserSettingData, Decides, settingVars, bounds
<1>4. phase = "registered"
  <2>1. phase # "booting"
    BY <1>1, <1>2 DEF FollowAll, StartInv
  <2>2. phase # "left"
    BY <1>2 DEF TimersInv
  <2> QED
    BY <2>1, <2>2 DEF DataOK
<1>5. \A key \in Keys \ told :
        thread[key].pc = "observe" \/ key \in stale \/ (state[key] = table[key] /\ s[key] = table[key])
  BY <1>2, <1>4 DEF FollowAll, SettingsInv
<1> HIDE DEF s
<1>6. HasColor(s)
  <2>1. s.mode \in ModeNames /\ s.time \in Times
    BY <1>2 DEF Settings
  <2> QED
    BY <2>1, TimesType DEF HasColor, ModeNames, Unset
<1> DEFINE r == [Idle EXCEPT !.pc = "queue", !.dark = ColorOf(s), !.reset = FALSE, !.boot = TRUE]
<1>7. (\A u \in Threads \ {"event"} : thread'[u] = thread[u]) /\ thread'["event"] = r /\ fired' = fired
  BY <1>1, <1>2, <1>6, Starts
<1>8. r.pc = "queue" /\ r.dark = ColorOf(s) /\ r.boot /\ r.then = "finish"
  BY DEF Idle
<1> HIDE DEF r
<1>9. StartInv'
  BY <1>1, <1>2, <1>3, <1>4, <1>7, <1>8 DEF FollowAll, StartInv
<1>10. SettingsInv'
  <2>1. \A key \in Keys : thread'[key] = thread[key]
    BY <1>1, <1>7
  <2> QED
    BY <1>2, <1>3, <1>4, <1>5, <1>7, <1>8, <2>1 DEF FollowAll, SettingsInv
<1>11. HasColor(state)' => r.dark = ColorOf(state)'
  BY <1>2, <1>3, <1>8 DEF ColorOf, InDarkInterval
<1>12. ASSUME Calm, Settled, s.mode # "CUSTOM_AUTO", ~Due'
       PROVE  HasColor(state)' => color'.usersParam = ColorOf(state)'
  <2>1. ~DueObserver' /\ told = {}
    BY <1>3, <1>12 DEF Due, DueObserver
  <2>2. ~DueObserver /\ \A key \in Keys : thread[key].pc # "observe"
    BY <1>1, <1>3, <1>7, <2>1 DEF DueObserver
  <2>3. state.mode = s.mode
    BY <1>5, <1>12, <2>1, <2>2 DEF Calm, Keys
  <2>4. ~Due /\ ~Kept
    BY <1>12, <2>2, <2>3 DEF Due, DueTimer, Kept
  <2>5. queue = "NONE" /\ Follows(color.usersParam)
    BY <1>12, <2>3, <2>4 DEF Settled, QueueRight, DecidedDark
  <2>6. s.mode \in {"ALWAYS_LIGHT", "ALWAYS_DARK"}
    BY <1>2, <1>12 DEF Settings, ModeNames
  <2>7. color.usersParam = (s.mode = "ALWAYS_DARK")
    BY <2>3, <2>5, <2>6 DEF Follows, HasColor, ColorOf
  <2> QED
    BY <1>2, <1>3, <2>6, <2>7 DEF ColorOf
<1>13. Calm /\ Settled => Goes("event")'
  <2> SUFFICES ASSUME Calm, Settled PROVE Goes("event")'
    OBVIOUS
  <2>1. state'.mode = "CUSTOM_AUTO" \/ Due' \/ Follows(color.usersParam)'
    BY <1>2, <1>12 DEF Follows
  <2> QED
    BY <1>1, <1>7, <1>8, <1>11, <2>1 DEF Goes, GoesElse, Follows, Waiting, Asks, Sets, SavingPCs
<1>14. (Calm' => Calm /\ Alone("event")) /\ thread["event"].pc \in Waiting
  BY <1>2, <1>3 DEF Calm, Waiting
<1>15. FollowInv'
  BY <1>1, <1>7, <1>13, <1>14, FollowDecides DEF FollowAll
<1> QED
  BY <1>9, <1>10, <1>15 DEF FollowAll

\* Time passes, settings are written, the screen goes on, the context is left, or
\* the process dies.
LEMMA EnvironmentFollow ==
    ASSUME Base, FollowAll, TimersInv, Environment
    PROVE  FollowAll'
<1> USE DEF Base
<1>1. "event" \in Threads /\ {"timer", "ipc", "event"} \cup Keys \subseteq Threads
  BY DEF Threads, Keys
<1>2. CASE Crash
  <2>1. /\ \A t \in Threads : thread'[t] = Idle
        /\ phase' = "booting" /\ told' = {} /\ state'.mode = "INVALID" /\ queue' = "NONE"
        /\ armed' = Unset /\ fired' = Unset /\ stale' = {}
    BY <1>2 DEF Crash
  <2>2. Idle.pc = "idle"
    BY DEF Idle
  <2>3. StartInv'
    BY <1>1, <2>1, <2>2 DEF StartInv, IpcPCs
  <2>4. SettingsInv'
    BY <2>1 DEF SettingsInv
  <2>5. NobodyDecided'
    BY <2>1, <2>2 DEF NobodyDecided, Waiting
  <2>6. Settled'
    BY <2>1 DEF Settled, QueueRight, Follows, HasColor
  <2>7. FollowInv'
    BY <2>5, <2>6 DEF FollowInv
  <2> QED
    BY <2>3, <2>4, <2>7 DEF FollowAll
<1>3. CASE LeaveContext
  <2>1. phase' = "left" /\ UNCHANGED << thread, stale >> /\ thread["event"].pc = "idle"
    BY <1>3 DEF LeaveContext, At, history
  <2>2. StartInv'
    BY <2>1 DEF FollowAll, StartInv
  <2>3. SettingsInv' /\ FollowInv'
    BY <2>1 DEF SettingsInv, FollowInv, Calm
  <2> QED
    BY <2>2, <2>3 DEF FollowAll
<1>4. CASE Boundary
  <2>1. /\ UNCHANGED << table, told, phase, state, armed, queue, temp, color, thread, clean, stale >>
        /\ boundaries' = boundaries + 1
        /\ fired' = IF armed # Unset THEN armed ELSE fired
    BY <1>4 DEF Boundary, settingVars, switchVars, tempVars, history
  <2>2. StartInv'
    BY <2>1 DEF FollowAll, StartInv
  <2>3. SettingsInv'
    BY <2>1 DEF FollowAll, SettingsInv
  <2>4. boundaries' \in Nat /\ boundaries <= boundaries' /\ (Calm' => Calm)
    BY <2>1 DEF DataOK, Calm
  <2>5. CASE phase = "left"
    BY <2>1, <2>2, <2>3, <2>5 DEF FollowAll, FollowInv, Calm
  <2>6. CASE phase # "left"
    <3>1. DueObserver => DueObserver'
      BY <2>1 DEF DueObserver
    <3>2. CASE state.mode = "CUSTOM_AUTO"
      <4>1. armed = state.time
        BY <2>6, <3>2 DEF TimersInv
      <4>2. Due' \/ ~HasColor(state)
        BY <2>1, <3>2, <4>1 DEF Due, DueTimer, HasColor
      <4>3. FollowInv'
        BY <1>1, <2>1, <2>4, <4>2, FollowWaits DEF FollowAll
      <4> QED
        BY <2>2, <2>3, <4>3 DEF FollowAll
    <3>3. CASE state.mode # "CUSTOM_AUTO"
      <4>1. Due => Due'
        BY <3>1, <3>3 DEF Due, DueTimer
      <4>2. FollowInv'
        BY <1>1, <2>1, <2>4, <3>3, <4>1, FollowWaits DEF FollowAll
      <4> QED
        BY <2>2, <2>3, <4>2 DEF FollowAll
    <3> QED
      BY <3>2, <3>3
  <2> QED
    BY <2>5, <2>6
<1>5. CASE ScreenOnCallback \/ (\E mode \in Modes : WriteSetting("mode", mode))
           \/ (\E time \in Times : WriteSetting("time", time))
  <2>1. UNCHANGED << phase, state, armed, fired, queue, temp, color, boundaries, thread, clean, stale >>
    BY <1>5 DEF ScreenOnCallback, WriteSetting, settingVars, timerVars, switchVars, tempVars, history
  <2>2. \/ UNCHANGED << table, told >>
        \/ \E key \in Keys : /\ \A k \in Keys \ {key} : table'[k] = table[k]
                             /\ told' = IF phase = "registered" THEN told \cup {key} ELSE told
    <3>1. CASE ScreenOnCallback
      BY <3>1 DEF ScreenOnCallback, settingVars
    <3>2. ASSUME NEW key \in Keys, NEW value, WriteSetting(key, value)
          PROVE  /\ \A k \in Keys \ {key} : table'[k] = table[k]
                 /\ told' = IF phase = "registered" THEN told \cup {key} ELSE told
      BY <3>2 DEF WriteSetting, DataOK, Settings, Keys
    <3> QED
      BY <1>5, <3>1, <3>2 DEF Keys
  <2>3. phase = "booting" => told' = told
    BY <2>2
  <2>4. StartInv'
    BY <2>1, <2>3 DEF FollowAll, StartInv
  <2>5. SettingsInv'
    <3> SUFFICES ASSUME phase = "registered" PROVE SettingsInv'
      BY <2>1 DEF SettingsInv
    <3>1. told \subseteq told' /\ \A k \in Keys \ told' : table'[k] = table[k]
      BY <2>2
    <3> QED
      BY <2>1, <3>1 DEF FollowAll, SettingsInv
  <2>6. Due => Due'
    <3>1. told \subseteq told'
      BY <2>2
    <3> QED
      BY <2>1, <3>1 DEF Due, DueTimer, DueObserver
  <2>7. (Calm' => Calm) /\ boundaries' \in Nat /\ boundaries <= boundaries'
    BY <2>1 DEF Calm, DataOK
  <2>8. Due' \/ (~Due /\ boundaries' = boundaries)
    BY <2>1, <2>6
  <2>9. FollowInv'
    BY <1>1, <2>1, <2>7, <2>8, FollowWaits DEF FollowAll
  <2> QED
    BY <2>4, <2>5, <2>9 DEF FollowAll
<1> QED
  BY <1>2, <1>3, <1>4, <1>5 DEF Environment

LEMMA InitFollow == Init => FollowAll
<1> SUFFICES ASSUME Init PROVE FollowAll
  OBVIOUS
<1>1. /\ \A t \in Threads : thread[t].pc = "idle"
      /\ {"timer", "ipc", "event"} \cup Keys \subseteq Threads
  BY DEF Init, Idle, Threads, Keys
<1>2. table \in Settings /\ state = table /\ phase = "registered" /\ stale = {} /\ queue = "NONE"
      /\ told = {}
  BY DEF Init, Settings, ModeNames
<1>3. StartInv
  BY <1>1, <1>2 DEF StartInv, IpcPCs
<1>4. SettingsInv
  BY <1>1, <1>2 DEF SettingsInv
<1>5. color.usersParam = ColorOf(state)
  BY DEF Init, Places
<1>6. NobodyDecided /\ Settled
  BY <1>1, <1>2, <1>5 DEF NobodyDecided, Waiting, Settled, QueueRight, Follows, DecidedDark
<1> QED
  BY <1>3, <1>4, <1>6 DEF FollowAll, FollowInv

LEMMA NextFollow == Base /\ TimersInv /\ FollowAll /\ [Next]_vars => FollowAll'
<1> SUFFICES ASSUME Base, TimersInv, FollowAll, [Next]_vars PROVE FollowAll'
  OBVIOUS
<1>1. CASE UNCHANGED vars
  <2>1. StartInv'
    BY <1>1 DEF vars, settingVars, timerVars, switchVars, history, FollowAll, StartInv
  <2>2. SettingsInv'
    BY <1>1 DEF vars, settingVars, history, FollowAll, SettingsInv
  <2>3. UNCHANGED << state, queue, color, temp, boundaries, thread, told, fired, clean, stale, phase >>
    BY <1>1 DEF vars, settingVars, timerVars, switchVars, tempVars, bounds, history
  <2>4. Due => Due'
    BY <2>3 DEF Due, DueTimer, DueObserver
  <2>5. (Calm' => Calm) /\ boundaries' \in Nat /\ boundaries <= boundaries' /\ "ipc" \in Threads
    BY <2>3 DEF Calm, Base, DataOK, Threads
  <2>6. FollowInv'
    BY <2>3, <2>4, <2>5, FollowWaits DEF FollowAll
  <2> QED
    BY <2>1, <2>2, <2>6 DEF FollowAll
<1>2. CASE EventMoves
  BY <1>2, LoadBeginsFollow, EventFollow DEF EventMoves, EventActs
<1>3. ASSUME NEW t \in Threads, UpdateDarkModeSchedule(t) PROVE FollowAll'
  BY <1>3, UpdateElseFollow, UpdateIpcFollow
<1> QED
  BY <1>1, <1>2, <1>3, NextCases, EnvironmentFollow, LoadFollow, IpcFollow, TimerFollow, ObserverFollow

\* Whenever nothing is under way, the colour that is set, or queued for the screen
\* to go off, is the one that the mode and times in memory stand for, but for a
\* manual choice, decisions that overlapped and settings that loading overwrote.
THEOREM ColorFollowsStateHolds == Spec => []ColorFollowsState
<1>1. FollowInv => ColorFollowsState
  <2> SUFFICES ASSUME FollowInv, Quiet, clean, stale = {}, HasColor(state),
                      ~(state.mode = "CUSTOM_AUTO" /\ TempEffective(temp))
               PROVE  DecidedDark = ColorOf(state)
    BY DEF ColorFollowsState
  <2>1. \A t \in Threads : thread[t].pc = "idle"
    BY DEF Quiet, At
  <2>2. Calm
    BY DEF Calm, Quiet
  <2>3. Settled
    BY <2>1, <2>2 DEF FollowInv, Goes, Waiting
  <2>4. ~Kept
    BY DEF Kept
  <2>5. ~Due
    <3>1. ~DueObserver
      BY <2>1 DEF DueObserver, Quiet, Threads, Keys
    <3>2. ~DueTimer
      BY <2>1 DEF DueTimer, Quiet, HasColor, Threads
    <3> QED
      BY <3>1, <3>2 DEF Due
  <2> QED
    BY <2>3, <2>4, <2>5 DEF Settled, Follows
<1>2. FollowAll => FollowInv
  BY DEF FollowAll
<1> QED
  BY <1>1, <1>2, InitBase, InitTimers, InitFollow, NextBase, NextTimers, NextFollow, PTL DEF Spec

-----------------------------------------------------------------------------
(* The mutexes: handlers whose sections are nested and descend in level     *)
(* never wait in a circle, for any threads, mutexes, handlers and levels.   *)

\* An owner is inside a section of what it owns, and its position is one of the
\* handler it was called with, or behind its end.
LockInv ==
    /\ LockTypeOK
    /\ \A t \in Runners : handler[t] \in Serves[t] \cup {NoHandler}
    /\ \A t \in Runners : position[t] <= Len(handler[t]) + 1
    /\ \A t \in Runners, m \in Mutexes : owner[m] = t => m \in Holds(t)

\* Every nonempty set of levels has a lowest one.
LEMMA LowestLevel ==
    ASSUME NEW S \in SUBSET Nat, S # {}
    PROVE  \E x \in S : \A y \in S : x <= y
<1>1. PICK x \in S : \A y \in S : << y, x >> \notin OpToRel(<, Nat)
  BY WFMin, NatLessThanWellFounded
<1>2. ASSUME NEW y \in S PROVE x <= y
  <2>1. ~(y < x)
    BY <1>1 DEF OpToRel
  <2> QED
    BY <2>1
<1> QED
  BY <1>2

\* Before its first step a handler holds nothing.
LEMMA HeldAtStart == ASSUME NEW h PROVE HeldAt(h, 1) = {}
BY DEF HeldAt

\* A step of a handler takes, leaves or keeps the one mutex it names.
LEMMA HeldAtNext ==
    ASSUME NEW h \in Seq(Step), NEW i \in 1 .. Len(h)
    PROVE  /\ h[i].op = "lock" => HeldAt(h, i + 1) = HeldAt(h, i) \cup {h[i].mutex}
           /\ h[i].op = "use" => HeldAt(h, i + 1) = HeldAt(h, i)
           /\ h[i].op = "unlock" => HeldAt(h, i + 1) = HeldAt(h, i) \ {h[i].mutex}
<1>1. h[i] \in Step
  OBVIOUS
<1>2. ASSUME NEW m \in Mutexes
      PROVE  m \in HeldAt(h, i + 1) <=>
                \/ h[i] = Lock(m)
                \/ m \in HeldAt(h, i) /\ h[i] # Unlock(m)
  <2>1. Lock(m) # Unlock(m)
    BY DEF Lock, Unlock
  <2>2. CASE h[i] = Lock(m)
    <3>1. i \in 1 .. ((i + 1) - 1) /\ \A k \in (i + 1) .. ((i + 1) - 1) : h[k] # Unlock(m)
      OBVIOUS
    <3> QED
      BY <2>2, <3>1 DEF HeldAt
  <2>3. CASE h[i] # Lock(m)
    <3>1. ASSUME m \in HeldAt(h, i + 1) PROVE m \in HeldAt(h, i) /\ h[i] # Unlock(m)
      <4>1. PICK j \in 1 .. i : h[j] = Lock(m) /\ \A k \in (j + 1) .. i : h[k] # Unlock(m)
        BY <3>1 DEF HeldAt
      <4>2. j # i
        BY <4>1, <2>3
      <4>3. j \in 1 .. (i - 1) /\ i \in (j + 1) .. i
        BY <4>2
      <4> QED
        BY <4>1, <4>3 DEF HeldAt
    <3>2. ASSUME m \in HeldAt(h, i), h[i] # Unlock(m) PROVE m \in HeldAt(h, i + 1)
      <4>1. PICK j \in 1 .. (i - 1) :
                h[j] = Lock(m) /\ \A k \in (j + 1) .. (i - 1) : h[k] # Unlock(m)
        BY <3>2 DEF HeldAt
      <4>2. \A k \in (j + 1) .. i : h[k] # Unlock(m)
        <5>1. \A k \in (j + 1) .. i : k \in (j + 1) .. (i - 1) \/ k = i
          OBVIOUS
        <5> QED
          BY <4>1, <5>1, <3>2
      <4> QED
        BY <4>1, <4>2 DEF HeldAt
    <3> QED
      BY <2>3, <3>1, <3>2
  <2> QED
    BY <2>2, <2>3
<1>3. HeldAt(h, i) \subseteq Mutexes /\ HeldAt(h, i + 1) \subseteq Mutexes
  BY DEF HeldAt
<1>4. h[i].mutex \in Mutexes
  BY <1>1 DEF Step
<1>5. ASSUME h[i].op = "lock" PROVE h[i] = Lock(h[i].mutex)
  BY <1>1, <1>5 DEF Step, Lock
<1>6. ASSUME h[i].op = "unlock" PROVE h[i] = Unlock(h[i].mutex)
  BY <1>1, <1>6 DEF Step, Unlock
<1>7. \A m \in Mutexes : /\ Lock(m).op = "lock" /\ Lock(m).mutex = m
                         /\ Unlock(m).op = "unlock" /\ Unlock(m).mutex = m
  BY DEF Lock, Unlock
<1>8. CASE h[i].op = "lock"
  BY <1>2, <1>3, <1>4, <1>5, <1>7, <1>8
<1>9. CASE h[i].op = "use"
  BY <1>2, <1>3, <1>7, <1>9
<1>10. CASE h[i].op = "unlock"
  BY <1>2, <1>3, <1>4, <1>6, <1>7, <1>10
<1> QED
  BY <1>8, <1>9, <1>10

-----------------------------------------------------------------------------

LEMMA InitLockInv == LockInit => LockInv
BY LockingAssumption DEF LockInit, LockInv, LockTypeOK, Busy, NoHandler, Handlers

\* A step inside a handler: the thread goes on by one, nobody else moves.
LEMMA AdvanceEffect ==
    ASSUME LockInv, NEW t \in Runners, Pending(t), Advance(t)
    PROVE  /\ position' = [position EXCEPT ![t] = position[t] + 1]
           /\ position[t] \in 1 .. Len(handler[t])
           /\ handler[t] \in Seq(Step)
           /\ NextStep(t) \in Step
           /\ position' \in [Runners -> Nat \ {0}]
           /\ \A u \in Runners : position'[u] <= Len(handler[u]) + 1
           /\ \A u \in Runners \ {t} : Holds(u)' = Holds(u)
           /\ Holds(t)' = HeldAt(handler[t], position[t] + 1)
<1>1. handler[t] \in Seq(Step)
  <2>1. << >> \in Seq(Step)
    OBVIOUS
  <2> QED
    BY <2>1, LockingAssumption DEF LockInv, NoHandler
<1>2. position' = [position EXCEPT ![t] = position[t] + 1] /\ handler' = handler
  BY DEF Advance
<1>3. position \in [Runners -> Nat \ {0}]
  BY DEF LockInv, LockTypeOK
<1>4. position[t] \in 1 .. Len(handler[t])
  BY <1>1, <1>3 DEF Pending
<1>5. NextStep(t) \in Step
  BY <1>1, <1>4 DEF NextStep
<1>6. \A u \in Runners : position'[u] <= Len(handler[u]) + 1
  BY <1>2, <1>3, <1>4, <1>1 DEF LockInv
<1>7. \A u \in Runners \ {t} : Holds(u)' = Holds(u)
  BY <1>2, <1>3 DEF Holds
<1>8. Holds(t)' = HeldAt(handler[t], position[t] + 1)
  BY <1>2, <1>3 DEF Holds
<1> QED
  BY <1>1, <1>2, <1>3, <1>4, <1>5, <1>6, <1>7, <1>8

\* Whatever a thread does, every owner stays inside a section of what it owns.
LEMMA NextLockInv == LockDiscipline /\ LockInv /\ [LockNext]_lockVars => LockInv'
<1> SUFFICES ASSUME LockDiscipline, LockInv, [LockNext]_lockVars PROVE LockInv'
  OBVIOUS
<1>1. ASSUME NEW t \in Runners, NEW h \in Serves[t], Call(t, h) PROVE LockInv'
  <2>1. h \in Seq(Step) /\ h \in Handlers
    BY LockingAssumption DEF Handlers
  <2>2. LockTypeOK'
    BY <1>1, <2>1, LockingAssumption DEF LockInv, Call, LockTypeOK
  <2>3. \A u \in Runners : handler'[u] \in Serves[u] \cup {NoHandler}
    BY <1>1 DEF LockInv, Call, LockTypeOK
  <2>4. \A u \in Runners : position'[u] <= Len(handler'[u]) + 1
    <3>1. Len(h) \in Nat
      BY <2>1
    <3> QED
      BY <1>1, <3>1 DEF LockInv, Call, LockTypeOK
  <2>5. ASSUME NEW u \in Runners, NEW m \in Mutexes, owner'[m] = u PROVE m \in Holds(u)'
    <3>1. owner[m] = u /\ m \in Holds(u)
      BY <1>1, <2>5 DEF Call, LockInv
    <3>2. u # t
      <4> SUFFICES ASSUME u = t PROVE FALSE
        OBVIOUS
      <4>1. handler[t] = << >>
        BY <1>1 DEF Call, Busy, NoHandler
      <4>2. position[t] = 1
        BY <4>1 DEF LockInv, LockTypeOK
      <4> QED
        BY <3>1, <4>1, <4>2, HeldAtStart DEF Holds
    <3>3. handler'[u] = handler[u] /\ position'[u] = position[u]
      BY <1>1, <3>2 DEF Call, LockInv, LockTypeOK
    <3> QED
      BY <3>1, <3>3 DEF Holds
  <2> QED
    BY <2>2, <2>3, <2>4, <2>5 DEF LockInv
<1>2. ASSUME NEW t \in Runners, LockStep(t) PROVE LockInv'
  <2>1. Pending(t) /\ Advance(t)
    BY <1>2 DEF LockStep
  <2>2. NextStep(t).mutex \in Mutexes
    BY <2>1, AdvanceEffect DEF Step
  <2>3. Holds(t)' = Holds(t) \cup {NextStep(t).mutex}
    BY <1>2, <2>1, AdvanceEffect, HeldAtNext, ZenonT(30) DEF LockStep, Holds, NextStep
  <2>4. LockTypeOK'
    BY <1>2, <2>1, <2>2, AdvanceEffect DEF LockInv, LockStep, Advance, LockTypeOK
  <2>5. \A u \in Runners, m \in Mutexes : owner'[m] = u => m \in Holds(u)'
    BY <1>2, <2>1, <2>2, <2>3, AdvanceEffect, LockingAssumption DEF LockStep, LockInv, LockTypeOK
  <2> QED
    BY <2>1, <2>4, <2>5, AdvanceEffect DEF LockInv, Advance
<1>3. ASSUME NEW t \in Runners, UseStep(t) PROVE LockInv'
  <2>1. Pending(t) /\ Advance(t) /\ owner' = owner
    BY <1>3 DEF UseStep
  <2>2. Holds(t)' = Holds(t)
    BY <1>3, <2>1, AdvanceEffect, HeldAtNext DEF UseStep, Holds, NextStep
  <2>3. LockTypeOK'
    BY <2>1, AdvanceEffect DEF LockInv, Advance, LockTypeOK
  <2>4. \A u \in Runners, m \in Mutexes : owner'[m] = u => m \in Holds(u)'
    BY <2>1, <2>2, AdvanceEffect DEF LockInv
  <2> QED
    BY <2>1, <2>3, <2>4, AdvanceEffect DEF LockInv, Advance
<1>4. ASSUME NEW t \in Runners, UnlockStep(t) PROVE LockInv'
  <2>1. Pending(t) /\ Advance(t)
    BY <1>4 DEF UnlockStep
  <2>2. NextStep(t).mutex \in Mutexes
    BY <2>1, AdvanceEffect DEF Step
  <2>3. Holds(t)' = Holds(t) \ {NextStep(t).mutex}
    BY <1>4, <2>1, AdvanceEffect, HeldAtNext, ZenonT(30) DEF UnlockStep, Holds, NextStep
  <2>4. LockTypeOK'
    BY <1>4, <2>1, <2>2, AdvanceEffect DEF LockInv, UnlockStep, Advance, LockTypeOK
  <2>5. ASSUME NEW u \in Runners, NEW m \in Mutexes, owner'[m] = u PROVE m \in Holds(u)'
    <3>1. m # NextStep(t).mutex /\ owner[m] = u
      BY <1>4, <2>2, <2>5, LockingAssumption DEF UnlockStep, LockInv, LockTypeOK
    <3>2. m \in Holds(u)
      BY <3>1 DEF LockInv
    <3> QED
      BY <2>1, <2>3, <3>1, <3>2, AdvanceEffect
  <2> QED
    BY <2>1, <2>4, <2>5, AdvanceEffect DEF LockInv, Advance
<1>5. ASSUME NEW t \in Runners, Return(t) PROVE LockInv'
  <2>1. handler[t] \in Serves[t] /\ handler[t] \in Seq(Step)
    BY <1>5, LockingAssumption DEF LockInv, Return, Busy
  <2>2. position[t] = Len(handler[t]) + 1
    BY <1>5, <2>1 DEF LockInv, Return, Pending, LockTypeOK
  <2>3. Holds(t) = {}
    BY <2>1, <2>2 DEF LockDiscipline, WellNested, Holds
  <2>4. LockTypeOK'
    BY <1>5 DEF LockInv, Return, LockTypeOK
  <2>5. \A u \in Runners : handler'[u] \in Serves[u] \cup {NoHandler}
    BY <1>5 DEF LockInv, Return, LockTypeOK
  <2>6. \A u \in Runners : position'[u] <= Len(handler'[u]) + 1
    BY <1>5 DEF LockInv, Return, LockTypeOK, NoHandler
  <2>7. ASSUME NEW u \in Runners, NEW m \in Mutexes, owner'[m] = u PROVE m \in Holds(u)'
    <3>1. owner[m] = u /\ m \in Holds(u)
      BY <1>5, <2>7 DEF Return, LockInv
    <3>2. u # t
      BY <3>1, <2>3
    <3>3. handler'[u] = handler[u] /\ position'[u] = position[u]
      BY <1>5, <3>2 DEF Return, LockInv, LockTypeOK
    <3> QED
      BY <3>1, <3>3 DEF Holds
  <2> QED
    BY <2>4, <2>5, <2>6, <2>7 DEF LockInv
<1>6. CASE UNCHANGED lockVars
  BY <1>6 DEF LockInv, lockVars, LockTypeOK, Holds
<1> QED
  BY <1>1, <1>2, <1>3, <1>4, <1>5, <1>6 DEF LockNext

\* The thread that waits for the lowest mutex waits for a thread that goes on.
LEMMA NoCircle == LockDiscipline /\ LockInv => NoDeadlock
<1> SUFFICES ASSUME LockDiscipline, LockInv,
                    \E t \in Runners : Busy(t),
                    \A t \in Runners : Busy(t) => Blocked(t)
             PROVE  FALSE
  BY DEF NoDeadlock
<1> DEFINE Wanted(t) == Level[NextStep(t).mutex]
           Wait == { Wanted(t) : t \in { u \in Runners : Busy(u) } }
<1>1. ASSUME NEW t \in Runners, Busy(t)
      PROVE  /\ handler[t] \in Serves[t] /\ handler[t] \in Seq(Step)
             /\ position[t] \in DOMAIN handler[t]
             /\ NextStep(t).mutex \in Mutexes /\ Wanted(t) \in Nat
  <2>1. handler[t] \in Serves[t] /\ handler[t] \in Seq(Step)
    BY <1>1, LockingAssumption DEF LockInv, Busy
  <2>2. position[t] \in 1 .. Len(handler[t])
    BY <1>1, <2>1 DEF Blocked, Pending, LockInv, LockTypeOK
  <2>3. NextStep(t) \in Step
    BY <2>1, <2>2 DEF NextStep
  <2> QED
    BY <2>1, <2>2, <2>3, LockingAssumption DEF Step
<1>2. PICK t \in Runners : Busy(t) /\ \A u \in Runners : Busy(u) => Wanted(t) <= Wanted(u)
  <2>1. Wait \in SUBSET Nat /\ Wait # {}
    BY <1>1
  <2>2. PICK x \in Wait : \A y \in Wait : x <= y
    BY <2>1, LowestLevel
  <2> QED
    BY <2>2
<1> DEFINE m == NextStep(t).mutex
           u == owner[m]
<1>3. m \in Mutexes /\ u \in Runners /\ m \in Holds(u)
  BY <1>1, <1>2 DEF Blocked, LockInv, LockTypeOK
<1>4. Busy(u)
  <2> SUFFICES ASSUME handler[u] = << >> PROVE FALSE
    BY DEF Busy, NoHandler
  <2>1. position[u] = 1
    <3>1. position[u] \in Nat \ {0} /\ position[u] <= Len(handler[u]) + 1
      BY <1>3 DEF LockInv, LockTypeOK
    <3>2. Len(handler[u]) = 0
      OBVIOUS
    <3> QED
      BY <3>1, <3>2
  <2> QED
    BY <1>3, <2>1, HeldAtStart DEF Holds
<1>5. Wanted(u) < Wanted(t)
  <2>1. Descends(handler[u])
    BY <1>1, <1>3, <1>4 DEF LockDiscipline
  <2>2. position[u] \in DOMAIN handler[u] /\ NextStep(u).op # "unlock"
    BY <1>1, <1>3, <1>4 DEF Blocked
  <2> QED
    BY <1>3, <2>1, <2>2 DEF Descends, Holds, NextStep
<1> QED
  BY <1>1, <1>2, <1>3, <1>4, <1>5

-----------------------------------------------------------------------------

\* Handlers that keep the discipline keep every owner inside its sections.
THEOREM SpecLockInv == ASSUME LockDiscipline PROVE LockSpec => []LockInv
<1>1. LockInit => LockInv
  BY InitLockInv
<1>2. LockInv /\ [LockNext]_lockVars => LockInv'
  BY NextLockInv
<1> QED
  BY <1>1, <1>2, PTL DEF LockSpec

\* The mutexes, handlers, positions and counts of calls keep their types.
THEOREM LockTypeOKHolds == ASSUME LockDiscipline PROVE LockSpec => []LockTypeOK
<1>1. LockInv => LockTypeOK
  BY DEF LockInv
<1> QED
  BY <1>1, SpecLockInv, PTL

\* A mutex is locked only by threads outside sections of a lower level: the
\* order in which std::lock_guards are nested, as the threads really keep it.
THEOREM KeepsDisciplineHolds == ASSUME LockDiscipline PROVE LockSpec => []KeepsDiscipline
<1>1. LockInv => KeepsDiscipline
  <2> SUFFICES ASSUME LockInv, NEW t \in Runners
               PROVE  IF Pending(t)
                      THEN NextStep(t).op # "unlock" =>
                              \A m \in Holds(t) : Level[NextStep(t).mutex] < Level[m]
                      ELSE Holds(t) = {}
    BY DEF KeepsDiscipline
  <2>1. CASE ~Busy(t)
    <3>1. handler[t] = << >> /\ Len(handler[t]) = 0
      BY <2>1 DEF Busy, NoHandler
    <3>2. position[t] = 1
      BY <3>1 DEF LockInv, LockTypeOK
    <3> QED
      BY <3>1, <3>2, HeldAtStart DEF Pending, Holds
  <2>2. CASE Busy(t)
    <3>1. handler[t] \in Serves[t] /\ handler[t] \in Seq(Step)
      BY <2>2, LockingAssumption DEF LockInv, Busy
    <3>2. WellNested(handler[t]) /\ Descends(handler[t])
      BY <3>1 DEF LockDiscipline
    <3>3. CASE Pending(t)
      <4>1. position[t] \in DOMAIN handler[t]
        BY <3>1, <3>3 DEF Pending, LockInv, LockTypeOK
      <4> QED
        BY <3>2, <3>3, <4>1 DEF Descends, Holds, NextStep
    <3>4. CASE ~Pending(t)
      <4>1. position[t] = Len(handler[t]) + 1
        BY <3>1, <3>4 DEF Pending, LockInv, LockTypeOK
      <4> QED
        BY <3>2, <3>4, <4>1 DEF WellNested, Holds
    <3> QED
      BY <3>3, <3>4
  <2> QED
    BY <2>1, <2>2
<1> QED
  BY <1>1, SpecLockInv, PTL

\* Observers, timers, events and calls never wait for each other in a circle,
\* however many run at once, as long as darkModeStatesMutex_ and its like are
\* taken before the mutexes of a lower level.
THEOREM NoDeadlockHolds == ASSUME LockDiscipline PROVE LockSpec => []NoDeadlock
<1>1. LockInv => NoDeadlock
  BY NoCircle
<1> QED
  BY <1>1, SpecLockInv, PTL
=============================================================================
