----------------------- MODULE DarkModeScheduleProofs -----------------------
(***************************************************************************)
(* Theorems of DarkModeSchedule that need no reasoning about how far time  *)
(* has gone: type correctness, that an all-day setting wins, and that a    *)
(* manual choice holds while its window lasts.                             *)
(***************************************************************************)
EXTENDS DarkModeSchedule, ScheduleTimeProofs

Info == [type : {"Normal", "Temp"}, keepStart : Nat, keepEnd : Int]
States == [mode : ModeValues, start : Starts \cup {-1}, end : Ends \cup {-1}]
Switches == {"NONE", "SWITCH_TO_LIGHT", "SWITCH_TO_DARK"}

\* Timers are only set for a schedule whose times are set.
TimersInv == trigger # NoTimers => timerParams \in Nat \X Nat

TypeInv == TypeOK /\ TimersInv

LEMMA ConstantTypes ==
    /\ \A t \in Clock : t \in Nat /\ t >= DAY_TO_SECOND
    /\ \A t \in Starts \cup Ends \cup {-1} : t \in Int
    /\ Modes \subseteq ModeValues /\ Jumps \subseteq Clock
<1>1. DAY_TO_SECOND \in Nat /\ DAY_TO_SECOND > 0
  BY DayType
<1> QED
  BY <1>1, DarkModeScheduleAssumption

\* An unset time is never part of a valid schedule: -1 is the largest uint64.
LEMMA UnsetTime == ToUint64(-1) = UINT64_MODULUS - 1
<1>1. UINT64_MODULUS \in Nat \ {0} /\ -1 = (-1) * UINT64_MODULUS + (UINT64_MODULUS - 1)
  BY ScheduleTimeAssumption
<1>2. UINT64_MODULUS - 1 \in 0 .. UINT64_MODULUS - 1
  BY <1>1
<1> QED
  BY <1>1, <1>2, Remainder DEF ToUint64

LEMMA ValidTimesAreSet ==
    ASSUME NEW start \in Starts \cup {-1}, NEW end \in Ends \cup {-1}, IsValidScheduleTime(start, end)
    PROVE  start \in Nat /\ end \in Nat
<1>1. UINT64_MODULUS \in Nat /\ DAY_TO_MINUTE \in Nat /\ UINT64_MODULUS > 4 * DAY_TO_MINUTE
      /\ DAY_TO_MINUTE > 1
  BY ScheduleTimeAssumption
<1>2. ToUint64(start) < DAY_TO_MINUTE /\ ToUint64(end) < DAY_TO_MINUTE + ToUint64(start)
  BY DEF IsValidScheduleTime
<1>3. ToUint64(start) \in Int
  <2>1. start \in Int
    BY ConstantTypes
  <2> QED
    BY <2>1, <1>1, Division DEF ToUint64
<1>4. start # -1
  BY <1>1, <1>2, UnsetTime
<1>5. end # -1
  BY <1>1, <1>2, <1>3, UnsetTime
<1> QED
  BY <1>4, <1>5, DarkModeScheduleAssumption

\* The two moments the timers are set for.
LEMMA TriggersAreMoments ==
    ASSUME NEW start \in Nat, NEW end \in Nat, NEW t \in Clock,
           NEW pair, pair = SetTimerTriggerTime(start, end, t)
    PROVE  pair[1] \in Nat /\ pair[2] \in Nat
<1>1. t \in Nat /\ DAY_TO_SECOND \in Nat /\ DAY_TO_SECOND > 0
  BY ConstantTypes, DayType
<1>2. start * MINUTE_TO_SECOND \in Nat /\ end * MINUTE_TO_SECOND \in Nat
  <2>1. ASSUME NEW m \in Nat, NEW x \in Nat PROVE x * m \in Nat
    BY <2>1
  <2> QED
    BY <2>1, ScheduleTimeAssumption
<1>3. Midnight(t) \in Int /\ Midnight(t) > t - DAY_TO_SECOND
  BY <1>1, DayDecomposition
<1>4. Midnight(t) > 0
  BY <1>1, <1>3, ConstantTypes
<1> QED
  BY <1>1, <1>2, <1>3, <1>4 DEF SetTimerTriggerTime

LEMMA WindowType ==
    ASSUME NEW s \in States, NEW t \in Clock
    PROVE  LET window == GetTempColorModeTimeInfo(s.start, s.end, t)
           IN  [type |-> "Temp", keepStart |-> window.keepStart, keepEnd |-> window.keepEnd] \in Info
<1>1. t \in Nat /\ Midnight(t) \in Int
  BY ConstantTypes, DayDecomposition
<1>2. s.start \in Int /\ s.end \in Int /\ DAY_TO_MINUTE \in Int
  BY ConstantTypes, ScheduleTimeAssumption DEF States
<1> DEFINE window == GetTempColorModeTimeInfo(s.start, s.end, t)
<1>3. PICK offset \in Int : window = [keepStart |-> t, keepEnd |-> Midnight(t) + offset * MINUTE_TO_SECOND - 1]
  <2> DEFINE offset ==
          IF s.end > DAY_TO_MINUTE
          THEN IF ~IsWithinTimeInterval(s.start, s.end, t) THEN s.end
               ELSE IF IsWithInPreInterval(s.start, t) THEN s.start ELSE s.start + DAY_TO_MINUTE
          ELSE IF IsWithinTimeInterval(s.start, s.end, t) THEN s.start + DAY_TO_MINUTE
               ELSE IF IsWithInPreInterval(s.start, t) THEN s.end ELSE s.end + DAY_TO_MINUTE
  <2>1. offset \in Int
    BY <1>2
  <2>2. window = [keepStart |-> t, keepEnd |-> Midnight(t) + offset * MINUTE_TO_SECOND - 1]
    BY DEF GetTempColorModeTimeInfo
  <2> QED
    BY <2>1, <2>2
<1>4. offset * MINUTE_TO_SECOND \in Int
  BY MinuteOrder
<1> QED
  BY <1>1, <1>3, <1>4 DEF Info

LEMMA NormalType == NormalInfo \in Info /\ ~IsTemporary(NormalInfo)
BY DEF NormalInfo, Info, IsTemporary

-----------------------------------------------------------------------------
(* What a decision does.                                                   *)

LEMMA Decision ==
    ASSUME NEW toDark, NEW reset \in BOOLEAN, NEW boot \in BOOLEAN, NEW held,
           UpdateDarkModeSchedule(toDark, reset, boot, held)
    PROVE  /\ screenOffOperator' \in Switches
           /\ dark' \in {dark, toDark}
           /\ choice' = IF Effective(held[1]) THEN choice ELSE "OVER"
           /\ \/ temp' = held[1] /\ tempParam' = held[2]
              \/ temp' = NormalInfo /\ tempParam' = NormalInfo
           /\ reset \/ boot => screenOffOperator' = "NONE"
           /\ reset => dark' = toDark /\ ~IsTemporary(temp')
           /\ boot /\ dark' # toDark => Effective(held[1])
           /\ ~reset /\ Effective(held[1]) =>
                /\ temp' = held[1] /\ tempParam' = held[2]
                /\ dark' = dark /\ screenOffOperator' = "NONE"
<1>1. screenOffOperator' \in Switches
  BY DEF UpdateDarkModeSchedule, ResetScreenOffOperateInfo, SetScreenOffOperateInfo, Switches
<1>2. choice' = IF Effective(held[1]) THEN choice ELSE "OVER"
  BY DEF UpdateDarkModeSchedule, ChoiceAfterDecision
<1> DEFINE atOnce == SwitchesNow(reset, boot, held[1])
           keep == KeepsTemporary(reset, held[1])
<1>3. CASE atOnce
  <2>1. screenOffOperator' = "NONE" /\ OnChangeDarkMode(toDark, held)
    BY <1>3 DEF UpdateDarkModeSchedule, ResetScreenOffOperateInfo
  <2>2. dark' = toDark
    BY <2>1 DEF OnChangeDarkMode
  <2>3. CASE IsTemporary(held[1])
    <3>1. temp' = NormalInfo /\ tempParam' = NormalInfo
      BY <2>1, <2>3 DEF OnChangeDarkMode, SetColorModeNormal, SaveTempColorModeInfo
    <3>2. reset \/ ~Effective(held[1])
      BY <1>3 DEF SwitchesNow
    <3> QED
      BY <1>1, <1>2, <2>1, <2>2, <3>1, <3>2, NormalType
  <2>4. CASE ~IsTemporary(held[1])
    <3>1. temp' = held[1] /\ tempParam' = held[2]
      BY <2>1, <2>4 DEF OnChangeDarkMode
    <3>2. ~Effective(held[1])
      BY <2>4 DEF Effective
    <3> QED
      BY <1>1, <1>2, <2>1, <2>2, <2>4, <3>1, <3>2
  <2> QED
    BY <2>3, <2>4
<1>4. CASE ~atOnce
  <2>1. temp' = held[1] /\ tempParam' = held[2] /\ dark' = dark /\ ~reset
    BY <1>4 DEF UpdateDarkModeSchedule, SwitchesNow
  <2>2. Effective(held[1]) => screenOffOperator' = "NONE"
    BY <2>1 DEF UpdateDarkModeSchedule, KeepsTemporary, ResetScreenOffOperateInfo
  <2>3. boot => Effective(held[1])
    BY <1>4 DEF SwitchesNow
  <2> QED
    BY <1>1, <1>2, <2>1, <2>2, <2>3
<1> QED
  BY <1>3, <1>4

LEMMA WithinIsBoolean ==
    ASSUME NEW start, NEW end, NEW t
    PROVE  /\ IsWithinTimeInterval(start, end, t) \in BOOLEAN
           /\ CheckCurrentTimeInDarkInterval(start, end, t) \in BOOLEAN
BY DEF IsWithinTimeInterval, CheckCurrentTimeInDarkInterval

\* The four branches of OnStateChangeLocked: an all-day mode, a valid and an
\* invalid schedule, and a mode that is unknown.
LEMMA StateChangeCases ==
    ASSUME NEW s \in States, NEW reset, NEW boot, NEW held, NEW pending,
           OnStateChangeLocked(s, reset, boot, held, pending)
    PROVE  \/ /\ s.mode \in {"ALWAYS_LIGHT", "ALWAYS_DARK"} /\ ClearTimerByUserId
              /\ UpdateDarkModeSchedule(s.mode = "ALWAYS_DARK", reset, boot, held)
           \/ /\ s.mode = "CUSTOM_AUTO" /\ IsValidScheduleTime(s.start, s.end) /\ SetScheduleTime(s)
              /\ UpdateDarkModeSchedule(IsWithinTimeInterval(s.start, s.end, now), reset, boot, held)
           \/ /\ s.mode = "CUSTOM_AUTO" /\ ClearTimerByUserId
              /\ temp' = held[1] /\ tempParam' = held[2] /\ screenOffOperator' = pending
              /\ UNCHANGED << dark, choice >>
           \/ /\ s.mode = "INVALID" /\ UNCHANGED << trigger, timerParams >>
              /\ temp' = held[1] /\ tempParam' = held[2] /\ screenOffOperator' = pending
              /\ UNCHANGED << dark, choice >>
<1>1. s.mode \in ModeValues
  BY DEF States
<1>2. CASE s.mode \in {"ALWAYS_LIGHT", "ALWAYS_DARK"}
  BY <1>2 DEF OnStateChangeLocked
<1>3. CASE s.mode = "CUSTOM_AUTO" /\ IsValidScheduleTime(s.start, s.end)
  BY <1>3 DEF OnStateChangeLocked
<1>4. CASE s.mode = "CUSTOM_AUTO" /\ ~IsValidScheduleTime(s.start, s.end)
  BY <1>4 DEF OnStateChangeLocked
<1>5. CASE s.mode = "INVALID"
  BY <1>5 DEF OnStateChangeLocked
<1> QED
  BY <1>1, <1>2, <1>3, <1>4, <1>5 DEF ModeValues

-----------------------------------------------------------------------------
(* Type correctness                                                        *)

\* What the decisions write.
Decided ==
    /\ trigger \in [{START_INDEX, END_INDEX} -> Nat]
    /\ timerParams \in (Starts \cup {-1}) \X (Ends \cup {-1})
    /\ TimersInv
    /\ screenOffOperator \in Switches
    /\ temp \in Info /\ tempParam \in Info
    /\ dark \in BOOLEAN
    /\ choice \in {"LIGHT", "DARK", "OVER"}

LEMMA TypeParts ==
    TypeInv <=> /\ now \in Clock
                /\ store \in [mode : ModeValues, start : Starts, end : Ends]
                /\ dirty \subseteq Keys
                /\ phase \in {"down", "registered", "loaded"}
                /\ state \in States
                /\ timeChanged \in BOOLEAN /\ screenOff \in BOOLEAN
                /\ Decided
BY DEF TypeInv, TypeOK, Decided, States, Switches, Info

LEMMA ScheduleSet ==
    ASSUME TypeInv, NEW s \in States, IsValidScheduleTime(s.start, s.end), SetScheduleTime(s)
    PROVE  /\ trigger' \in [{START_INDEX, END_INDEX} -> Nat]
           /\ timerParams' \in (Starts \cup {-1}) \X (Ends \cup {-1})
           /\ TimersInv'
<1>1. s.start \in Nat /\ s.end \in Nat /\ s.start \in Starts \cup {-1} /\ s.end \in Ends \cup {-1}
  BY ValidTimesAreSet DEF States
<1> DEFINE t == SetTimerTriggerTime(s.start, s.end, now)
<1>2. t[1] \in Nat /\ t[2] \in Nat
  BY <1>1, TriggersAreMoments DEF TypeInv, TypeOK
<1>3. trigger' = [i \in {START_INDEX, END_INDEX} |-> t[i]] /\ timerParams' = << s.start, s.end >>
  BY DEF SetScheduleTime
<1> HIDE DEF t
<1> QED
  BY <1>1, <1>2, <1>3 DEF TimersInv, START_INDEX, END_INDEX

LEMMA TimersCleared ==
    ASSUME TypeInv, ClearTimerByUserId
    PROVE  /\ trigger' \in [{START_INDEX, END_INDEX} -> Nat]
           /\ timerParams' \in (Starts \cup {-1}) \X (Ends \cup {-1})
           /\ TimersInv'
BY DEF TypeInv, TypeOK, TimersInv, ClearTimerByUserId, NoTimers, NoTrigger

LEMMA DecisionType ==
    ASSUME TypeInv, NEW toDark \in BOOLEAN, NEW reset \in BOOLEAN, NEW boot \in BOOLEAN,
           NEW held, held[1] \in Info, held[2] \in Info,
           UpdateDarkModeSchedule(toDark, reset, boot, held)
    PROVE  /\ screenOffOperator' \in Switches /\ temp' \in Info /\ tempParam' \in Info
           /\ dark' \in BOOLEAN /\ choice' \in {"LIGHT", "DARK", "OVER"}
<1>1. dark \in BOOLEAN /\ choice \in {"LIGHT", "DARK", "OVER"}
  BY TypeParts DEF Decided
<1>2. choice' = choice \/ choice' = "OVER"
  BY Decision
<1>3. screenOffOperator' \in Switches /\ dark' \in {dark, toDark}
      /\ \/ temp' = held[1] /\ tempParam' = held[2]
         \/ temp' = NormalInfo /\ tempParam' = NormalInfo
  BY Decision
<1> QED
  BY <1>1, <1>2, <1>3, NormalType

LEMMA StateChangeType ==
    ASSUME TypeInv, NEW s \in States, NEW reset \in BOOLEAN, NEW boot \in BOOLEAN,
           NEW held, held[1] \in Info, held[2] \in Info, NEW pending \in Switches,
           OnStateChangeLocked(s, reset, boot, held, pending)
    PROVE  Decided'
<1>1. CASE /\ s.mode \in {"ALWAYS_LIGHT", "ALWAYS_DARK"} /\ ClearTimerByUserId
           /\ UpdateDarkModeSchedule(s.mode = "ALWAYS_DARK", reset, boot, held)
  <2>1. (s.mode = "ALWAYS_DARK") \in BOOLEAN
    OBVIOUS
  <2> QED
    BY <1>1, <2>1, TimersCleared, DecisionType DEF Decided
<1>2. CASE /\ s.mode = "CUSTOM_AUTO" /\ IsValidScheduleTime(s.start, s.end) /\ SetScheduleTime(s)
           /\ UpdateDarkModeSchedule(IsWithinTimeInterval(s.start, s.end, now), reset, boot, held)
  BY <1>2, ScheduleSet, DecisionType, WithinIsBoolean DEF Decided
<1>3. CASE /\ s.mode = "CUSTOM_AUTO" /\ ClearTimerByUserId
           /\ temp' = held[1] /\ tempParam' = held[2] /\ screenOffOperator' = pending
           /\ UNCHANGED << dark, choice >>
  BY <1>3, TimersCleared, TypeParts DEF Decided
<1>4. CASE /\ s.mode = "INVALID" /\ UNCHANGED << trigger, timerParams >>
           /\ temp' = held[1] /\ tempParam' = held[2] /\ screenOffOperator' = pending
           /\ UNCHANGED << dark, choice >>
  BY <1>4, TypeParts DEF Decided, TimersInv
<1> QED
  BY <1>1, <1>2, <1>3, <1>4, StateChangeCases

LEMMA UpdatedState ==
    ASSUME TypeInv, NEW key \in Keys, NEW new, new = [state EXCEPT ![key] = store[key]]
    PROVE  /\ new \in States
           /\ new.mode = IF key = "mode" THEN store.mode ELSE state.mode
<1>1. state \in States /\ store \in [mode : ModeValues, start : Starts, end : Ends]
  BY TypeParts
<1>2. CASE key = "mode"
  BY <1>1, <1>2 DEF States
<1>3. CASE key = "start"
  BY <1>1, <1>3 DEF States
<1>4. CASE key = "end"
  BY <1>1, <1>4 DEF States
<1> QED
  BY <1>2, <1>3, <1>4 DEF Keys

LEMMA SettingType ==
    ASSUME TypeInv, NEW key \in Keys, SettingDataUpdateFunc(key)
    PROVE  TypeInv'
<1>1. state' \in States
  BY UpdatedState DEF SettingDataUpdateFunc
<1>2. OnStateChangeLocked(state', TRUE, FALSE, Held, screenOffOperator)
      /\ UNCHANGED << now, store, phase, timeChanged, screenOff >> /\ dirty' \subseteq Keys
  BY TypeParts DEF SettingDataUpdateFunc
<1>3. Held[1] \in Info /\ Held[2] \in Info /\ screenOffOperator \in Switches
  BY TypeParts DEF Held, Decided
<1>4. Decided'
  BY <1>1, <1>2, <1>3, StateChangeType
<1> QED
  BY <1>1, <1>2, <1>4, TypeParts DEF TypeInv, TypeOK, Decided, States, Switches, Info

LEMMA CallbackType ==
    ASSUME TypeInv, NEW i \in {START_INDEX, END_INDEX}, TimerCallback(i)
    PROVE  TypeInv'
<1> DEFINE day == DAY_TO_SECOND
           missed == IF now < trigger[i] THEN 0 ELSE (now - trigger[i]) \div day
<1>1. now \in Nat /\ trigger \in [{START_INDEX, END_INDEX} -> Nat] /\ day \in Nat /\ day > 0
  BY TypeParts, ConstantTypes, DayType DEF Decided
<1>2. missed \in Nat
  <2>1. ASSUME NEW d \in Nat, d > 0, NEW x \in Nat PROVE x \div d \in Nat
    BY <2>1
  <2>2. now >= trigger[i] => now - trigger[i] \in Nat
    BY <1>1
  <2> HIDE DEF day
  <2> QED
    BY <1>1, <2>1, <2>2
<1>3. (missed + 1) * day \in Nat
  <2>1. ASSUME NEW d \in Nat, NEW x \in Nat PROVE (x + 1) * d \in Nat
    BY <2>1
  <2> HIDE DEF missed, day
  <2> QED
    BY <1>1, <1>2, <2>1
<1>4. trigger' = [trigger EXCEPT ![i] = @ + (missed + 1) * day]
      /\ UNCHANGED << now, store, dirty, phase, state, timerParams, timeChanged, screenOff >>
      /\ trigger # NoTimers
  BY DEF TimerCallback, TimerDue, NoTimers
<1> HIDE DEF missed, day
<1>5. trigger' \in [{START_INDEX, END_INDEX} -> Nat] /\ TimersInv'
  BY <1>1, <1>3, <1>4 DEF TypeInv, TimersInv
<1>6. Held[1] \in Info /\ Held[2] \in Info
  BY TypeParts DEF Held, Decided
<1>7. /\ screenOffOperator' \in Switches /\ temp' \in Info /\ tempParam' \in Info
      /\ dark' \in BOOLEAN /\ choice' \in {"LIGHT", "DARK", "OVER"}
  <2>1. CASE CheckTimerCallbackParams
    BY <2>1, <1>6, DecisionType, WithinIsBoolean DEF TimerCallback
  <2>2. CASE ~CheckTimerCallbackParams
    BY <2>2, TypeParts DEF TimerCallback, Decided
  <2> QED
    BY <2>1, <2>2
<1> QED
  BY <1>4, <1>5, <1>7, TypeParts DEF TypeInv, TypeOK, Decided, States, Switches, Info

LEMMA RestartType ==
    ASSUME TypeInv, RestartTimer
    PROVE  TypeInv'
<1>1. Held[1] \in Info /\ Held[2] \in Info
  BY TypeParts DEF Held, Decided
<1>2. timeChanged' = FALSE /\ UNCHANGED << now, store, dirty, phase, state, timerParams, screenOff >>
  BY DEF RestartTimer
<1>3. /\ screenOffOperator' \in Switches /\ temp' \in Info /\ tempParam' \in Info
      /\ dark' \in BOOLEAN /\ choice' \in {"LIGHT", "DARK", "OVER"}
  <2>1. CASE state.mode = "CUSTOM_AUTO"
    BY <2>1, <1>1, DecisionType, WithinIsBoolean DEF RestartTimer
  <2>2. CASE state.mode # "CUSTOM_AUTO"
    BY <2>2, TypeParts DEF RestartTimer, Decided
  <2> QED
    BY <2>1, <2>2
<1>4. trigger' \in [{START_INDEX, END_INDEX} -> Nat] /\ TimersInv'
  <2>1. CASE trigger' = trigger
    BY <2>1, <1>2, TypeParts DEF TimersInv, Decided
  <2>2. CASE trigger' # trigger
    <3> DEFINE t == SetTimerTriggerTime(timerParams[1], timerParams[2], now)
    <3>1. trigger # NoTimers /\ trigger' = [i \in {START_INDEX, END_INDEX} |-> t[i]]
      BY <2>2 DEF RestartTimer, RestartAllTimer
    <3>2. timerParams \in Nat \X Nat
      BY <3>1 DEF TypeInv, TimersInv
    <3>3. t[1] \in Nat /\ t[2] \in Nat
      BY <3>2, TriggersAreMoments, TypeParts
    <3> HIDE DEF t
    <3> QED
      BY <1>2, <3>1, <3>2, <3>3 DEF TimersInv, START_INDEX, END_INDEX
  <2> QED
    BY <2>1, <2>2
<1> QED
  BY <1>2, <1>3, <1>4, TypeParts DEF TypeInv, TypeOK, Decided, States, Switches, Info

LEMMA ChoiceType ==
    ASSUME TypeInv, SetDarkMode
    PROVE  TypeInv'
<1>1. UNCHANGED << now, phase, state, trigger, timerParams, timeChanged, screenOff >>
  BY DEF SetDarkMode
<1>2. dark' \in BOOLEAN /\ choice' \in {"LIGHT", "DARK", "OVER"}
  BY DEF SetDarkMode
<1>3. store' \in [mode : ModeValues, start : Starts, end : Ends] /\ dirty' \subseteq Keys
  <2>1. store \in [mode : ModeValues, start : Starts, end : Ends] /\ dirty \subseteq Keys
    BY TypeParts
  <2>2. NotifyDarkModeUpdate(~dark)
    BY DEF SetDarkMode
  <2> DEFINE mode == IF ~dark THEN "ALWAYS_DARK" ELSE "ALWAYS_LIGHT"
  <2>3. mode \in ModeValues
    BY DEF ModeValues
  <2>4. \/ store' = [store EXCEPT !.mode = mode] /\ dirty' = dirty \cup {"mode"}
        \/ store' = store /\ dirty' = dirty
    BY <2>2 DEF NotifyDarkModeUpdate
  <2> HIDE DEF mode
  <2> QED
    BY <2>1, <2>3, <2>4 DEF Keys
<1>4. screenOffOperator' \in Switches /\ temp' \in Info /\ tempParam' \in Info
  <2>1. DoSwitchTemporaryColorMode(~dark)
    BY DEF SetDarkMode
  <2>2. CASE state.mode # "CUSTOM_AUTO"
    BY <2>1, <2>2, TypeParts DEF DoSwitchTemporaryColorMode, Decided
  <2>3. CASE state.mode = "CUSTOM_AUTO"
    <3>1. screenOffOperator' = "NONE" /\ (SetColorModeNormal \/ SetColorModeTemporary(state))
      BY <2>1, <2>3 DEF DoSwitchTemporaryColorMode, ResetScreenOffOperateInfo
    <3>2. CASE SetColorModeNormal
      BY <3>1, <3>2, NormalType DEF SetColorModeNormal, SaveTempColorModeInfo, Switches
    <3>3. CASE SetColorModeTemporary(state)
      BY <3>1, <3>3, WindowType, TypeParts DEF SetColorModeTemporary, SaveTempColorModeInfo, Switches
    <3> QED
      BY <3>1, <3>2, <3>3
  <2> QED
    BY <2>2, <2>3
<1> QED
  BY <1>1, <1>2, <1>3, <1>4, TypeParts DEF TypeInv, TypeOK, TimersInv, Decided, States, Switches, Info

LEMMA RestoredType == TypeInv => RestoredInfo \in Info
BY TypeParts, NormalType DEF RestoredInfo, Decided

LEMMA LoadType ==
    ASSUME TypeInv, LoadUserSettingData
    PROVE  TypeInv'
<1> DEFINE held == << RestoredInfo, RestoredInfo >>
<1>1. store \in States /\ held[1] \in Info /\ held[2] \in Info
  BY TypeParts, RestoredType DEF States
<1>2. OnStateChangeLocked(store, FALSE, TRUE, held, "NONE")
      /\ state' = store /\ phase' = "loaded"
      /\ UNCHANGED << now, store, dirty, timeChanged, screenOff >>
  BY DEF LoadUserSettingData
<1>3. "NONE" \in Switches
  BY DEF Switches
<1> HIDE DEF held
<1>4. Decided'
  BY <1>1, <1>2, <1>3, StateChangeType
<1> QED
  BY <1>1, <1>2, <1>4, TypeParts DEF TypeInv, TypeOK, Decided, States, Switches, Info

LEMMA NextType == TypeInv /\ [Next]_vars => TypeInv'
<1> SUFFICES ASSUME TypeInv, [Next]_vars PROVE TypeInv'
  OBVIOUS
<1> USE DEF TypeInv, TypeOK, TimersInv
<1>1. CASE Tick
  BY <1>1 DEF Tick
<1>2. CASE SetClock
  BY <1>2, ConstantTypes DEF SetClock
<1>3. ASSUME NEW key \in Keys, NEW value, WriteSetting(key, value),
             (key = "mode" /\ value \in Modes) \/ (key = "start" /\ value \in Starts)
                \/ (key = "end" /\ value \in Ends)
      PROVE  TypeInv'
  <2>1. store' \in [mode : ModeValues, start : Starts, end : Ends]
    <3>1. store \in [mode : ModeValues, start : Starts, end : Ends]
          /\ store' = [store EXCEPT ![key] = value]
      BY <1>3 DEF WriteSetting
    <3>2. CASE key = "mode" /\ value \in Modes
      BY <3>1, <3>2, ConstantTypes
    <3>3. CASE key = "start" /\ value \in Starts
      BY <3>1, <3>3
    <3>4. CASE key = "end" /\ value \in Ends
      BY <3>1, <3>4
    <3> QED
      BY <1>3, <3>2, <3>3, <3>4
  <2> QED
    BY <1>3, <2>1 DEF WriteSetting
<1>4. CASE \E key \in Keys : SettingDataUpdateFunc(key)
  BY <1>4, SettingType
<1>5. CASE \E i \in {START_INDEX, END_INDEX} : TimerCallback(i)
  BY <1>5, CallbackType
<1>6. CASE RestartTimer
  BY <1>6, RestartType
<1>7. CASE ScreenOnCallback
  BY <1>7 DEF ScreenOnCallback
<1>8. CASE ScreenOffCallback
  <2>1. /\ screenOff' = TRUE
        /\ UNCHANGED << now, store, dirty, phase, state, trigger, timerParams, timeChanged, choice >>
    BY <1>8 DEF ScreenOffCallback
  <2>2. dark' \in BOOLEAN /\ screenOffOperator' \in Switches
    BY <1>8 DEF ScreenOffCallback, OnChangeDarkMode, ResetScreenOffOperateInfo, Switches
  <2>3. {temp', tempParam'} \subseteq Info
    BY <1>8, NormalType DEF ScreenOffCallback, OnChangeDarkMode, Held, SetColorModeNormal,
                            SaveTempColorModeInfo, Info
  <2> QED
    BY <2>1, <2>2, <2>3 DEF Switches, Info
<1>9. CASE SetDarkMode
  BY <1>9, ChoiceType
<1>10. CASE OnSwitchContext
  BY <1>10 DEF OnSwitchContext
<1>11. CASE LoadUserSettingData
  BY <1>11, LoadType
<1>12. CASE Crash
  BY <1>12, NormalType DEF Crash, UnsetState, NoTimers, NoTrigger, ModeValues, Info,
                           ResetScreenOffOperateInfo
<1>13. CASE UNCHANGED vars
  BY <1>13 DEF vars
<1> QED
  BY <1>1, <1>2, <1>3, <1>4, <1>5, <1>6, <1>7, <1>8, <1>9, <1>10, <1>11, <1>12, <1>13
     DEF Next, Keys

LEMMA InitType == Init => TypeInv
<1> SUFFICES ASSUME Init PROVE TypeInv
  OBVIOUS
<1>1. store \in [mode : ModeValues, start : Starts, end : Ends]
  BY ConstantTypes DEF Init
<1>2. state \in States
  BY DEF Init, UnsetState, States, ModeValues
<1>3. Decided
  <2>1. trigger \in [{START_INDEX, END_INDEX} -> Nat] /\ TimersInv
    BY DEF Init, TimersInv, NoTimers, NoTrigger
  <2>2. timerParams \in (Starts \cup {-1}) \X (Ends \cup {-1})
    BY DEF Init
  <2> QED
    BY <2>1, <2>2, NormalType DEF Init, Decided, Switches
<1> QED
  BY <1>1, <1>2, <1>3, TypeParts DEF Init

LEMMA SpecTypeInv == Spec => []TypeInv
BY InitType, NextType, PTL DEF Spec

\* Every variable has its type; in particular the timers are set for moments
\* after the epoch and never for an unset time (SetTimerTriggerTime).
THEOREM TypeOKHolds == Spec => []TypeOK
<1>1. TypeInv => TypeOK
  BY DEF TypeInv
<1> QED
  BY <1>1, SpecTypeInv, PTL

-----------------------------------------------------------------------------
(* An all-day setting wins                                                 *)

IsAllDay(mode) == mode \in {"ALWAYS_LIGHT", "ALWAYS_DARK"}

\* What an all-day mode in memory has done, and what it has done once the
\* notification of the mode is handled.
AllDayInv ==
    /\ IsAllDay(state.mode) => trigger = NoTimers /\ screenOffOperator = "NONE"
    /\ (phase # "down" /\ "mode" \notin dirty) =>
          /\ state.mode = store.mode
          /\ IsAllDay(state.mode) => dark = (state.mode = "ALWAYS_DARK")

\* A decision on an all-day mode leaves no timer and no queued switch, and a
\* colour that differs from the mode only where a manual choice is in its window.
LEMMA AllDayDecision ==
    ASSUME NEW s \in States, NEW reset \in BOOLEAN, NEW boot \in BOOLEAN, reset \/ boot,
           NEW held, NEW pending, OnStateChangeLocked(s, reset, boot, held, pending),
           IsAllDay(s.mode)
    PROVE  /\ trigger' = NoTimers /\ screenOffOperator' = "NONE"
           /\ dark' \in {dark, (s.mode = "ALWAYS_DARK")}
           /\ reset => dark' = (s.mode = "ALWAYS_DARK")
<1> DEFINE toDark == s.mode = "ALWAYS_DARK"
<1>1. ClearTimerByUserId /\ UpdateDarkModeSchedule(toDark, reset, boot, held)
  BY DEF OnStateChangeLocked, IsAllDay
<1> HIDE DEF toDark
<1>2. screenOffOperator' = "NONE" /\ dark' \in {dark, toDark} /\ (reset => dark' = toDark)
  BY <1>1, Decision
<1> QED
  BY <1>1, <1>2 DEF ClearTimerByUserId, toDark

LEMMA NextAllDay == TypeInv /\ AllDayInv /\ [Next]_vars => AllDayInv'
<1> SUFFICES ASSUME TypeInv, AllDayInv, [Next]_vars PROVE AllDayInv'
  OBVIOUS
<1> USE DEF AllDayInv, IsAllDay
<1>1. CASE Tick
  BY <1>1 DEF Tick
<1>2. CASE SetClock
  BY <1>2 DEF SetClock
<1>3. ASSUME NEW key \in Keys, NEW value, WriteSetting(key, value) PROVE AllDayInv'
  <2>1. UNCHANGED << phase, state, trigger, screenOffOperator, dark >>
        /\ (phase # "down" => dirty' = dirty \cup {key})
        /\ store' = [store EXCEPT ![key] = value]
    BY <1>3 DEF WriteSetting
  <2>2. key # "mode" => store'.mode = store.mode
    <3>1. store \in [mode : ModeValues, start : Starts, end : Ends]
      BY TypeParts
    <3>2. CASE key = "start"
      BY <2>1, <3>1, <3>2
    <3>3. CASE key = "end"
      BY <2>1, <3>1, <3>3
    <3> QED
      BY <3>2, <3>3 DEF Keys
  <2> QED
    BY <2>1, <2>2
<1>4. ASSUME NEW key \in Keys, SettingDataUpdateFunc(key) PROVE AllDayInv'
  <2>1. state' \in States /\ state'.mode = IF key = "mode" THEN store.mode ELSE state.mode
    BY <1>4, UpdatedState DEF SettingDataUpdateFunc
  <2>2. OnStateChangeLocked(state', TRUE, FALSE, Held, screenOffOperator)
        /\ UNCHANGED << store, phase >> /\ dirty' = dirty \ {key}
    BY <1>4 DEF SettingDataUpdateFunc
  <2>3. IsAllDay(state'.mode) => /\ trigger' = NoTimers /\ screenOffOperator' = "NONE"
                                 /\ dark' = (state'.mode = "ALWAYS_DARK")
    BY <2>1, <2>2, AllDayDecision
  <2>4. (phase' # "down" /\ "mode" \notin dirty') => state'.mode = store'.mode
    BY <2>1, <2>2
  <2> QED
    BY <2>3, <2>4
<1>5. CASE \E i \in {START_INDEX, END_INDEX} : TimerCallback(i)
  <2>1. PICK i \in {START_INDEX, END_INDEX} : TimerCallback(i)
    BY <1>5
  <2>2. trigger # NoTimers
    BY <2>1 DEF TimerCallback, TimerDue, NoTimers
  <2>3. ~IsAllDay(state.mode) /\ UNCHANGED << store, dirty, phase, state >>
    BY <2>1, <2>2 DEF TimerCallback
  <2> QED
    BY <2>3
<1>6. CASE RestartTimer
  <2>1. UNCHANGED << store, dirty, phase, state >>
    BY <1>6 DEF RestartTimer
  <2>2. CASE state.mode = "CUSTOM_AUTO"
    BY <2>1, <2>2
  <2>3. CASE state.mode # "CUSTOM_AUTO"
    BY <1>6, <2>1, <2>3 DEF RestartTimer
  <2> QED
    BY <2>2, <2>3
<1>7. CASE ScreenOnCallback
  BY <1>7 DEF ScreenOnCallback
<1>8. CASE ScreenOffCallback
  <2>1. UNCHANGED << store, dirty, phase, state, trigger >>
        /\ (screenOffOperator = "NONE" => UNCHANGED << dark, screenOffOperator >>)
    BY <1>8 DEF ScreenOffCallback
  <2> QED
    BY <2>1
<1>9. CASE SetDarkMode
  <2>1. UNCHANGED << phase, state, trigger >> /\ dark' = ~dark
        /\ DoSwitchTemporaryColorMode(~dark) /\ NotifyDarkModeUpdate(~dark)
    BY <1>9 DEF SetDarkMode
  <2>2. screenOffOperator' \in {"NONE", screenOffOperator}
    BY <2>1 DEF DoSwitchTemporaryColorMode, ResetScreenOffOperateInfo
  <2>3. CASE phase # "down" /\ "mode" \notin dirty /\ state.mode # "CUSTOM_AUTO"
                /\ "mode" \notin dirty'
    <3>1. state.mode = IF ~dark THEN "ALWAYS_DARK" ELSE "ALWAYS_LIGHT"
      BY <2>1, <2>3 DEF NotifyDarkModeUpdate
    <3>2. dark = (state.mode = "ALWAYS_DARK")
      BY <2>3, <3>1
    <3> QED
      BY <3>1, <3>2
  <2>4. CASE state.mode = "CUSTOM_AUTO"
    <3>1. UNCHANGED << store, dirty >>
      BY <2>1, <2>4 DEF NotifyDarkModeUpdate
    <3> QED
      BY <2>1, <2>4, <3>1
  <2>5. CASE phase = "down" \/ "mode" \in dirty \/ "mode" \in dirty'
    <3>1. phase' = "down" \/ "mode" \in dirty'
      BY <2>1, <2>5 DEF NotifyDarkModeUpdate
    <3> QED
      BY <2>1, <2>2, <3>1
  <2> QED
    BY <2>3, <2>4, <2>5
<1>10. CASE OnSwitchContext
  BY <1>10 DEF OnSwitchContext, Keys
<1>11. CASE LoadUserSettingData
  <2> DEFINE held == << RestoredInfo, RestoredInfo >>
  <2>1. OnStateChangeLocked(store, FALSE, TRUE, held, "NONE")
        /\ state' = store /\ phase = "registered" /\ UNCHANGED << store, dirty >>
    BY <1>11 DEF LoadUserSettingData
  <2> HIDE DEF held
  <2>2. store \in States
    BY TypeParts DEF States
  <2>3. IsAllDay(store.mode) => /\ trigger' = NoTimers /\ screenOffOperator' = "NONE"
                                /\ dark' \in {dark, (store.mode = "ALWAYS_DARK")}
    BY <2>1, <2>2, AllDayDecision
  <2> QED
    BY <2>1, <2>3
<1>12. CASE Crash
  BY <1>12 DEF Crash, UnsetState
<1>13. CASE UNCHANGED vars
  BY <1>13 DEF vars
<1> QED
  BY <1>1, <1>2, <1>3, <1>4, <1>5, <1>6, <1>7, <1>8, <1>9, <1>10, <1>11, <1>12, <1>13
     DEF Next, Keys

LEMMA SpecAllDay == Spec => []AllDayInv
<1>1. Init => AllDayInv
  BY DEF Init, AllDayInv, IsAllDay, UnsetState
<1> QED
  BY <1>1, NextAllDay, SpecTypeInv, PTL DEF Spec

\* An all-day setting ends up as the colour in force, with no timer and no switch
\* queued, whatever schedule, manual choice, queue or crash went before (the
\* observers, LoadUserSettingData and NotifyDarkModeUpdate).
THEOREM AllDayModeSettlesHolds == Spec => []AllDayModeSettles
<1>1. AllDayInv => AllDayModeSettles
  BY DEF AllDayInv, AllDayModeSettles, Settled, IsAllDay
<1> QED
  BY <1>1, SpecAllDay, PTL

-----------------------------------------------------------------------------
(* A manual choice holds                                                   *)

\* A switch is only queued in the automatic mode; memory holds no temporary
\* state but the persisted one; and as long as that one is there and nothing
\* but the user has decided, the colour is the user's and no switch is queued.
ChoiceInv ==
    /\ store.mode # "INVALID"
    /\ state.mode # "CUSTOM_AUTO" => screenOffOperator = "NONE"
    /\ IsTemporary(temp) => temp = tempParam
    /\ (choice # "OVER" /\ IsTemporary(tempParam)) =>
          dark = (choice = "DARK") /\ screenOffOperator = "NONE"

LEMMA DecisionKeepsChoice ==
    ASSUME ChoiceInv, NEW toDark, NEW reset \in BOOLEAN, NEW boot \in BOOLEAN, NEW held,
           IsTemporary(held[1]) => held[1] = held[2] /\ held[2] = tempParam,
           UpdateDarkModeSchedule(toDark, reset, boot, held)
    PROVE  /\ IsTemporary(temp') => temp' = tempParam'
           /\ (choice' # "OVER" /\ IsTemporary(tempParam')) =>
                dark' = (choice' = "DARK") /\ screenOffOperator' = "NONE"
<1>1. CASE ~Effective(held[1])
  <2>1. choice' = "OVER"
    BY <1>1, Decision
  <2>2. \/ temp' = held[1] /\ tempParam' = held[2]
        \/ temp' = NormalInfo
    BY Decision
  <2> QED
    BY <2>1, <2>2, NormalType
<1>2. CASE Effective(held[1]) /\ ~reset
  <2>1. temp' = held[1] /\ tempParam' = held[2] /\ dark' = dark /\ screenOffOperator' = "NONE"
        /\ choice' = choice
    BY <1>2, Decision
  <2>2. IsTemporary(held[1])
    BY <1>2 DEF Effective
  <2> QED
    BY <2>1, <2>2 DEF ChoiceInv
<1>3. CASE Effective(held[1]) /\ reset
  <2>1. ~IsTemporary(temp')
    BY <1>3, Decision
  <2>2. IsTemporary(held[1]) /\ held[1] = held[2]
    BY <1>3 DEF Effective
  <2>3. \/ temp' = held[1] /\ tempParam' = held[2]
        \/ temp' = NormalInfo /\ tempParam' = NormalInfo
    BY Decision
  <2> QED
    BY <2>1, <2>2, <2>3, NormalType
<1> QED
  BY <1>1, <1>2, <1>3

LEMMA StateChangeKeepsChoice ==
    ASSUME ChoiceInv, NEW s \in States, NEW reset \in BOOLEAN, NEW boot \in BOOLEAN, reset \/ boot,
           NEW held, IsTemporary(held[1]) => held[1] = held[2] /\ held[2] = tempParam,
           IsTemporary(held[2]) => held[2] = tempParam,
           NEW pending, pending = screenOffOperator \/ pending = "NONE",
           s.mode = "INVALID" => pending = "NONE",
           OnStateChangeLocked(s, reset, boot, held, pending)
    PROVE  /\ s.mode # "CUSTOM_AUTO" => screenOffOperator' = "NONE"
           /\ IsTemporary(temp') => temp' = tempParam'
           /\ (choice' # "OVER" /\ IsTemporary(tempParam')) =>
                dark' = (choice' = "DARK") /\ screenOffOperator' = "NONE"
<1>1. ASSUME NEW toDark, UpdateDarkModeSchedule(toDark, reset, boot, held)
      PROVE  /\ screenOffOperator' = "NONE"
             /\ IsTemporary(temp') => temp' = tempParam'
             /\ (choice' # "OVER" /\ IsTemporary(tempParam')) =>
                  dark' = (choice' = "DARK") /\ screenOffOperator' = "NONE"
  <2>1. screenOffOperator' = "NONE"
    BY <1>1, Decision
  <2> QED
    BY <1>1, <2>1, DecisionKeepsChoice
<1>2. ASSUME temp' = held[1], tempParam' = held[2], screenOffOperator' = pending,
             UNCHANGED << dark, choice >>
      PROVE  /\ IsTemporary(temp') => temp' = tempParam'
             /\ (choice' # "OVER" /\ IsTemporary(tempParam')) =>
                  dark' = (choice' = "DARK") /\ screenOffOperator' = "NONE"
  BY <1>2 DEF ChoiceInv
<1> QED
  BY <1>1, <1>2, StateChangeCases

LEMMA NextChoice == TypeInv /\ ChoiceInv /\ [Next]_vars /\ "INVALID" \notin Modes => ChoiceInv'
<1> SUFFICES ASSUME TypeInv, ChoiceInv, [Next]_vars, "INVALID" \notin Modes PROVE ChoiceInv'
  OBVIOUS
<1>1. CASE Tick
  BY <1>1 DEF Tick, ChoiceInv
<1>2. CASE SetClock
  BY <1>2 DEF SetClock, ChoiceInv
<1>3. ASSUME NEW key \in Keys, NEW value, WriteSetting(key, value),
             key = "mode" => value \in Modes
      PROVE  ChoiceInv'
  <2>1. UNCHANGED << state, screenOffOperator, temp, tempParam, dark, choice >>
        /\ store' = [store EXCEPT ![key] = value]
    BY <1>3 DEF WriteSetting
  <2>2. store'.mode # "INVALID"
    <3>1. store \in [mode : ModeValues, start : Starts, end : Ends]
      BY TypeParts
    <3>2. CASE key = "mode"
      BY <1>3, <2>1, <3>1, <3>2
    <3>3. CASE key = "start"
      BY <2>1, <3>1, <3>3 DEF ChoiceInv
    <3>4. CASE key = "end"
      BY <2>1, <3>1, <3>4 DEF ChoiceInv
    <3> QED
      BY <3>2, <3>3, <3>4 DEF Keys
  <2> QED
    BY <2>1, <2>2 DEF ChoiceInv
<1>4. ASSUME NEW key \in Keys, SettingDataUpdateFunc(key) PROVE ChoiceInv'
  <2>1. state' \in States /\ state'.mode = IF key = "mode" THEN store.mode ELSE state.mode
    BY <1>4, UpdatedState DEF SettingDataUpdateFunc
  <2>2. OnStateChangeLocked(state', TRUE, FALSE, Held, screenOffOperator) /\ store' = store
    BY <1>4 DEF SettingDataUpdateFunc
  <2>3. state'.mode = "INVALID" => screenOffOperator = "NONE"
    BY <2>1 DEF ChoiceInv
  <2>4. (IsTemporary(Held[1]) => Held[1] = Held[2] /\ Held[2] = tempParam) /\ Held[2] = tempParam
    BY DEF ChoiceInv, Held
  <2>5. /\ state'.mode # "CUSTOM_AUTO" => screenOffOperator' = "NONE"
        /\ IsTemporary(temp') => temp' = tempParam'
        /\ (choice' # "OVER" /\ IsTemporary(tempParam')) =>
              dark' = (choice' = "DARK") /\ screenOffOperator' = "NONE"
    BY <2>1, <2>2, <2>3, <2>4, StateChangeKeepsChoice
  <2> QED
    BY <2>2, <2>5 DEF ChoiceInv
<1>5. ASSUME NEW toDark, UpdateDarkModeSchedule(toDark, FALSE, FALSE, Held),
             state.mode = "CUSTOM_AUTO", UNCHANGED << store, state >>
      PROVE  ChoiceInv'
  <2>1. IsTemporary(Held[1]) => Held[1] = Held[2] /\ Held[2] = tempParam
    BY DEF ChoiceInv, Held
  <2> QED
    BY <1>5, <2>1, DecisionKeepsChoice DEF ChoiceInv
<1>6. CASE \E i \in {START_INDEX, END_INDEX} : TimerCallback(i)
  <2>1. PICK i \in {START_INDEX, END_INDEX} : TimerCallback(i)
    BY <1>6
  <2>2. CASE CheckTimerCallbackParams
    BY <2>1, <2>2, <1>5 DEF TimerCallback, CheckTimerCallbackParams
  <2>3. CASE ~CheckTimerCallbackParams
    BY <2>1, <2>3 DEF TimerCallback, ChoiceInv
  <2> QED
    BY <2>2, <2>3
<1>7. CASE RestartTimer
  <2>1. CASE state.mode = "CUSTOM_AUTO"
    BY <1>7, <2>1, <1>5 DEF RestartTimer
  <2>2. CASE state.mode # "CUSTOM_AUTO"
    BY <1>7, <2>2 DEF RestartTimer, ChoiceInv
  <2> QED
    BY <2>1, <2>2
<1>8. CASE ScreenOnCallback
  BY <1>8 DEF ScreenOnCallback, ChoiceInv
<1>9. CASE ScreenOffCallback
  <2>1. UNCHANGED << store, state, choice >> /\ screenOffOperator' = "NONE"
    BY <1>9 DEF ScreenOffCallback, ResetScreenOffOperateInfo
  <2>2. CASE screenOffOperator = "NONE"
    BY <1>9, <2>1, <2>2 DEF ScreenOffCallback, ChoiceInv
  <2>3. CASE screenOffOperator # "NONE"
    <3>1. ~(choice # "OVER" /\ IsTemporary(tempParam))
      BY <2>3 DEF ChoiceInv
    <3>2. \/ temp' = NormalInfo /\ tempParam' = NormalInfo
          \/ ~IsTemporary(temp) /\ temp' = temp /\ tempParam' = tempParam
      BY <1>9, <2>3 DEF ScreenOffCallback, OnChangeDarkMode, Held, SetColorModeNormal,
                        SaveTempColorModeInfo
    <3> QED
      BY <2>1, <3>1, <3>2, NormalType DEF ChoiceInv
  <2> QED
    BY <2>2, <2>3
<1>10. CASE SetDarkMode
  <2>1. state' = state /\ DoSwitchTemporaryColorMode(~dark) /\ NotifyDarkModeUpdate(~dark)
    BY <1>10 DEF SetDarkMode
  <2>2. dark' = (choice' = "DARK")
    <3>1. dark \in BOOLEAN
      BY TypeParts DEF Decided
    <3> QED
      BY <1>10, <3>1 DEF SetDarkMode
  <2>3. store'.mode # "INVALID"
    <3>1. store \in [mode : ModeValues, start : Starts, end : Ends]
      BY TypeParts
    <3> QED
      BY <2>1, <3>1 DEF NotifyDarkModeUpdate, ChoiceInv
  <2>4. screenOffOperator' = "NONE" /\ (IsTemporary(temp') => temp' = tempParam')
    <3>1. CASE state.mode = "CUSTOM_AUTO"
      BY <2>1, <3>1 DEF DoSwitchTemporaryColorMode, ResetScreenOffOperateInfo, SetColorModeNormal,
                        SetColorModeTemporary, SaveTempColorModeInfo
    <3>2. CASE state.mode # "CUSTOM_AUTO"
      BY <2>1, <3>2 DEF DoSwitchTemporaryColorMode, ChoiceInv
    <3> QED
      BY <3>1, <3>2
  <2> QED
    BY <2>1, <2>2, <2>3, <2>4 DEF ChoiceInv
<1>11. CASE OnSwitchContext
  BY <1>11 DEF OnSwitchContext, ChoiceInv
<1>12. CASE LoadUserSettingData
  <2> DEFINE held == << RestoredInfo, RestoredInfo >>
  <2>1. OnStateChangeLocked(store, FALSE, TRUE, held, "NONE") /\ state' = store /\ store' = store
    BY <1>12 DEF LoadUserSettingData
  <2>2. held[1] = held[2] /\ (IsTemporary(held[2]) => held[2] = tempParam)
    BY NormalType DEF RestoredInfo
  <2>3. store \in States
    BY TypeParts DEF States
  <2> HIDE DEF held
  <2>4. /\ store.mode # "CUSTOM_AUTO" => screenOffOperator' = "NONE"
        /\ IsTemporary(temp') => temp' = tempParam'
        /\ (choice' # "OVER" /\ IsTemporary(tempParam')) =>
              dark' = (choice' = "DARK") /\ screenOffOperator' = "NONE"
    BY <2>1, <2>2, <2>3, StateChangeKeepsChoice
  <2> QED
    BY <2>1, <2>4 DEF ChoiceInv
<1>13. CASE Crash
  BY <1>13, NormalType DEF Crash, ChoiceInv, ResetScreenOffOperateInfo
<1>14. CASE UNCHANGED vars
  BY <1>14 DEF vars, ChoiceInv
<1> QED
  BY <1>1, <1>2, <1>3, <1>4, <1>6, <1>7, <1>8, <1>9, <1>10, <1>11, <1>12, <1>13, <1>14
     DEF Next, Keys

LEMMA SpecChoice == ASSUME "INVALID" \notin Modes PROVE Spec => []ChoiceInv
<1>1. Init => ChoiceInv
  BY NormalType DEF Init, ChoiceInv
<1>2. TypeInv /\ ChoiceInv /\ [Next]_vars => ChoiceInv'
  BY NextChoice
<1> QED
  BY <1>1, <1>2, SpecTypeInv, PTL DEF Spec

\* If the settings application writes no unknown mode, a manual choice in its
\* window is the colour in force and no queued switch threatens it, through
\* timers, screen-offs, clock changes, crashes and reloads.
THEOREM OverrideHoldsHolds == ASSUME "INVALID" \notin Modes PROVE Spec => []OverrideHolds
<1>1. ChoiceInv => OverrideHolds
  BY DEF ChoiceInv, OverrideHolds, CheckTemporaryStateEffective, Effective
<1> QED
  BY <1>1, SpecChoice, PTL

\* A decision leaves the persisted state alone while it is in its window, unless
\* it is the decision on a changed setting.
LEMMA DecisionSparesChoice ==
    ASSUME NEW toDark, NEW boot \in BOOLEAN, NEW held, Effective(tempParam), held[2] = tempParam,
           IsTemporary(held[1]) => held[1] = tempParam,
           UpdateDarkModeSchedule(toDark, FALSE, boot, held)
    PROVE  tempParam' = tempParam
<1>1. CASE IsTemporary(held[1])
  BY <1>1, Decision
<1>2. CASE ~IsTemporary(held[1])
  BY <1>2 DEF UpdateDarkModeSchedule, OnChangeDarkMode
<1> QED
  BY <1>1, <1>2

LEMMA NextSparesChoice ==
    ASSUME TypeInv, ChoiceInv, [Next]_vars, choice # "OVER", Effective(tempParam),
           tempParam' # tempParam
    PROVE  SetDarkMode \/ \E key \in Keys : SettingDataUpdateFunc(key)
<1>1. Held[2] = tempParam /\ (IsTemporary(Held[1]) => Held[1] = tempParam)
  BY DEF Held, ChoiceInv
<1>2. IsTemporary(tempParam) /\ screenOffOperator = "NONE"
  BY DEF Effective, ChoiceInv
<1>3. ~\E i \in {START_INDEX, END_INDEX} : TimerCallback(i)
  BY <1>1, DecisionSparesChoice DEF TimerCallback
<1>4. ~RestartTimer
  BY <1>1, DecisionSparesChoice DEF RestartTimer
<1>5. ~ScreenOffCallback
  BY <1>2 DEF ScreenOffCallback
<1>6. ~LoadUserSettingData
  <2> SUFFICES ASSUME LoadUserSettingData PROVE FALSE
    OBVIOUS
  <2> DEFINE held == << RestoredInfo, RestoredInfo >>
  <2>1. held[1] = tempParam /\ held[2] = tempParam
    BY DEF RestoredInfo
  <2>2. OnStateChangeLocked(store, FALSE, TRUE, held, "NONE")
    BY DEF LoadUserSettingData
  <2>3. store \in States
    BY TypeParts DEF States
  <2> HIDE DEF held
  <2> QED
    BY <2>1, <2>2, <2>3, StateChangeCases, DecisionSparesChoice
<1> QED
  BY <1>3, <1>4, <1>5, <1>6
     DEF Next, vars, Tick, SetClock, WriteSetting, ScreenOnCallback, OnSwitchContext, Crash, Keys

\* Under the same assumption, what is persisted of a manual choice in its window
\* is given up for a setting that is notified or for another choice, never for a
\* timer, a screen-off, a clock event or a crash and the reload after it.
THEOREM OverrideSurvivesHolds == ASSUME "INVALID" \notin Modes PROVE Spec => OverrideSurvives
<1>1. TypeInv /\ ChoiceInv /\ [Next]_vars =>
        [(choice # "OVER" /\ Effective(tempParam) /\ tempParam' # tempParam)
            => SetDarkMode \/ \E key \in Keys : SettingDataUpdateFunc(key)]_vars
  BY NextSparesChoice
<1> QED
  BY <1>1, SpecTypeInv, SpecChoice, PTL DEF Spec, OverrideSurvives

-----------------------------------------------------------------------------
(* The colour follows the schedule                                         *)

\* A moment within a day from now is the next one of its second of the day.
LEMMA WithinADay ==
    ASSUME NEW t \in Int, NEW later \in Int, t < later, later <= t + DAY_TO_SECOND
    PROVE  later = Midnight(t) + SecondOfDay(later) +
                   (IF SecondOfDay(t) < SecondOfDay(later) THEN 0 ELSE DAY_TO_SECOND)
<1> DEFINE D == DAY_TO_SECOND
           q == t \div D
           r == t % D
           x == r + (later - t)
<1>1. D \in Nat \ {0}
  BY DayType
<1> HIDE DEF D
<1>2. q \in Int /\ r \in 0 .. D - 1 /\ q * D \in Int /\ t = q * D + r
  BY <1>1, Division
<1> HIDE DEF q, r
<1>3. x \in 1 .. 2 * D - 1 /\ later = q * D + x /\ x \in r + 1 .. r + D
  BY <1>1, <1>2 DEF D
<1> HIDE DEF x
<1>4. CASE x < D
  <2>1. x \in 0 .. D - 1
    BY <1>1, <1>3, <1>4
  <2>2. later % D = x /\ r < x
    BY <1>1, <1>2, <1>3, <2>1, Remainder
  <2> QED
    BY <1>1, <1>2, <1>3, <2>1, <2>2 DEF D, q, r, Midnight, SecondOfDay
<1>5. CASE ~(x < D)
  <2>1. (q + 1) * D = q * D + D /\ q + 1 \in Int
    BY <1>1, <1>2, NextMultiple
  <2>2. later = (q + 1) * D + (x - D) /\ x - D \in 0 .. D - 1
    BY <1>1, <1>2, <1>3, <1>5, <2>1
  <2>3. later % D = x - D
    <3> DEFINE p == q + 1
               u == x - D
    <3>1. p \in Int /\ u \in 0 .. D - 1 /\ later = p * D + u
      BY <2>1, <2>2
    <3> HIDE DEF p, u
    <3>2. later % D = u
      BY <1>1, <3>1, Remainder, SMTT(30)
    <3> QED
      BY <3>2 DEF u
  <2>4. ~(r < x - D)
    BY <1>1, <1>2, <1>3
  <2> QED
    BY <1>1, <1>2, <1>3, <2>3, <2>4 DEF D, q, r, Midnight, SecondOfDay
<1> QED
  BY <1>4, <1>5

\* It is dark exactly when, of the next start and the next end, the end comes first.
LEMMA OrderMeansDark ==
    ASSUME NEW start \in 0 .. UINT64_MODULUS - 1, NEW end \in 0 .. UINT64_MODULUS - 1,
           IsValidScheduleTime(start, end), NEW t \in Int,
           NEW first \in Int, t < first, first <= t + DAY_TO_SECOND,
           SecondOfDay(first) = SecondOfDay(start * MINUTE_TO_SECOND),
           NEW last \in Int, t < last, last <= t + DAY_TO_SECOND,
           SecondOfDay(last) = SecondOfDay(end * MINUTE_TO_SECOND)
    PROVE  last < first <=> IsWithinTimeInterval(start, end, t)
<1> DEFINE D == DAY_TO_SECOND
           s == start * MINUTE_TO_SECOND
           e == end * MINUTE_TO_SECOND
           sec == SecondOfDay(t)
<1>1. /\ s \in Nat /\ e \in Nat /\ s < e /\ s < D /\ e < D + s
      /\ IsWithinTimeInterval(start, end, t) <=>
           IF e <= D THEN s <= sec /\ sec < e ELSE ~(e - D <= sec /\ sec < s)
  BY InSeconds
<1>2. Midnight(t) \in Int /\ sec \in 0 .. D - 1 /\ D \in Nat \ {0}
  BY DayDecomposition, DayType
<1>3. ASSUME NEW x \in 0 .. D - 1 PROVE SecondOfDay(x) = x
  <2>1. ASSUME NEW d \in Nat \ {0}, NEW y \in 0 .. d - 1 PROVE y % d = y
    BY <2>1
  <2> HIDE DEF D
  <2>2. x % D = x
    BY <1>2, <2>1
  <2> QED
    BY <2>2 DEF SecondOfDay, D
<1>4. SecondOfDay(s) = s
  BY <1>1, <1>2, <1>3
<1>5. SecondOfDay(e) = IF e < D THEN e ELSE e - D
  <2>1. CASE e < D
    BY <1>1, <1>2, <1>3, <2>1
  <2>2. CASE ~(e < D)
    <3>1. e - D \in 0 .. D - 1 /\ e - D \in Int /\ (e - D) + D = e
      BY <1>1, <1>2, <2>2
    <3>2. SecondOfDay((e - D) + D) = SecondOfDay(e - D)
      BY <3>1, NextDay
    <3> QED
      BY <1>3, <2>2, <3>1, <3>2
  <2> QED
    BY <2>1, <2>2
<1>6. first = Midnight(t) + s + (IF sec < s THEN 0 ELSE D)
  BY <1>4, WithinADay
<1>7. last = Midnight(t) + SecondOfDay(e) + (IF sec < SecondOfDay(e) THEN 0 ELSE D)
  BY WithinADay
<1> HIDE DEF s, e, sec, D
<1> QED
  BY <1>1, <1>2, <1>5, <1>6, <1>7

\* From EARLY seconds before a full minute to LATE seconds after it the callback's
\* test judges by that minute.
LEMMA CallbackTest ==
    ASSUME OFFSET_SECONDS > 0,
           NEW start \in 0 .. UINT64_MODULUS - 1, NEW end \in 0 .. UINT64_MODULUS - 1,
           NEW t \in Int, NEW late \in -EARLY .. LATE,
           NEW k \in Int, SecondOfDay(t) = k * MINUTE_TO_SECOND + late
    PROVE  CheckCurrentTimeInDarkInterval(start, end, t) <=>
             IF end <= DAY_TO_MINUTE THEN start <= k /\ k < end
             ELSE start <= k \/ k < end - DAY_TO_MINUTE
<1> DEFINE M == MINUTE_TO_SECOND
           sec == SecondOfDay(t)
<1>1. M \in Nat \ {0} /\ OFFSET_SECONDS \in Nat /\ LATE \in Nat /\ LATE + OFFSET_SECONDS < M
      /\ DAY_TO_MINUTE \in Nat /\ UINT64_MODULUS \in Nat
      /\ EARLY \in Nat /\ EARLY < OFFSET_SECONDS
  BY ScheduleTimeAssumption, DarkModeScheduleAssumption
<1>2. late \in Int /\ -OFFSET_SECONDS < late /\ late + OFFSET_SECONDS < M
      /\ k * M \in Int /\ sec \in Int
  BY <1>1, MinuteOrder
<1>3. ASSUME NEW i \in Int
      PROVE  /\ i * M - OFFSET_SECONDS < sec <=> i <= k
             /\ sec < i * M - OFFSET_SECONDS <=> k < i
  <2>1. i * M \in Int /\ (k + 1) * M = k * M + M
        /\ (i <= k <=> i * M <= k * M) /\ (k + 1 <= i <=> (k + 1) * M <= i * M)
    <3>1. (k + 1) * M = k * M + M
      BY <1>1, NextMultiple
    <3>2. i * M \in Int /\ (i <= k <=> i * M <= k * M)
      BY MinuteOrder
    <3>3. ASSUME NEW j \in Int PROVE j <= i <=> j * M <= i * M
      BY MinuteOrder
    <3>4. k + 1 <= i <=> (k + 1) * M <= i * M
      BY <3>3
    <3> QED
      BY <3>1, <3>2, <3>4
  <2>2. sec = k * M + late
    OBVIOUS
  <2> HIDE DEF M, sec
  <2> QED
    BY <1>1, <1>2, <2>1, <2>2
<1>4. ToUint64(start) = start /\ ToUint64(end) = end /\ start \in Int /\ end \in Int
  BY <1>1, SmallTime
<1>5. end - DAY_TO_MINUTE \in Int
  BY <1>1, <1>4
<1>6. /\ start * M - OFFSET_SECONDS < sec <=> start <= k
      /\ sec < end * M - OFFSET_SECONDS <=> k < end
      /\ sec < (end - DAY_TO_MINUTE) * M - OFFSET_SECONDS <=> k < end - DAY_TO_MINUTE
  BY <1>3, <1>4, <1>5
<1> QED
  BY <1>6 DEF CheckCurrentTimeInDarkInterval

\* A moment whose second of the day is that of a full minute is a full minute,
\* and up to a minute later the seconds of the minute are how late it is.
LEMMA SecondsAfterMinute ==
    ASSUME NEW t \in Int, NEW due \in Int, due <= t,
           NEW minute \in Int, SecondOfDay(due) = SecondOfDay(minute * MINUTE_TO_SECOND)
    PROVE  \E k \in Int : SecondOfDay(t) = k * MINUTE_TO_SECOND + (t - due)
<1> DEFINE M == MINUTE_TO_SECOND
           D == DAY_TO_SECOND
           N == DAY_TO_MINUTE
           a == t \div D
           b == due \div D
           c == (minute * M) \div D
<1>1. M \in Nat \ {0} /\ N \in Nat /\ D \in Nat \ {0} /\ D = N * M
  BY ScheduleTimeAssumption, DayType DEF DAY_TO_SECOND
<1>2. minute * M \in Int
  BY <1>1
<1>3. a \in Int /\ b \in Int /\ c \in Int
  BY <1>1, <1>2, Division
<1>4. SecondOfDay(t) = t - a * D /\ a * D \in Int
  BY DayDecomposition DEF Midnight
<1>5. SecondOfDay(due) = due - b * D /\ b * D \in Int
  BY DayDecomposition DEF Midnight
<1>6. SecondOfDay(minute * M) = minute * M - c * D /\ c * D \in Int
  BY <1>2, DayDecomposition DEF Midnight
<1>7. SecondOfDay(t) = minute * M - c * D + b * D - a * D + (t - due)
  <2>1. due - b * D = minute * M - c * D
    BY <1>5, <1>6
  <2> HIDE DEF M, D, a, b, c
  <2> QED
    BY <1>2, <1>4, <1>5, <1>6, <2>1
<1> DEFINE k == minute + (b - c - a) * N
<1>8. k * M = minute * M - c * D + b * D - a * D
  <2>1. ASSUME NEW i \in Int, NEW x \in Int, NEW y \in Int, NEW z \in Int, NEW n \in Nat, NEW m \in Nat
        PROVE  (i + (y - z - x) * n) * m = i * m - z * (n * m) + y * (n * m) - x * (n * m)
    BY <2>1, Z3T(30)
  <2> HIDE DEF M, N, D, a, b, c
  <2> QED
    BY <1>1, <1>3, <2>1
<1>9. k \in Int
  <2>1. (b - c - a) * N \in Int
    <3> HIDE DEF M, N, D, a, b, c
    <3> QED
      BY <1>1, <1>3
  <2> QED
    BY <2>1
<1> HIDE DEF k
<1> QED
  BY <1>7, <1>8, <1>9

\* Of two moments at full minutes the later one is a minute later at least.
LEMMA MinutesApart ==
    ASSUME NEW a \in Int, NEW x \in Int, SecondOfDay(a) = SecondOfDay(x * MINUTE_TO_SECOND),
           NEW b \in Int, NEW y \in Int, SecondOfDay(b) = SecondOfDay(y * MINUTE_TO_SECOND),
           a < b
    PROVE  a + MINUTE_TO_SECOND <= b
<1> DEFINE M == MINUTE_TO_SECOND
           minutes(t, k) == (t \div DAY_TO_SECOND) * DAY_TO_MINUTE + k
<1>1. M \in Nat \ {0} /\ DAY_TO_MINUTE \in Nat /\ DAY_TO_SECOND \in Nat \ {0}
      /\ DAY_TO_SECOND = DAY_TO_MINUTE * M
  BY ScheduleTimeAssumption, DayType DEF DAY_TO_SECOND
<1>2. ASSUME NEW t \in Int, NEW k \in Int, SecondOfDay(t) = k * M + 0
      PROVE  minutes(t, k) \in Int /\ t = minutes(t, k) * M
  <2> DEFINE q == t \div DAY_TO_SECOND
  <2>1. q \in Int
    BY <1>1, Division
  <2>2. t = q * DAY_TO_SECOND + k * M
    <3>1. t = Midnight(t) + SecondOfDay(t) /\ Midnight(t) \in Int /\ k * M \in Int
      BY <1>1, DayDecomposition
    <3> QED
      BY <1>2, <3>1 DEF Midnight
  <2>3. ASSUME NEW p \in Int, NEW n \in Nat, NEW m \in Nat
        PROVE  p * n + k \in Int /\ p * (n * m) + k * m = (p * n + k) * m
    BY <2>3, Z3T(30)
  <2> HIDE DEF q, M
  <2>4. q * DAY_TO_MINUTE + k \in Int
        /\ q * DAY_TO_SECOND + k * M = (q * DAY_TO_MINUTE + k) * M
    BY <1>1, <2>1, <2>3
  <2> QED
    BY <2>2, <2>4 DEF q
<1> HIDE DEF minutes
<1>3. PICK k \in Int : SecondOfDay(a) = k * M + 0
  <2>1. a - a = 0 /\ a <= a
    OBVIOUS
  <2> QED
    BY <2>1, SecondsAfterMinute
<1>4. PICK l \in Int : SecondOfDay(b) = l * M + 0
  <2>1. b - b = 0 /\ b <= b
    OBVIOUS
  <2> QED
    BY <2>1, SecondsAfterMinute
<1>5. minutes(a, k) \in Int /\ a = minutes(a, k) * M /\ minutes(b, l) \in Int /\ b = minutes(b, l) * M
  BY <1>2, <1>3, <1>4
<1>6. minutes(a, k) < minutes(b, l)
  BY <1>5, MinuteOrder
<1>7. minutes(a, k) + 1 <= minutes(b, l) /\ minutes(a, k) + 1 \in Int
  BY <1>5, <1>6
<1>8. (minutes(a, k) + 1) * M <= minutes(b, l) * M
  BY <1>5, <1>7, MinuteOrder
<1>9. (minutes(a, k) + 1) * M = minutes(a, k) * M + M
  BY <1>1, <1>5, NextMultiple
<1> QED
  BY <1>5, <1>8, <1>9

\* A callback that is early decides as the moment of its timer would, one that is
\* late as the moment it runs at; but not the early one of a start at 0:00.
LEMMA CallbackDecision ==
    ASSUME OFFSET_SECONDS > 0,
           NEW start \in 0 .. UINT64_MODULUS - 1, NEW end \in 0 .. UINT64_MODULUS - 1,
           IsValidScheduleTime(start, end), EARLY = 0 \/ start # 0,
           NEW t \in Int, NEW due \in Int, due - EARLY <= t, t <= due + LATE,
           NEW minute \in Int, SecondOfDay(due) = SecondOfDay(minute * MINUTE_TO_SECOND)
    PROVE  CheckCurrentTimeInDarkInterval(start, end, t) <=>
             IsWithinTimeInterval(start, end, IF t < due THEN due ELSE t)
<1> DEFINE M == MINUTE_TO_SECOND
           D == DAY_TO_SECOND
           N == DAY_TO_MINUTE
<1>1. /\ M \in Nat \ {0} /\ N \in Nat /\ D \in Nat \ {0} /\ D = N * M
      /\ OFFSET_SECONDS \in Nat /\ LATE \in Nat /\ LATE + OFFSET_SECONDS < M
      /\ EARLY \in Nat /\ EARLY < OFFSET_SECONDS
  BY ScheduleTimeAssumption, DarkModeScheduleAssumption, DayType DEF DAY_TO_SECOND
<1>2. ToUint64(start) = start /\ ToUint64(end) = end /\ start \in Nat /\ end \in Nat /\ start < N
  <2>1. ToUint64(start) = start /\ ToUint64(end) = end
    BY SmallTime
  <2> QED
    BY <2>1 DEF IsValidScheduleTime
<1>3. ASSUME NEW x \in Int, NEW k \in Int, NEW late \in 0 .. LATE, SecondOfDay(x) = k * M + late
      PROVE  /\ k \in Nat
             /\ IsWithinTimeInterval(start, end, x) <=>
                  IF end <= N THEN start <= k /\ k < end ELSE ~(end - N <= k /\ k < start)
  <2>1. MinuteOfDay(x) = k
    <3> DEFINE sec == SecondOfDay(x)
    <3>1. M \in Nat \ {0} /\ sec \in Int /\ late \in 0 .. M - 1 /\ sec = k * M + late
      BY <1>1, <1>3, DayDecomposition
    <3> HIDE DEF M, sec
    <3>2. sec \div M = k
      BY <3>1, Remainder
    <3> QED
      BY <3>2 DEF MinuteOfDay, M, sec
  <2>2. k \in Nat
    <3>1. k * M + late >= 0
      BY <1>1, <1>3, DayDecomposition
    <3>2. k * M >= -LATE /\ k * M \in Int
      BY <1>1, <3>1
    <3>3. CASE k < 0
      <4>1. k + 1 <= 0 /\ k + 1 \in Int /\ 0 * M = 0
        BY <1>1, <3>3
      <4>2. (k + 1) * M <= 0
        BY <4>1, MinuteOrder
      <4>3. (k + 1) * M = k * M + M
        BY <1>1, NextMultiple
      <4> QED
        BY <1>1, <3>2, <4>2, <4>3
    <3> QED
      BY <3>3
  <2> QED
    BY <1>2, <2>1, <2>2 DEF IsWithinTimeInterval
<1>4. CASE ~(t < due)
  <2>1. due <= t /\ t - due \in 0 .. LATE
    BY <1>1, <1>4
  <2>2. PICK k \in Int : SecondOfDay(t) = k * M + (t - due)
    BY <2>1, SecondsAfterMinute
  <2> DEFINE late == t - due
  <2>3. late \in 0 .. LATE /\ late \in -EARLY .. LATE /\ SecondOfDay(t) = k * M + late
    BY <1>1, <2>1, <2>2
  <2> HIDE DEF late
  <2>4. CheckCurrentTimeInDarkInterval(start, end, t) <=>
          IF end <= N THEN start <= k /\ k < end ELSE start <= k \/ k < end - N
    BY <2>3, CallbackTest
  <2>5. IsWithinTimeInterval(start, end, t) <=>
          IF end <= N THEN start <= k /\ k < end ELSE ~(end - N <= k /\ k < start)
    BY <1>3, <2>3
  <2>6. end - N <= k <=> ~(k < end - N)
    BY <1>1, <1>2
  <2>7. start <= k <=> ~(k < start)
    BY <1>2
  <2> QED
    BY <1>4, <2>4, <2>5, <2>6, <2>7
<1>5. CASE t < due
  <2> DEFINE early == due - t
             q == due \div D
  <2>1. early \in 1 .. EARLY /\ start # 0 /\ t = due - early
    BY <1>1, <1>5
  <2>2. PICK k \in Int : SecondOfDay(due) = k * M + 0
    <3>1. due - due = 0 /\ due <= due
      OBVIOUS
    <3> QED
      BY <3>1, SecondsAfterMinute
  <2>3. /\ k \in Nat
        /\ IsWithinTimeInterval(start, end, due) <=>
             IF end <= N THEN start <= k /\ k < end ELSE ~(end - N <= k /\ k < start)
    <3>1. 0 \in 0 .. LATE
      BY <1>1
    <3> QED
      BY <1>3, <2>2, <3>1
  <2>4. q \in Int /\ q * D \in Int /\ k * M \in 0 .. D - 1 /\ due = q * D + k * M
    <3>1. q \in Int /\ q * D \in Int
      BY <1>1, Division
    <3>2. SecondOfDay(due) \in 0 .. D - 1 /\ due = Midnight(due) + SecondOfDay(due)
      BY DayDecomposition
    <3>3. k * M \in Int
      BY MinuteOrder
    <3> QED
      BY <2>2, <3>1, <3>2, <3>3 DEF Midnight
  <2> HIDE DEF early, q
  <2>5. CASE k = 0
    <3>1. (q - 1) * D = q * D - D /\ q - 1 \in Int
      BY <1>1, <2>4, NextMultiple
    <3>2. k * M = 0
      BY <1>1, <2>5
    <3>3. M <= D
      <4>1. ASSUME NEW m \in Nat, NEW n \in Nat, n > 1 PROVE m <= n * m
        BY <4>1, Z3T(30)
      <4>2. N > 1
        BY ScheduleTimeAssumption
      <4> HIDE DEF M, N, D
      <4> QED
        BY <1>1, <4>1, <4>2
    <3> DEFINE p == q - 1
               u == D - early
    <3>4. p \in Int /\ u \in 0 .. D - 1 /\ t = p * D + u
      <4> HIDE DEF M, D, N
      <4> QED
        BY <1>1, <2>1, <2>4, <3>1, <3>2, <3>3
    <3>5. SecondOfDay(t) = u
      <4> HIDE DEF p, u, D
      <4>1. t % D = u
        BY <1>1, <3>4, Remainder, ZenonT(30)
      <4> QED
        BY <4>1 DEF SecondOfDay, D
    <3>6. SecondOfDay(t) = N * M + (-early) /\ -early \in -EARLY .. LATE /\ N \in Int
      <4>1. u = D + (-early) /\ -early \in -EARLY .. LATE
        <5> HIDE DEF D
        <5> QED
          BY <1>1, <2>1
      <4> QED
        BY <1>1, <3>5, <4>1
    <3>7. CheckCurrentTimeInDarkInterval(start, end, t) <=>
            IF end <= N THEN start <= N /\ N < end ELSE start <= N \/ N < end - N
      BY <3>6, CallbackTest
    <3>8. IsWithinTimeInterval(start, end, due) <=>
            IF end <= N THEN start <= 0 /\ 0 < end ELSE ~(end - N <= 0 /\ 0 < start)
      BY <2>3, <2>5
    <3> HIDE DEF M, N, D
    <3>9. CheckCurrentTimeInDarkInterval(start, end, t) <=> ~(end <= N)
      BY <1>1, <1>2, <3>7
    <3>10. IsWithinTimeInterval(start, end, due) <=> ~(end <= N)
      BY <1>1, <1>2, <2>1, <3>8
    <3> QED
      BY <1>5, <3>9, <3>10
  <2>6. CASE k # 0
    <3>1. M <= k * M
      <4>1. 1 <= k /\ 1 \in Int /\ 1 * M = M
        BY <1>1, <2>3, <2>6
      <4>2. 1 * M <= k * M
        BY <4>1, MinuteOrder
      <4> QED
        BY <4>1, <4>2
    <3> DEFINE u == k * M - early
    <3>2. u \in 0 .. D - 1 /\ t = q * D + u
      <4> DEFINE x == k * M
                 y == q * D
      <4>1. x \in 0 .. D - 1 /\ M <= x /\ y \in Int /\ due = y + x
        BY <2>4, <3>1
      <4> HIDE DEF x, y, M, D
      <4>2. x - early \in 0 .. D - 1 /\ t = y + (x - early)
        BY <1>1, <2>1, <4>1
      <4> QED
        BY <4>2 DEF x, y
    <3>3. SecondOfDay(t) = u
      <4> HIDE DEF u, D
      <4>1. t % D = u
        BY <1>1, <2>4, <3>2, Remainder, ZenonT(30)
      <4> QED
        BY <4>1 DEF SecondOfDay, D
    <3>4. SecondOfDay(t) = k * M + (-early) /\ -early \in -EARLY .. LATE
      <4>1. -early \in -EARLY .. LATE /\ early \in Int
        BY <1>1, <2>1
      <4>2. u = k * M + (-early)
        BY <2>4, <4>1
      <4> QED
        BY <3>3, <4>1, <4>2
    <3>5. CheckCurrentTimeInDarkInterval(start, end, t) <=>
            IF end <= N THEN start <= k /\ k < end ELSE start <= k \/ k < end - N
      BY <3>4, CallbackTest
    <3>6. end - N <= k <=> ~(k < end - N)
      BY <1>1, <1>2
    <3>7. start <= k <=> ~(k < start)
      BY <1>2
    <3> QED
      BY <1>5, <2>3, <3>5, <3>6, <3>7
  <2> QED
    BY <2>5, <2>6
<1> QED
  BY <1>4, <1>5

\* The times are int32, or unset.
SmallTimes == Starts \cup Ends \subseteq -1 .. UINT64_MODULUS - 1
\* Besides, the callback's tolerance is not zero, and no interval starts at 0:00
\* where the time service may deliver a timer before its moment.
TimersInTolerance == (EARLY = 0 \/ 0 \notin Starts) /\ OFFSET_SECONDS > 0 /\ SmallTimes

InForce == state.mode = "CUSTOM_AUTO" /\ IsValidScheduleTime(state.start, state.end)

\* No manual choice stands: there is none, or a switch is queued in its place; and
\* where timers may be early, the last to decide was the schedule.
Follows ==
    /\ ~IsTemporary(temp) \/ screenOffOperator # "NONE"
    /\ EARLY = 0 \/ choice = "OVER"

\* The timer is set for the next such minute, or for the one after it if it came
\* early, or is overdue by LATE at most.
Armed(i, minute) ==
    /\ now <= trigger[i] + LATE /\ trigger[i] <= now + EARLY + DAY_TO_SECOND
    /\ SecondOfDay(trigger[i]) = SecondOfDay(minute * MINUTE_TO_SECOND)

NoneDue == now + EARLY < trigger[START_INDEX] /\ now + EARLY < trigger[END_INDEX]

\* While a schedule is in force its two timers are set; and unless a clock change
\* is still to be handled, they are set right, and between two firings the colour
\* is the one that the next firing ends.
ScheduleInv ==
    InForce =>
        /\ timerParams = << state.start, state.end >>
        /\ trigger[START_INDEX] # NoTrigger /\ trigger[END_INDEX] # NoTrigger
        /\ ~timeChanged =>
              /\ Armed(START_INDEX, state.start) /\ Armed(END_INDEX, state.end)
              /\ NoneDue /\ Follows => DecidedDark = (trigger[END_INDEX] < trigger[START_INDEX])

LEMMA DecisionFollows ==
    ASSUME NEW toDark \in BOOLEAN, NEW reset \in BOOLEAN, NEW boot \in BOOLEAN, NEW held,
           UpdateDarkModeSchedule(toDark, reset, boot, held)
    PROVE  Follows' => DecidedDark' = toDark
<1>1. CASE SwitchesNow(reset, boot, held[1])
  BY <1>1 DEF UpdateDarkModeSchedule, ResetScreenOffOperateInfo, OnChangeDarkMode, DecidedDark
<1>2. CASE ~SwitchesNow(reset, boot, held[1]) /\ KeepsTemporary(reset, held[1])
  BY <1>2 DEF UpdateDarkModeSchedule, ResetScreenOffOperateInfo, KeepsTemporary, Effective, Follows
<1>3. CASE ~SwitchesNow(reset, boot, held[1]) /\ ~KeepsTemporary(reset, held[1])
  <2>1. screenOffOperator' = IF toDark THEN "SWITCH_TO_DARK" ELSE "SWITCH_TO_LIGHT"
    BY <1>3 DEF UpdateDarkModeSchedule, SetScreenOffOperateInfo
  <2>2. DecidedDark' = toDark
    <3>1. CASE toDark
      BY <2>1, <3>1 DEF DecidedDark
    <3>2. CASE ~toDark
      BY <2>1, <3>2 DEF DecidedDark
    <3> QED
      BY <3>1, <3>2
  <2> QED
    BY <2>2
<1> QED
  BY <1>1, <1>2, <1>3

LEMMA TimesInRange ==
    ASSUME SmallTimes, NEW s \in States, IsValidScheduleTime(s.start, s.end)
    PROVE  s.start \in 0 .. UINT64_MODULUS - 1 /\ s.end \in 0 .. UINT64_MODULUS - 1
<1>1. s.start \in Nat /\ s.end \in Nat /\ s.start \in Starts \cup {-1} /\ s.end \in Ends \cup {-1}
  BY ValidTimesAreSet DEF States
<1> QED
  BY <1>1, ScheduleTimeAssumption DEF SmallTimes

\* Whoever sets the timers and decides by the same moment establishes ScheduleInv.
LEMMA NewlyArmed ==
    ASSUME TimersInTolerance, TypeInv, TypeInv', now' = now, InForce',
           NEW pair, pair = SetTimerTriggerTime(state'.start, state'.end, now),
           trigger' = [i \in {START_INDEX, END_INDEX} |-> pair[i]],
           timerParams' = << state'.start, state'.end >>,
           Follows' => DecidedDark' = IsWithinTimeInterval(state'.start, state'.end, now)
    PROVE  ScheduleInv'
<1>1. state' \in States /\ now \in Nat /\ now >= DAY_TO_SECOND /\ DAY_TO_SECOND > 0
      /\ DAY_TO_SECOND \in Nat /\ LATE \in Nat /\ EARLY \in Nat
  BY TypeParts, ConstantTypes, DayType, DarkModeScheduleAssumption DEF TypeInv, TypeOK, States
<1>2. state'.start \in 0 .. UINT64_MODULUS - 1 /\ state'.end \in 0 .. UINT64_MODULUS - 1
      /\ IsValidScheduleTime(state'.start, state'.end)
  BY <1>1, TimesInRange DEF InForce, TimersInTolerance
<1>3. /\ pair[1] \in now .. now + DAY_TO_SECOND /\ pair[2] \in now .. now + DAY_TO_SECOND
      /\ pair[1] # now => (pair[2] < pair[1] <=> IsWithinTimeInterval(state'.start, state'.end, now))
  BY <1>1, <1>2, TriggerOrder
<1>4. /\ SecondOfDay(pair[1]) = SecondOfDay(state'.start * MINUTE_TO_SECOND)
      /\ SecondOfDay(pair[2]) = SecondOfDay(state'.end * MINUTE_TO_SECOND)
  <2>1. state'.start \in Int /\ state'.end \in Int /\ now \in Int
    BY <1>1, <1>2
  <2> QED
    BY <2>1, TriggerSecond
<1>5. trigger'[START_INDEX] = pair[1] /\ trigger'[END_INDEX] = pair[2]
  BY DEF START_INDEX, END_INDEX
<1>6. Armed(START_INDEX, state.start)' /\ Armed(END_INDEX, state.end)'
  BY <1>1, <1>3, <1>4, <1>5 DEF Armed
<1>7. trigger'[START_INDEX] # NoTrigger /\ trigger'[END_INDEX] # NoTrigger
  BY <1>1, <1>3, <1>5 DEF NoTrigger
<1>8. ASSUME NoneDue', Follows'
      PROVE  DecidedDark' = (trigger'[END_INDEX] < trigger'[START_INDEX])
  <2>1. pair[1] # now
    BY <1>1, <1>3, <1>5, <1>8 DEF NoneDue
  <2>2. DecidedDark' = IsWithinTimeInterval(state'.start, state'.end, now)
    BY <1>8
  <2>3. (trigger'[END_INDEX] < trigger'[START_INDEX]) = IsWithinTimeInterval(state'.start, state'.end, now)
    BY <1>3, <1>5, <2>1, WithinIsBoolean
  <2> QED
    BY <2>2, <2>3
<1> QED
  BY <1>6, <1>7, <1>8 DEF ScheduleInv

LEMMA StateChangeSchedule ==
    ASSUME TimersInTolerance, TypeInv, TypeInv', now' = now,
           NEW reset \in BOOLEAN, NEW boot \in BOOLEAN, NEW held, NEW pending,
           OnStateChangeLocked(state', reset, boot, held, pending)
    PROVE  ScheduleInv'
<1>1. CASE ~InForce'
  BY <1>1 DEF ScheduleInv
<1>2. CASE InForce'
  <2>1. /\ SetScheduleTime(state')
        /\ UpdateDarkModeSchedule(IsWithinTimeInterval(state'.start, state'.end, now),
                                  reset, boot, held)
    BY <1>2 DEF InForce, OnStateChangeLocked
  <2>2. Follows' => DecidedDark' = IsWithinTimeInterval(state'.start, state'.end, now)
    BY <2>1, DecisionFollows, WithinIsBoolean
  <2> QED
    BY <1>2, <2>1, <2>2, NewlyArmed DEF SetScheduleTime
<1> QED
  BY <1>1, <1>2

\* Between firings the order of the timers is the schedule itself, seen EARLY
\* seconds ahead.
LEMMA OrderIsSchedule ==
    ASSUME TimersInTolerance, TypeInv, ScheduleInv, InForce, ~timeChanged, NoneDue
    PROVE  /\ trigger[END_INDEX] < trigger[START_INDEX] <=>
                IsWithinTimeInterval(state.start, state.end, now + EARLY)
           /\ state.start \in 0 .. UINT64_MODULUS - 1 /\ state.end \in 0 .. UINT64_MODULUS - 1
<1>1. state \in States /\ now \in Int /\ trigger[START_INDEX] \in Int /\ trigger[END_INDEX] \in Int
      /\ EARLY \in Nat /\ now + EARLY \in Int
  <2>1. state \in States /\ now \in Int /\ trigger[START_INDEX] \in Int /\ trigger[END_INDEX] \in Int
    BY TypeParts, ConstantTypes DEF Decided
  <2>2. EARLY \in Nat
    BY DarkModeScheduleAssumption
  <2> QED
    BY <2>1, <2>2
<1>2. state.start \in 0 .. UINT64_MODULUS - 1 /\ state.end \in 0 .. UINT64_MODULUS - 1
      /\ IsValidScheduleTime(state.start, state.end)
  BY <1>1, TimesInRange DEF InForce, TimersInTolerance
<1>3. Armed(START_INDEX, state.start) /\ Armed(END_INDEX, state.end)
  BY DEF ScheduleInv
<1> QED
  BY <1>1, <1>2, <1>3, OrderMeansDark DEF Armed, NoneDue

LEMMA CallbackSchedule ==
    ASSUME TimersInTolerance, TypeInv, TypeInv', ScheduleInv,
           NEW i \in {START_INDEX, END_INDEX}, TimerCallback(i)
    PROVE  ScheduleInv'
<1> SUFFICES ASSUME InForce' PROVE ScheduleInv'
  BY DEF ScheduleInv
<1>1. UNCHANGED << now, state, timerParams, timeChanged >> /\ InForce /\ InForce'
  BY DEF TimerCallback, InForce
<1> DEFINE day == DAY_TO_SECOND
           missed == IF now < trigger[i] THEN 0 ELSE (now - trigger[i]) \div day
           minute == IF i = START_INDEX THEN state.start ELSE state.end
           other == IF i = START_INDEX THEN END_INDEX ELSE START_INDEX
           decided == IF now < trigger[i] THEN trigger[i] ELSE now
<1>2. now \in Nat /\ trigger \in [{START_INDEX, END_INDEX} -> Nat] /\ day \in Nat \ {0} /\ LATE \in Nat
      /\ EARLY \in Nat /\ MINUTE_TO_SECOND \in Nat /\ LATE + EARLY < MINUTE_TO_SECOND
      /\ trigger' \in [{START_INDEX, END_INDEX} -> Nat]
  BY TypeParts, ConstantTypes, DayType, DarkModeScheduleAssumption, ScheduleTimeAssumption
     DEF Decided, TypeInv, TypeOK
<1>3. trigger' = [trigger EXCEPT ![i] = @ + (missed + 1) * day] /\ trigger[i] - EARLY <= now
      /\ trigger[i] # NoTrigger
  BY <1>2 DEF TimerCallback, TimerDue
<1>4. missed \in Nat /\ (missed + 1) * day \in Nat
  <2>1. ASSUME NEW d \in Nat \ {0}, NEW x \in Nat PROVE x \div d \in Nat
    BY <2>1
  <2>2. ASSUME NEW d \in Nat, NEW x \in Nat PROVE (x + 1) * d \in Nat
    BY <2>2
  <2>3. ~(now < trigger[i]) => now - trigger[i] \in Nat
    BY <1>2
  <2>4. missed \in Nat
    <3> HIDE DEF day
    <3> QED
      BY <1>2, <2>1, <2>3
  <2> HIDE DEF missed, day
  <2> QED
    BY <1>2, <2>2, <2>4
<1>5. trigger'[i] # NoTrigger /\ trigger'[other] = trigger[other] /\ other \in {START_INDEX, END_INDEX} \ {i}
      /\ trigger'[i] = trigger[i] + (missed + 1) * day
  <2> HIDE DEF missed, day
  <2> QED
    BY <1>2, <1>3, <1>4 DEF NoTrigger, START_INDEX, END_INDEX
<1>6. trigger'[START_INDEX] # NoTrigger /\ trigger'[END_INDEX] # NoTrigger
  BY <1>1, <1>5 DEF ScheduleInv
<1>7. CASE timeChanged
  BY <1>1, <1>6, <1>7 DEF ScheduleInv
<1>8. CASE ~timeChanged
  <2>1. Armed(i, minute) /\ Armed(other, IF i = START_INDEX THEN state.end ELSE state.start)
    BY <1>1, <1>8 DEF ScheduleInv, START_INDEX, END_INDEX
  <2>2. LATE < day
    <3>1. LATE < MINUTE_TO_SECOND /\ MINUTE_TO_SECOND \in Nat /\ DAY_TO_MINUTE \in Nat
          /\ DAY_TO_MINUTE > 1
      BY <1>2, DarkModeScheduleAssumption, ScheduleTimeAssumption
    <3>2. ASSUME NEW m \in Nat, NEW n \in Nat, n > 1 PROVE m <= n * m
      BY <3>2, Z3T(30)
    <3>3. MINUTE_TO_SECOND <= day
      BY <3>1, <3>2 DEF DAY_TO_SECOND
    <3> QED
      BY <1>2, <3>1, <3>3
  <2>3. missed = 0
    <3>1. ~(now < trigger[i]) => now - trigger[i] \in 0 .. day - 1
      BY <1>2, <1>3, <2>1, <2>2 DEF Armed
    <3>2. ASSUME NEW d \in Nat \ {0}, NEW x \in 0 .. d - 1 PROVE x \div d = 0
      BY <3>2
    <3> HIDE DEF day
    <3> QED
      BY <1>2, <3>1, <3>2
  <2>4. trigger'[i] = trigger[i] + day
    <3> HIDE DEF missed, day
    <3> QED
      BY <1>2, <1>5, <2>3
  <2>5. SecondOfDay(trigger'[i]) = SecondOfDay(trigger[i])
    BY <1>2, <2>4, NextDay
  <2>6. Armed(i, minute)' /\ Armed(other, IF i = START_INDEX THEN state.end ELSE state.start)'
    BY <1>1, <1>2, <1>3, <1>5, <2>1, <2>2, <2>4, <2>5 DEF Armed
  <2>7. Armed(START_INDEX, state.start)' /\ Armed(END_INDEX, state.end)'
    BY <1>1, <2>6 DEF START_INDEX, END_INDEX
  <2>8. /\ state \in States /\ state.start \in 0 .. UINT64_MODULUS - 1
        /\ state.end \in 0 .. UINT64_MODULUS - 1 /\ IsValidScheduleTime(state.start, state.end)
        /\ EARLY = 0 \/ state.start # 0
    <3>1. state \in States /\ state.start \in 0 .. UINT64_MODULUS - 1
          /\ state.end \in 0 .. UINT64_MODULUS - 1 /\ IsValidScheduleTime(state.start, state.end)
      BY <1>1, TypeParts, TimesInRange DEF InForce, TimersInTolerance
    <3>2. state.start = 0 => 0 \in Starts
      BY <3>1 DEF States
    <3> QED
      BY <3>1, <3>2 DEF TimersInTolerance
  <2>9. minute \in Int /\ SecondOfDay(trigger[i]) = SecondOfDay(minute * MINUTE_TO_SECOND)
    BY <2>1, <2>8, ScheduleTimeAssumption DEF Armed
  <2>10. CheckCurrentTimeInDarkInterval(state.start, state.end, now)
            = IsWithinTimeInterval(state.start, state.end, decided)
    <3>1. now \in Int /\ trigger[i] \in Int /\ now <= trigger[i] + LATE
      BY <1>2, <2>1 DEF Armed
    <3>2. CheckCurrentTimeInDarkInterval(state.start, state.end, now)
            <=> IsWithinTimeInterval(state.start, state.end, decided)
      <4> HIDE DEF minute
      <4> QED
        BY <1>3, <2>8, <2>9, <3>1, CallbackDecision DEF TimersInTolerance
    <3>3. CheckCurrentTimeInDarkInterval(state.start, state.end, now) \in BOOLEAN
      BY DEF CheckCurrentTimeInDarkInterval
    <3> QED
      BY <3>2, <3>3, WithinIsBoolean
  \* The boundary that was due is behind, the other one less than a day ahead.
  <2>11. ASSUME NoneDue'
         PROVE  \A j \in {START_INDEX, END_INDEX} :
                    decided < trigger'[j] /\ trigger'[j] <= decided + day
    <3>1. decided \in Int /\ trigger[i] <= decided /\ now <= decided /\ decided <= now + EARLY
          /\ decided <= trigger[i] + LATE
      BY <1>2, <1>3, <2>1 DEF Armed
    <3>2. decided < trigger'[i] /\ trigger'[i] <= decided + day
      <4> HIDE DEF decided, day
      <4> QED
        BY <1>2, <2>2, <2>4, <3>1
    <3>3. decided < trigger'[other]
      <4>1. now + EARLY < trigger'[other]
        BY <1>1, <2>11 DEF NoneDue
      <4> HIDE DEF decided
      <4> QED
        BY <1>2, <1>5, <3>1, <4>1
    <3>4. trigger'[other] <= decided + day
      <4> SUFFICES ASSUME decided + day < trigger'[other] PROVE FALSE
        <5> HIDE DEF decided, day
        <5> QED
          BY <1>2, <1>5, <3>1
      <4> DEFINE a == trigger'[i]
                 b == trigger'[other]
                 x == minute
                 y == IF i = START_INDEX THEN state.end ELSE state.start
      <4>1. a \in Int /\ b \in Int /\ x \in Int /\ y \in Int
        BY <1>2, <1>5, <2>8
      <4>2. SecondOfDay(a) = SecondOfDay(x * MINUTE_TO_SECOND)
            /\ SecondOfDay(b) = SecondOfDay(y * MINUTE_TO_SECOND)
        BY <1>5, <2>1, <2>5, <2>9 DEF Armed
      <4>3. a = trigger[i] + day /\ b <= now + EARLY + day /\ decided + day < b
        BY <1>5, <2>1, <2>4 DEF Armed
      <4> HIDE DEF a, b, x, y, decided, day, other
      <4>4. a < b
        BY <1>2, <3>1, <4>1, <4>3
      <4>5. a + MINUTE_TO_SECOND <= b
        BY <4>1, <4>2, <4>4, MinutesApart
      <4>6. b <= a + LATE + EARLY
        BY <1>2, <2>1, <4>1, <4>3 DEF Armed
      <4> QED
        BY <1>2, <4>1, <4>5, <4>6
    <3> QED
      BY <1>5, <3>2, <3>3, <3>4 DEF START_INDEX, END_INDEX
  <2>12. ASSUME NoneDue', Follows'
         PROVE  DecidedDark' = (trigger'[END_INDEX] < trigger'[START_INDEX])
    <3>1. CheckTimerCallbackParams
      BY <1>1 DEF CheckTimerCallbackParams, ScheduleInv, InForce
    <3>2. DecidedDark' = IsWithinTimeInterval(state.start, state.end, decided)
      <4>1. CheckCurrentTimeInDarkInterval(state.start, state.end, now) \in BOOLEAN
        BY <2>10, WithinIsBoolean
      <4>2. DecidedDark' = CheckCurrentTimeInDarkInterval(state.start, state.end, now)
        BY <2>12, <3>1, <4>1, DecisionFollows DEF TimerCallback
      <4> QED
        BY <2>10, <4>2
    <3>3. trigger'[END_INDEX] < trigger'[START_INDEX] <=>
            IsWithinTimeInterval(state.start, state.end, decided)
      <4>1. decided \in Int /\ trigger'[START_INDEX] \in Int /\ trigger'[END_INDEX] \in Int
        BY <1>2
      <4>2. /\ SecondOfDay(trigger'[START_INDEX]) = SecondOfDay(state.start * MINUTE_TO_SECOND)
            /\ SecondOfDay(trigger'[END_INDEX]) = SecondOfDay(state.end * MINUTE_TO_SECOND)
        BY <1>1, <2>7 DEF Armed
      <4> HIDE DEF decided
      <4> QED
        BY <2>8, <2>11, <2>12, <4>1, <4>2, OrderMeansDark
    <3> QED
      BY <3>2, <3>3, WithinIsBoolean
  <2> QED
    BY <1>1, <1>6, <2>7, <2>12 DEF ScheduleInv
<1> QED
  BY <1>7, <1>8

LEMMA RestartSchedule ==
    ASSUME TimersInTolerance, TypeInv, TypeInv', ScheduleInv, RestartTimer
    PROVE  ScheduleInv'
<1> SUFFICES ASSUME InForce' PROVE ScheduleInv'
  BY DEF ScheduleInv
<1>1. now' = now /\ timerParams' = timerParams /\ state' = state /\ InForce
  BY DEF RestartTimer, InForce
<1>2. /\ UpdateDarkModeSchedule(IsWithinTimeInterval(state.start, state.end, now), FALSE, FALSE, Held)
      /\ RestartAllTimer
  BY <1>1 DEF RestartTimer, InForce
<1>3. timerParams = << state.start, state.end >> /\ trigger # NoTimers
  BY <1>1 DEF ScheduleInv, NoTimers, NoTrigger
<1>4. Follows' => DecidedDark' = IsWithinTimeInterval(state'.start, state'.end, now)
  BY <1>1, <1>2, DecisionFollows, WithinIsBoolean
<1> DEFINE pair == SetTimerTriggerTime(state'.start, state'.end, now)
<1>5. trigger' = [i \in {START_INDEX, END_INDEX} |-> pair[i]]
  BY <1>1, <1>2, <1>3 DEF RestartAllTimer
<1> HIDE DEF pair
<1>6. pair = SetTimerTriggerTime(state'.start, state'.end, now)
  BY DEF pair
<1> QED
  BY <1>1, <1>3, <1>4, <1>5, <1>6, NewlyArmed

LEMMA ChoiceSchedule ==
    ASSUME TimersInTolerance, TypeInv, ScheduleInv, SetDarkMode
    PROVE  ScheduleInv'
<1> SUFFICES ASSUME InForce' PROVE ScheduleInv'
  BY DEF ScheduleInv
<1>1. UNCHANGED << now, state, trigger, timerParams, timeChanged >> /\ InForce
      /\ dark' = ~dark /\ DoSwitchTemporaryColorMode(~dark) /\ choice' # "OVER"
  BY DEF SetDarkMode, InForce
<1>2. screenOffOperator' = "NONE"
      /\ IF IsWithinTimeInterval(state.start, state.end, now) = ~dark
         THEN SetColorModeNormal ELSE SetColorModeTemporary(state)
  BY <1>1 DEF DoSwitchTemporaryColorMode, ResetScreenOffOperateInfo, InForce
<1>3. ASSUME ~timeChanged, NoneDue, Follows'
      PROVE  DecidedDark' = (trigger[END_INDEX] < trigger[START_INDEX])
  <2>1. ~IsTemporary(temp') /\ EARLY = 0
    BY <1>1, <1>2, <1>3 DEF Follows
  <2>2. IsWithinTimeInterval(state.start, state.end, now) = ~dark
    BY <1>2, <2>1 DEF SetColorModeTemporary, SaveTempColorModeInfo, IsTemporary
  <2>3. DecidedDark' = ~dark
    BY <1>1, <1>2 DEF DecidedDark
  <2>4. now + EARLY = now
    BY <2>1, TypeParts, ConstantTypes
  <2> QED
    BY <1>1, <1>3, <2>2, <2>3, <2>4, OrderIsSchedule, WithinIsBoolean
<1> QED
  BY <1>1, <1>3 DEF ScheduleInv, Armed, NoneDue

LEMMA NextSchedule == TimersInTolerance /\ TypeInv /\ ScheduleInv /\ [Next]_vars => ScheduleInv'
<1> SUFFICES ASSUME TimersInTolerance, TypeInv, ScheduleInv, [Next]_vars PROVE ScheduleInv'
  OBVIOUS
<1>1. TypeInv'
  BY NextType
<1>2. now \in Nat /\ now' \in Nat /\ trigger \in [{START_INDEX, END_INDEX} -> Nat] /\ LATE \in Nat
      /\ DAY_TO_SECOND \in Nat /\ EARLY \in Nat
  BY <1>1, ConstantTypes, DayType, DarkModeScheduleAssumption DEF TypeInv, TypeOK
<1>3. ASSUME UNCHANGED << now, state, trigger, timerParams, timeChanged >>,
             Follows' => Follows /\ DecidedDark' = DecidedDark
      PROVE  ScheduleInv'
  BY <1>3 DEF ScheduleInv, InForce, Armed, NoneDue
<1>4. ASSUME UNCHANGED << now, state, trigger, timerParams, timeChanged,
                          screenOffOperator, temp, dark, choice >>
      PROVE  ScheduleInv'
  BY <1>3, <1>4 DEF Follows, DecidedDark
<1>5. CASE Tick
  <2>1. UNCHANGED << state, trigger, timerParams, timeChanged, screenOffOperator, temp, dark, choice >>
        /\ now' = now + 1
        /\ \A i \in {START_INDEX, END_INDEX} : trigger[i] # NoTrigger => now < trigger[i] + LATE
    BY <1>5 DEF Tick
  <2>2. Follows' = Follows /\ DecidedDark' = DecidedDark /\ (NoneDue' => NoneDue)
    BY <1>2, <2>1 DEF Follows, DecidedDark, NoneDue
  <2>3. ASSUME NEW i \in {START_INDEX, END_INDEX}, NEW minute, Armed(i, minute), trigger[i] # NoTrigger
        PROVE  /\ now' <= trigger'[i] + LATE /\ trigger'[i] <= now' + EARLY + DAY_TO_SECOND
               /\ SecondOfDay(trigger'[i]) = SecondOfDay(minute * MINUTE_TO_SECOND)
    BY <1>2, <2>1, <2>3 DEF Armed
  <2> QED
    BY <2>1, <2>2, <2>3 DEF ScheduleInv, InForce, Armed
<1>6. CASE SetClock
  BY <1>6 DEF SetClock, ScheduleInv, InForce
<1>7. ASSUME NEW key, NEW value, WriteSetting(key, value) PROVE ScheduleInv'
  BY <1>4, <1>7 DEF WriteSetting
<1>8. ASSUME NEW key \in Keys, SettingDataUpdateFunc(key) PROVE ScheduleInv'
  BY <1>1, <1>8, StateChangeSchedule DEF SettingDataUpdateFunc
<1>9. CASE \E i \in {START_INDEX, END_INDEX} : TimerCallback(i)
  BY <1>1, <1>9, CallbackSchedule
<1>10. CASE RestartTimer
  BY <1>1, <1>10, RestartSchedule
<1>11. CASE ScreenOnCallback
  BY <1>4, <1>11 DEF ScreenOnCallback
<1>12. CASE ScreenOffCallback
  <2>1. UNCHANGED << now, state, trigger, timerParams, timeChanged >>
    BY <1>12 DEF ScreenOffCallback
  <2>2. CASE screenOffOperator = "NONE"
    BY <1>4, <1>12, <2>1, <2>2 DEF ScreenOffCallback
  <2>3. CASE screenOffOperator # "NONE"
    <3>1. dark' = (screenOffOperator = "SWITCH_TO_DARK") /\ screenOffOperator' = "NONE"
      BY <1>12, <2>3 DEF ScreenOffCallback, OnChangeDarkMode, ResetScreenOffOperateInfo
    <3>2. DecidedDark' = DecidedDark /\ (Follows' => Follows)
      BY <1>12, <2>3, <3>1 DEF DecidedDark, Follows, ScreenOffCallback
    <3> QED
      BY <1>3, <2>1, <3>2
  <2> QED
    BY <2>2, <2>3
<1>13. CASE SetDarkMode
  BY <1>13, ChoiceSchedule
<1>14. CASE OnSwitchContext
  BY <1>4, <1>14 DEF OnSwitchContext
<1>15. CASE LoadUserSettingData
  <2>1. OnStateChangeLocked(state', FALSE, TRUE, << RestoredInfo, RestoredInfo >>, "NONE") /\ now' = now
    BY <1>15 DEF LoadUserSettingData
  <2> QED
    BY <1>1, <2>1, StateChangeSchedule
<1>16. CASE Crash
  BY <1>16 DEF Crash, ScheduleInv, InForce, UnsetState
<1>17. CASE UNCHANGED vars
  BY <1>4, <1>17 DEF vars
<1> QED
  BY <1>5, <1>6, <1>7, <1>8, <1>9, <1>10, <1>11, <1>12, <1>13, <1>14, <1>15, <1>16, <1>17
     DEF Next

LEMMA SpecSchedule == ASSUME TimersInTolerance PROVE Spec => []ScheduleInv
<1>1. Init => ScheduleInv
  BY DEF Init, ScheduleInv, InForce, UnsetState
<1>2. TypeInv /\ ScheduleInv /\ [Next]_vars => ScheduleInv'
  BY NextSchedule
<1> QED
  BY <1>1, <1>2, SpecTypeInv, PTL DEF Spec

\* With timers late by less than a minute and the tolerance, and early by less than
\* the tolerance unless an interval may start at 0:00, a schedule that no manual
\* choice overrides has the colour it prescribes, or that switch queued, whenever
\* nothing is under way: through clock changes, changes of the settings, screen
\* events, crashes and any length of the day.
THEOREM ColorFollowsScheduleHolds == ASSUME TimersInTolerance PROVE Spec => []ColorFollowsSchedule
<1>1. TypeInv /\ ScheduleInv => ColorFollowsSchedule
  <2> SUFFICES ASSUME TypeInv, ScheduleInv, Settled, ScheduleInForce, IsColorModeNormal,
                      EARLY = 0 \/ choice = "OVER"
               PROVE  \E ahead \in 0 .. EARLY :
                         DecidedDark = InDarkInterval(state.start, state.end, now + ahead)
    BY DEF ColorFollowsSchedule
  <2>1. InForce /\ Follows /\ ~timeChanged
    BY DEF Settled, ScheduleInForce, IsColorModeNormal, InForce, Follows
  <2>2. EARLY \in Nat /\ now \in Int /\ now + EARLY \in Int
        /\ trigger \in [{START_INDEX, END_INDEX} -> Nat]
    <3>1. now \in Int /\ trigger \in [{START_INDEX, END_INDEX} -> Nat]
      BY TypeParts, ConstantTypes DEF Decided
    <3>2. EARLY \in Nat
      BY DarkModeScheduleAssumption
    <3> QED
      BY <3>1, <3>2
  <2>3. NoneDue
    BY <2>1, <2>2 DEF NoneDue, Settled, TimerDue, ScheduleInv
  <2>4. /\ trigger[END_INDEX] < trigger[START_INDEX] <=>
             IsWithinTimeInterval(state.start, state.end, now + EARLY)
        /\ state.start \in 0 .. UINT64_MODULUS - 1 /\ state.end \in 0 .. UINT64_MODULUS - 1
    BY <2>1, <2>3, OrderIsSchedule
  <2>5. IsWithinTimeInterval(state.start, state.end, now + EARLY)
          <=> InDarkInterval(state.start, state.end, now + EARLY)
    BY <2>1, <2>2, <2>4, WithinMeansDark DEF InForce
  <2>6. DecidedDark = (trigger[END_INDEX] < trigger[START_INDEX])
    BY <2>1, <2>3 DEF ScheduleInv
  <2>7. DecidedDark = InDarkInterval(state.start, state.end, now + EARLY)
    <3>1. InDarkInterval(state.start, state.end, now + EARLY) \in BOOLEAN
      BY DEF InDarkInterval
    <3> QED
      BY <2>4, <2>5, <2>6, <3>1
  <2>8. EARLY \in 0 .. EARLY
    BY <2>2
  <2> QED
    BY <2>7, <2>8
<1> QED
  BY <1>1, SpecTypeInv, SpecSchedule, PTL

-----------------------------------------------------------------------------
(* How long a manual choice lasts                                          *)

\* If the settings are int32, a manual choice that departs from the schedule lasts
\* to the end of the next phase, for every schedule, moment and length of the day,
\* but for one made in the first minute of an interval that ends tomorrow
\* (SetColorModeTemporary, GetTempColorModeTimeInfo).
THEOREM OverrideWindowAheadHolds == ASSUME SmallTimes PROVE Spec => OverrideWindowAhead
<1> DEFINE minute == IF InDarkInterval(state.start, state.end, now) THEN state.start ELSE state.end
<1>1. ASSUME TypeInv, SetDarkMode, ScheduleInForce, temp'.type = "Temp",
             state.end <= DAY_TO_MINUTE \/ MinuteOfDay(now) # state.start
      PROVE  temp'.keepEnd + 1 = NextBegin(minute, now)
  <2>1. now \in Int /\ state \in States /\ IsValidScheduleTime(state.start, state.end)
    BY <1>1, TypeParts, ConstantTypes DEF ScheduleInForce
  <2>2. state.start \in 0 .. UINT64_MODULUS - 1 /\ state.end \in 0 .. UINT64_MODULUS - 1
    BY <2>1, TimesInRange
  <2>3. SetColorModeTemporary(state)
    <3>1. SetColorModeNormal \/ SetColorModeTemporary(state)
      BY <1>1 DEF SetDarkMode, DoSwitchTemporaryColorMode, ScheduleInForce
    <3>2. ~SetColorModeNormal
      BY <1>1 DEF SetColorModeNormal, SaveTempColorModeInfo, NormalInfo
    <3> QED
      BY <3>1, <3>2
  <2>4. temp'.keepEnd = GetTempColorModeTimeInfo(state.start, state.end, now).keepEnd
    BY <2>3 DEF SetColorModeTemporary, SaveTempColorModeInfo
  <2>5. GetTempColorModeTimeInfo(state.start, state.end, now).keepEnd + 1
            = NextBegin(IF IsWithinTimeInterval(state.start, state.end, now)
                        THEN state.start ELSE state.end, now)
    BY <1>1, <2>1, <2>2, WindowLasts
  <2>6. IsWithinTimeInterval(state.start, state.end, now) <=> InDarkInterval(state.start, state.end, now)
    BY <2>1, <2>2, WithinMeansDark
  <2> QED
    BY <2>4, <2>5, <2>6
<1>2. TypeInv /\ [Next]_vars =>
        [(/\ SetDarkMode /\ ScheduleInForce /\ temp'.type = "Temp"
          /\ state.end <= DAY_TO_MINUTE \/ MinuteOfDay(now) # state.start) =>
            temp'.keepEnd + 1 = NextBegin(minute, now)]_vars
  BY <1>1
<1> QED
  BY <1>2, SpecTypeInv, PTL DEF Spec, OverrideWindowAhead
=============================================================================
