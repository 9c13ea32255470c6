-------------------------- MODULE DarkModeSchedule --------------------------
(***************************************************************************)
(* One account and one clock: how DarkModeManager, TemporaryColorMode-     *)
(* Manager, ScreenSwitchOperatorManager and the account's pair of timers   *)
(* together decide the colour of the system as time passes.                *)
(*                                                                         *)
(* Every handler (observer callback, timer callback, common event, IPC) is *)
(* one atomic action: how their lock sections interleave is not this       *)
(* module's subject.  What it keeps is time:                               *)
(* the wall clock, timers that are a little early or late, clock changes,  *)
(* and crashes of the service.                                             *)
(***************************************************************************)
EXTENDS ScheduleTime, FiniteSets

CONSTANTS
    Modes,              \* the setting values the user writes, a subset of ModeValues
    Starts, Ends,       \* the values of the two time settings, -1 is "unset"
    Clock,              \* the wall-clock moments, an interval of seconds
    Jumps,              \* the moments the clock may be set to
    EARLY,              \* how early the time service may deliver a timer
    LATE,               \* how late it may deliver one
    AllowCrash          \* whether the service may die

ModeValues == {"INVALID", "ALWAYS_LIGHT", "ALWAYS_DARK", "CUSTOM_AUTO"}
Keys == {"mode", "start", "end"}
START_INDEX == 1
END_INDEX == 2
NoTrigger == 0

ASSUME DarkModeScheduleAssumption ==
    /\ Modes \subseteq ModeValues
    /\ Starts \subseteq ({-1} \cup Nat) /\ Starts # {}
    /\ Ends \subseteq ({-1} \cup Nat) /\ Ends # {}
    /\ Clock \subseteq Nat \ (0 .. DAY_TO_SECOND - 1)
    /\ Jumps \subseteq Clock
    /\ EARLY \in Nat /\ (EARLY = 0 \/ EARLY < OFFSET_SECONDS)
    /\ LATE \in Nat /\ LATE + OFFSET_SECONDS < MINUTE_TO_SECOND
    /\ AllowCrash \in BOOLEAN

VARIABLES
    now,            \* the wall clock
    store,          \* the settings table: mode, start, end
    dirty,          \* keys whose change notification is still to be delivered
    phase,          \* "down", then "registered" (OnSwitchContext), then "loaded"
    state,          \* darkModeStates_[context]: mode, start, end
    trigger,        \* when the start and the end timer go off next
    timerParams,    \* the start and end captured by the timers' callback
    timeChanged,    \* a TIME_CHANGED event is still to be delivered
    screenOff,      \* screenSwitch_ == SCREEN_OFF
    screenOffOperator,  \* the switch queued for the next screen-off
    temp,           \* multiUserTempColorModeMap_[context], the temporary colour mode
    tempParam,      \* the same, as persisted
    dark,           \* usersParam_[context].darkMode, the colour in force
    choice          \* history: the user's last choice, or "OVER" once the
                    \* schedule decided outside the window of that choice

vars == << now, store, dirty, phase, state, trigger, timerParams, timeChanged,
           screenOff, screenOffOperator, temp, tempParam, dark, choice >>

UnsetState == [mode |-> "INVALID", start |-> -1, end |-> -1]
NormalInfo == [type |-> "Normal", keepStart |-> 0, keepEnd |-> 0]
NoTimers == [i \in {START_INDEX, END_INDEX} |-> NoTrigger]

TypeOK ==
    /\ now \in Clock
    /\ store \in [mode : ModeValues, start : Starts, end : Ends]
    /\ dirty \subseteq Keys
    /\ phase \in {"down", "registered", "loaded"}
    /\ state \in [mode : ModeValues, start : Starts \cup {-1}, end : Ends \cup {-1}]
    /\ trigger \in [{START_INDEX, END_INDEX} -> Nat]
    /\ timerParams \in (Starts \cup {-1}) \X (Ends \cup {-1})
    /\ timeChanged \in BOOLEAN
    /\ screenOff \in BOOLEAN
    /\ screenOffOperator \in {"NONE", "SWITCH_TO_LIGHT", "SWITCH_TO_DARK"}
    /\ {temp, tempParam} \subseteq [type : {"Normal", "Temp"}, keepStart : Nat, keepEnd : Int]
    /\ dark \in BOOLEAN
    /\ choice \in {"LIGHT", "DARK", "OVER"}

-----------------------------------------------------------------------------
(* TemporaryColorModeManager and ScreenSwitchOperatorManager               *)

IsTemporary(info) == info.type = "Temp"
IsColorModeNormal == ~IsTemporary(temp)
Effective(info) == IsTemporary(info) /\ TempStateNoTimeout(info, now)
CheckTemporaryStateEffective == Effective(temp)

SaveTempColorModeInfo(info) == temp' = info /\ tempParam' = info

SetColorModeTemporary(s) ==
    LET window == GetTempColorModeTimeInfo(s.start, s.end, now)
    IN  SaveTempColorModeInfo([type |-> "Temp", keepStart |-> window.keepStart,
                                                keepEnd |-> window.keepEnd])
SetColorModeNormal == SaveTempColorModeInfo(NormalInfo)

ResetScreenOffOperateInfo == screenOffOperator' = "NONE"

SetScreenOffOperateInfo(toDark) ==
    screenOffOperator' = IF toDark THEN "SWITCH_TO_DARK" ELSE "SWITCH_TO_LIGHT"

-----------------------------------------------------------------------------
(* The common path of DarkModeManager                                      *)

\* The temporary colour mode in memory and as persisted, when a handler enters.
Held == << temp, tempParam >>

\* History only: a decision before or after the window ends the choice.
ChoiceAfterDecision(info) == choice' = IF Effective(info) THEN choice ELSE "OVER"

\* updateCallback_ sets the colour; a manual choice held in memory is over.
OnChangeDarkMode(toDark, held) ==
    /\ dark' = toDark
    /\ IF IsTemporary(held[1]) THEN SetColorModeNormal
       ELSE temp' = held[1] /\ tempParam' = held[2]

KeepsTemporary(resetTempColorMode, info) == ~resetTempColorMode /\ Effective(info)

SwitchesNow(resetTempColorMode, bootLoad, info) ==
    resetTempColorMode \/ (~Effective(info) /\ (screenOff \/ bootLoad))

\* A mutant: a switch that was queued before stays queued.
UpdateDarkModeSchedule_KeepsQueue(toDark, resetTempColorMode, bootLoad, held) ==
    LET atOnce == SwitchesNow(resetTempColorMode, bootLoad, held[1])
        keep == KeepsTemporary(resetTempColorMode, held[1])
    IN  /\ ChoiceAfterDecision(held[1])
        /\ IF atOnce \/ keep THEN UNCHANGED screenOffOperator ELSE SetScreenOffOperateInfo(toDark)
        /\ IF atOnce THEN OnChangeDarkMode(toDark, held)
           ELSE temp' = held[1] /\ tempParam' = held[2] /\ UNCHANGED dark

\* A temporary state still in its window survives all but a setting change;
\* otherwise the colour changes now or waits for the screen to go off.
UpdateDarkModeSchedule(toDark, resetTempColorMode, bootLoad, held) ==
    LET atOnce == SwitchesNow(resetTempColorMode, bootLoad, held[1])
        keep == KeepsTemporary(resetTempColorMode, held[1])
    IN  /\ ChoiceAfterDecision(held[1])
        /\ IF atOnce \/ keep THEN ResetScreenOffOperateInfo ELSE SetScreenOffOperateInfo(toDark)
        /\ IF atOnce THEN OnChangeDarkMode(toDark, held)
           ELSE temp' = held[1] /\ tempParam' = held[2] /\ UNCHANGED dark

ClearTimerByUserId == trigger' = NoTimers /\ UNCHANGED timerParams

\* SetScheduleTime with callbacks that captured s.start and s.end.
SetScheduleTime(s) ==
    LET t == SetTimerTriggerTime(s.start, s.end, now)
    IN  /\ trigger' = [i \in {START_INDEX, END_INDEX} |-> t[i]]
        /\ timerParams' = << s.start, s.end >>

\* With the new in-memory state s; creating timers is taken to succeed here.
OnStateChangeLocked(s, resetTempColorMode, bootLoad, held, pending) ==
    CASE s.mode \in {"ALWAYS_LIGHT", "ALWAYS_DARK"} ->
            /\ ClearTimerByUserId
            /\ UpdateDarkModeSchedule(s.mode = "ALWAYS_DARK", resetTempColorMode, bootLoad, held)
      [] s.mode = "CUSTOM_AUTO" /\ IsValidScheduleTime(s.start, s.end) ->
            /\ SetScheduleTime(s)
            /\ UpdateDarkModeSchedule(IsWithinTimeInterval(s.start, s.end, now),
                                      resetTempColorMode, bootLoad, held)
      [] s.mode = "CUSTOM_AUTO" /\ ~IsValidScheduleTime(s.start, s.end) ->
            /\ ClearTimerByUserId
            /\ temp' = held[1] /\ tempParam' = held[2] /\ screenOffOperator' = pending
            /\ UNCHANGED << dark, choice >>
      [] OTHER ->
            /\ temp' = held[1] /\ tempParam' = held[2] /\ screenOffOperator' = pending
            /\ UNCHANGED << trigger, timerParams, dark, choice >>

-----------------------------------------------------------------------------
(* The environment: clock, settings application, power key                 *)

TimerDue(i) == trigger[i] # NoTrigger /\ trigger[i] - EARLY <= now

\* Time passes, but a timer is never more than LATE seconds overdue.
Tick ==
    /\ now + 1 \in Clock
    /\ \A i \in {START_INDEX, END_INDEX} : trigger[i] # NoTrigger => now < trigger[i] + LATE
    /\ now' = now + 1
    /\ UNCHANGED << store, dirty, phase, state, trigger, timerParams, timeChanged,
                    screenOff, screenOffOperator, temp, tempParam, dark, choice >>

\* The user or the network sets the clock; the system announces it.
SetClock ==
    /\ now' \in Jumps \ {now}
    /\ timeChanged' = TRUE
    /\ UNCHANGED << store, dirty, phase, state, trigger, timerParams,
                    screenOff, screenOffOperator, temp, tempParam, dark, choice >>

\* The settings application writes one key; its observer is told later.
WriteSetting(key, value) ==
    /\ store[key] # value
    /\ store' = [store EXCEPT ![key] = value]
    /\ dirty' = IF phase # "down" THEN dirty \cup {key} ELSE dirty
    /\ UNCHANGED << now, phase, state, trigger, timerParams, timeChanged,
                    screenOff, screenOffOperator, temp, tempParam, dark, choice >>

-----------------------------------------------------------------------------
(* The handlers                                                            *)

\* A mutant: a manual choice survives a change of the settings.
SettingDataUpdateFunc_KeepsOverride(key) ==
    /\ key \in dirty
    /\ dirty' = dirty \ {key}
    /\ state' = [state EXCEPT ![key] = store[key]]
    /\ OnStateChangeLocked(state', FALSE, FALSE, Held, screenOffOperator)
    /\ UNCHANGED << now, store, phase, timeChanged, screenOff >>

\* A mutant: the start observer stores the end time.
SettingDataUpdateFunc_WrongKey(key) ==
    /\ key \in dirty
    /\ dirty' = dirty \ {key}
    /\ state' = [state EXCEPT ![key] = IF key = "start" THEN store.end ELSE store[key]]
    /\ OnStateChangeLocked(state', TRUE, FALSE, Held, screenOffOperator)
    /\ UNCHANGED << now, store, phase, timeChanged, screenOff >>

\* SettingDataDarkMode{Mode,StartTime,EndTime}UpdateFunc
SettingDataUpdateFunc(key) ==
    /\ key \in dirty
    /\ dirty' = dirty \ {key}
    /\ state' = [state EXCEPT ![key] = store[key]]
    /\ OnStateChangeLocked(state', TRUE, FALSE, Held, screenOffOperator)
    /\ UNCHANGED << now, store, phase, timeChanged, screenOff >>

CheckTimerCallbackParams ==
    /\ state.mode = "CUSTOM_AUTO"
    /\ << state.start, state.end >> = timerParams

\* The time service delivers a repeating timer and arms it a day later.
TimerCallback(i) ==
    LET day == DAY_TO_SECOND
        missed == IF now < trigger[i] THEN 0 ELSE (now - trigger[i]) \div day
    IN  /\ TimerDue(i)
        /\ trigger' = [trigger EXCEPT ![i] = @ + (missed + 1) * day]
        /\ IF CheckTimerCallbackParams
           THEN UpdateDarkModeSchedule(
                  CheckCurrentTimeInDarkInterval(state.start, state.end, now), FALSE, FALSE, Held)
           ELSE UNCHANGED << dark, temp, tempParam, screenOffOperator, choice >>
        /\ UNCHANGED << now, store, dirty, phase, state, timerParams, timeChanged, screenOff >>

\* A mutant: the timers keep their old moments.
RestartAllTimer_NoOp == UNCHANGED trigger

\* RestartAllTimer: both timers of the recorded schedule, if there are any.
RestartAllTimer ==
    IF trigger = NoTimers THEN UNCHANGED trigger
    ELSE LET t == SetTimerTriggerTime(timerParams[1], timerParams[2], now)
         IN  trigger' = [i \in {START_INDEX, END_INDEX} |-> t[i]]

\* TIME_CHANGED or TIMEZONE_CHANGED
RestartTimer ==
    /\ timeChanged
    /\ timeChanged' = FALSE
    /\ IF state.mode = "CUSTOM_AUTO"
       THEN /\ UpdateDarkModeSchedule(IsWithinTimeInterval(state.start, state.end, now), FALSE, FALSE, Held)
            /\ RestartAllTimer
       ELSE UNCHANGED << trigger, dark, temp, tempParam, screenOffOperator, choice >>
    /\ UNCHANGED << now, store, dirty, phase, state, timerParams, screenOff >>

ScreenOnCallback ==
    /\ screenOff' = FALSE
    /\ UNCHANGED << now, store, dirty, phase, state, trigger, timerParams, timeChanged,
                    screenOffOperator, temp, tempParam, dark, choice >>

ScreenOffCallback ==
    /\ screenOff' = TRUE
    /\ IF screenOffOperator # "NONE"
       THEN OnChangeDarkMode(screenOffOperator = "SWITCH_TO_DARK", Held) /\ ResetScreenOffOperateInfo
       ELSE UNCHANGED << dark, temp, tempParam, screenOffOperator >>
    /\ UNCHANGED << now, store, dirty, phase, state, trigger, timerParams, timeChanged, choice >>

\* A mutant: a switch queued before the manual choice stays queued.
DoSwitchTemporaryColorMode_KeepsQueue(toDark) ==
    /\ UNCHANGED screenOffOperator
    /\ IF state.mode = "CUSTOM_AUTO"
       THEN IF IsWithinTimeInterval(state.start, state.end, now) = toDark
            THEN SetColorModeNormal ELSE SetColorModeTemporary(state)
       ELSE UNCHANGED << temp, tempParam >>

DoSwitchTemporaryColorMode(toDark) ==
    IF state.mode = "CUSTOM_AUTO"
    THEN /\ ResetScreenOffOperateInfo
         /\ IF IsWithinTimeInterval(state.start, state.end, now) = toDark
            THEN SetColorModeNormal ELSE SetColorModeTemporary(state)
    ELSE UNCHANGED << temp, tempParam, screenOffOperator >>

\* An all-day (or unknown) setting follows the colour; an automatic one stays.
\* Before OnSwitchContext the settings table cannot be reached.
NotifyDarkModeUpdate(toDark) ==
    LET mode == IF toDark THEN "ALWAYS_DARK" ELSE "ALWAYS_LIGHT"
    IN  IF state.mode \notin {mode, "CUSTOM_AUTO"} /\ phase # "down"
        THEN store' = [store EXCEPT !.mode = mode] /\ dirty' = dirty \cup {"mode"}
        ELSE UNCHANGED << store, dirty >>

\* SetDarkMode from an application, for a colour other than the current one.
SetDarkMode ==
    /\ DoSwitchTemporaryColorMode(~dark)
    /\ dark' = ~dark
    /\ choice' = IF dark THEN "LIGHT" ELSE "DARK"
    /\ NotifyDarkModeUpdate(~dark)
    /\ UNCHANGED << now, phase, state, trigger, timerParams, timeChanged, screenOff >>

\* BOOT_COMPLETED, first half: OnSwitchContext registers an observer per key,
\* and each registration asks for a notification of its key.
OnSwitchContext ==
    /\ phase = "down"
    /\ phase' = "registered"
    /\ dirty' = Keys
    /\ UNCHANGED << now, store, state, trigger, timerParams, timeChanged, screenOff,
                    screenOffOperator, temp, tempParam, dark, choice >>

\* A mutant: the temporary state is not read back.
RestoredInfo_Forgotten == NormalInfo

\* InitData reads the temporary state back; one whose window is over is dropped.
RestoredInfo == IF Effective(tempParam) THEN tempParam ELSE NormalInfo

\* BOOT_COMPLETED, second half, with bootLoadFlag.
LoadUserSettingData ==
    LET info == RestoredInfo
    IN  /\ phase = "registered"
        /\ phase' = "loaded"
        /\ state' = store
        /\ OnStateChangeLocked(store, FALSE, TRUE, << info, info >>, "NONE")
        /\ UNCHANGED << now, store, dirty, timeChanged, screenOff >>

\* The process dies: timers, observers and memory are gone; the colour and
\* the temporary state are persisted parameters.
Crash ==
    /\ AllowCrash /\ phase # "down"
    /\ phase' = "down"
    /\ state' = UnsetState
    /\ trigger' = NoTimers
    /\ dirty' = {}
    /\ timeChanged' = FALSE
    /\ screenOff' = TRUE
    /\ ResetScreenOffOperateInfo
    /\ temp' = NormalInfo
    /\ UNCHANGED << now, store, timerParams, tempParam, dark, choice >>

Init ==
    /\ now \in Clock
    /\ store \in [mode : Modes, start : Starts, end : Ends]
    /\ dirty = {} /\ phase = "down"
    /\ state = UnsetState
    /\ trigger = NoTimers /\ timerParams = << -1, -1 >>
    /\ timeChanged = FALSE
    /\ screenOff = TRUE /\ screenOffOperator = "NONE"
    /\ temp = NormalInfo /\ tempParam = NormalInfo
    /\ dark \in BOOLEAN /\ choice = "OVER"

Next ==
    \/ Tick \/ SetClock
    \/ \E mode \in Modes : WriteSetting("mode", mode)
    \/ \E time \in Starts : WriteSetting("start", time)
    \/ \E time \in Ends : WriteSetting("end", time)
    \/ \E key \in Keys : SettingDataUpdateFunc(key)
    \/ \E i \in {START_INDEX, END_INDEX} : TimerCallback(i)
    \/ RestartTimer
    \/ ScreenOnCallback \/ ScreenOffCallback
    \/ SetDarkMode
    \/ OnSwitchContext \/ LoadUserSettingData \/ Crash

Spec == Init /\ [][Next]_vars

-----------------------------------------------------------------------------
(* Properties                                                              *)

ScheduleInForce ==
    phase = "loaded" /\ state.mode = "CUSTOM_AUTO" /\ IsValidScheduleTime(state.start, state.end)

\* No notification or event is under way and no timer is due.
Settled ==
    /\ phase = "loaded" /\ dirty = {} /\ ~timeChanged
    /\ \A i \in {START_INDEX, END_INDEX} : ~TimerDue(i)

\* The colour as it will be at the latest when the screen goes off.
DecidedDark ==
    IF screenOffOperator = "NONE" THEN dark ELSE screenOffOperator = "SWITCH_TO_DARK"

\* Once everything under way is handled, an automatic schedule that no manual
\* choice overrides has put the system in the colour the schedule prescribes
\* for this moment, or has that switch queued for the next screen-off
\* (timer callbacks, TIME_CHANGED, setting observers, boot and screen events).
\* With early timers a choice made between an early timer and its boundary is
\* excepted: DoSwitchTemporaryColorMode judges it by the phase that is ending.
ColorFollowsSchedule ==
    (Settled /\ ScheduleInForce /\ IsColorModeNormal /\ (EARLY = 0 \/ choice = "OVER")) =>
        \E ahead \in 0 .. EARLY : DecidedDark = InDarkInterval(state.start, state.end, now + ahead)

\* While a manual choice is in its window, neither a timer, nor a screen-off,
\* nor a clock change, nor a restart of the service changes the chosen colour,
\* and no queued switch threatens it (CheckTemporaryStateEffective and every
\* place that resets the screen-off operation).
OverrideHolds ==
    (phase = "loaded" /\ CheckTemporaryStateEffective /\ state.mode = "CUSTOM_AUTO" /\ choice # "OVER") =>
        dark = (choice = "DARK") /\ screenOffOperator = "NONE"

\* Inside its window a manual choice, as persisted, is ended by a setting that
\* is notified or by another choice, never by a timer, a screen-off, a clock
\* event or a crash and the reload after it (UpdateDarkModeSchedule, InitData).
\* A timer in the very second of the choice still decides: see ChoiceAfterDecision.
OverrideSurvives ==
    [][(choice # "OVER" /\ Effective(tempParam) /\ tempParam' # tempParam)
            => SetDarkMode \/ \E key \in Keys : SettingDataUpdateFunc(key)]_vars

\* Once everything under way is handled, an all-day setting is the colour in
\* force, and neither a timer nor a switch queued for screen-off is left to
\* change it, whatever schedule, manual choice, queue or crash preceded it.
AllDayModeSettles ==
    (Settled /\ state.mode \in {"ALWAYS_LIGHT", "ALWAYS_DARK"}) =>
        /\ dark = (state.mode = "ALWAYS_DARK")
        /\ screenOffOperator = "NONE" /\ trigger = NoTimers

\* A manual choice that departs from the schedule lasts through the present phase of
\* the schedule and the one after it: its window ends where the dark interval next
\* begins if it is dark by the schedule, and where it next ends if it is not, as the
\* diagrams in GetTempColorModeTimeInfo show.  Excepted is the first minute of an
\* interval that ends tomorrow, which IsWithInPreInterval takes for the time before it.
OverrideWindowAhead ==
    [][(/\ SetDarkMode /\ ScheduleInForce /\ temp'.type = "Temp"
        /\ state.end <= DAY_TO_MINUTE \/ MinuteOfDay(now) # state.start) =>
            temp'.keepEnd + 1 = NextBegin(IF InDarkInterval(state.start, state.end, now)
                                          THEN state.start ELSE state.end, now)]_vars

\* A manual choice never turns the automatic mode of the settings off: only an
\* all-day setting is rewritten by NotifyDarkModeUpdate.
ManualSwitchKeepsAutomatic ==
    [][(SetDarkMode /\ store.mode = "CUSTOM_AUTO") => store' = store]_vars

\* A notification that brings no new value does not end a manual choice that is
\* still in its window (TemporaryColorModeManager persists the choice, so that
\* it is still there when the observers are registered anew).
NotificationKeepsOverride ==
    [][(\E key \in Keys : SettingDataUpdateFunc(key)) /\ state' = state
            /\ CheckTemporaryStateEffective
            => temp' = temp]_vars
=============================================================================
