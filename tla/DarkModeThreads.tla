-------------------------- MODULE DarkModeThreads --------------------------
(***************************************************************************)
(* The threads that DarkModeManager runs on, for one context, with one     *)
(* step per lock section or call: an observer for each of two settings,    *)
(* the callback of a timer, the thread of common events and a manual       *)
(* choice that comes in by IPC.  Time is the number of boundaries of the   *)
(* schedule passed; what the schedule says is DarkModeSchedule's subject,  *)
(* and how the mutexes nest is LockOrder's.                                *)
(*                                                                         *)
(* Only observers and loading do everything they do under                  *)
(* darkModeStatesMutex_.  The others decide by what they read under it and *)
(* act when it is free again.  History variables say when that mattered.   *)
(***************************************************************************)
EXTENDS Integers

CONSTANTS
    Modes,          \* modes that the user sets
    Times,          \* the schedules that the user sets, numbers above 0
    CHANGES         \* bound on settings written, manual choices, events, crashes

ASSUME DarkModeThreadsAssumption ==
    /\ Modes \subseteq {"ALWAYS_LIGHT", "ALWAYS_DARK", "CUSTOM_AUTO"} /\ Modes # {}
    /\ Times \subseteq Nat \ {0} /\ Times # {}
    /\ CHANGES \in Nat

Keys == {"mode", "time"}
Threads == Keys \cup {"timer", "event", "ipc"}
Unset == 0
Free == "nobody"

VARIABLES
    boundaries,     \* boundaries of the schedule passed since the start
    table, told,    \* the settings, and which observers are to be told
    phase,          \* "booting", "registered", "left" for another context
    state,          \* darkModeStates_[context]
    armed,          \* the schedule that the timers' callback captured, or Unset
    fired,          \* a callback of the timers that is under way, or Unset
    screenOff, queue,   \* ScreenSwitchOperatorManager
    temp,           \* the boundary up to which a manual choice lasts, or Unset
    tempParam,      \* the same as persisted: mode and window
    color,          \* of the system's configuration, usersParam_, the parameter
    mutex,          \* who holds darkModeStatesMutex_
    thread,         \* where each thread is and what it has read
    changes,        \* of the environment so far
    \* history:
    clean,          \* decisions did not overlap since the last that repaired it
    torn,           \* two saves of the manual choice overlapped
    stale           \* settings that loading overwrote with older values

settingVars == << table, told, phase >>
timerVars == << armed, fired >>
switchVars == << screenOff, queue >>
tempVars == << temp, tempParam >>
bounds == << boundaries, changes >>
history == << clean, torn, stale >>
vars == << settingVars, state, timerVars, switchVars, tempVars, color, mutex, thread,
           bounds, history >>

Idle == [pc |-> "idle", dark |-> FALSE, value |-> Unset, reset |-> FALSE, boot |-> FALSE,
         then |-> "finish"]
Normal == [mode |-> "Normal", until |-> Unset]
Places == {"configuration", "usersParam", "param"}

\* IsWithinTimeInterval and CheckCurrentTimeInDarkInterval: one schedule is
\* dark between the odd boundaries and the even ones, the other is not.
InDarkInterval(time) == (boundaries + time) % 2 = 0
TempEffective(until) == boundaries < until

\* Has OnStateChangeLocked a colour for the state, and which one.
HasColor(s) ==
    \/ s.mode \in {"ALWAYS_LIGHT", "ALWAYS_DARK"}
    \/ s.mode = "CUSTOM_AUTO" /\ s.time # Unset
ColorOf(s) == s.mode = "ALWAYS_DARK" \/ (s.mode = "CUSTOM_AUTO" /\ InDarkInterval(s.time))

\* The service is up, and everything is as the automatic schedule says.
Init ==
    /\ boundaries = 0
    /\ table \in [mode : {"CUSTOM_AUTO"}, time : Times] /\ told = {} /\ phase = "registered"
    /\ state = table
    /\ armed = state.time /\ fired = Unset
    /\ screenOff \in BOOLEAN /\ queue = "NONE"
    /\ temp = Unset /\ tempParam = Normal
    /\ color = [c \in Places |-> ColorOf(state)]
    /\ mutex = Free /\ thread = [t \in Threads |-> Idle]
    /\ changes = 0
    /\ clean = TRUE /\ torn = FALSE /\ stale = {}

-----------------------------------------------------------------------------
At(t, pc) == thread[t].pc = pc
Goto(t, pc) == thread' = [thread EXCEPT ![t].pc = pc]
Change == changes < CHANGES /\ changes' = changes + 1

\* A thread has decided, and has not yet done all that it decided.
Waiting == {"idle", "observe", "read", "load", "check", "restart", "have"}
Alone(t) == \A u \in Threads \ {t} : thread[u].pc \in Waiting
Decides(t) == clean' = (clean /\ Alone(t))

\* A thread changes the manual choice while another is saving it.
Tears(t) == torn' = (\E u \in Threads \ {t} : thread[u].pc \in {"save", "saveMode", "saveWindow"})

\* ClearTimerByUserId and SetScheduleTime, by the new state.
Timers(s) ==
    CASE s.mode = "CUSTOM_AUTO" -> armed' = s.time
      [] s.mode \in {"ALWAYS_LIGHT", "ALWAYS_DARK"} -> armed' = Unset
      [] OTHER -> UNCHANGED armed

\* A mutant: the mutex is not waited for.
OnStateChangeLocked_NoWait(t, s, reset, boot) ==
    /\ state' = s
    /\ Timers(s) /\ UNCHANGED fired
    /\ mutex' = t
    /\ thread' = [thread EXCEPT ![t] = [Idle EXCEPT !.pc = "queue", !.dark = ColorOf(s),
                                        !.reset = reset, !.boot = boot]]

\* The state changes; the mutex is kept if there is a colour to set.
OnStateChangeLocked(t, s, reset, boot) ==
    /\ mutex = Free
    /\ state' = s
    /\ Timers(s) /\ UNCHANGED fired
    /\ IF HasColor(s)
       THEN /\ mutex' = t
            /\ thread' = [thread EXCEPT ![t] = [Idle EXCEPT !.pc = "queue", !.dark = ColorOf(s),
                                                !.reset = reset, !.boot = boot]]
       ELSE thread' = [thread EXCEPT ![t] = Idle] /\ UNCHANGED mutex

-----------------------------------------------------------------------------
(* The environment.                                                        *)

\* A boundary of the schedule passes, and the timers that are set go off.
Boundary ==
    /\ Change
    /\ boundaries' = boundaries + 1
    /\ fired' = IF armed # Unset THEN armed ELSE fired
    /\ UNCHANGED << settingVars, state, armed, switchVars, tempVars, color, mutex, thread,
                    history >>

WriteSetting(key, value) ==
    /\ Change
    /\ table[key] # value
    /\ table' = [table EXCEPT ![key] = value]
    /\ told' = IF phase = "registered" THEN told \cup {key} ELSE told
    /\ UNCHANGED << phase, state, timerVars, switchVars, tempVars, color, mutex, thread,
                    boundaries, history >>

\* The process dies; the next one shows the persisted colour.
Crash ==
    /\ Change
    /\ phase' = "booting" /\ told' = {}
    /\ state' = [mode |-> "INVALID", time |-> Unset]
    /\ armed' = Unset /\ fired' = Unset
    /\ screenOff' = TRUE /\ queue' = "NONE"
    /\ temp' = Unset
    /\ color' = [c \in Places |-> color.param]
    /\ mutex' = Free /\ thread' = [t \in Threads |-> Idle]
    /\ clean' = TRUE /\ torn' = FALSE /\ stale' = {}
    /\ UNCHANGED << table, tempParam, boundaries >>

-----------------------------------------------------------------------------
(* SettingDataDarkMode{Mode,StartTime,EndTime}UpdateFunc                   *)

\* The value is read before the mutex is taken.
ObserverReads(key) ==
    /\ At(key, "idle") /\ key \in told
    /\ told' = told \ {key}
    /\ thread' = [thread EXCEPT ![key] = [Idle EXCEPT !.pc = "observe", !.value = table[key]]]
    /\ UNCHANGED << table, phase, state, timerVars, switchVars, tempVars, color, mutex,
                    bounds, history >>

SettingDataUpdateFunc(key) ==
    /\ At(key, "observe")
    /\ OnStateChangeLocked(key, [state EXCEPT ![key] = thread[key].value], TRUE, FALSE)
    /\ clean' = (Alone(key) /\ (clean \/ HasColor(state')))
    /\ stale' = IF At("event", "load") THEN stale \cup {key} ELSE stale \ {key}
    /\ UNCHANGED << settingVars, switchVars, tempVars, color, bounds, torn >>

-----------------------------------------------------------------------------
(* The callback of the timers                                              *)

TimerCallback ==
    /\ At("timer", "idle") /\ fired # Unset
    /\ thread' = [thread EXCEPT !["timer"] = [Idle EXCEPT !.pc = "check", !.value = fired]]
    /\ fired' = Unset
    /\ UNCHANGED << settingVars, state, armed, switchVars, tempVars, color, mutex, bounds, history >>

\* A mutant: only the mode is checked.
CheckTimerCallbackParams_ModeOnly ==
    /\ At("timer", "check") /\ mutex = Free
    /\ IF state.mode = "CUSTOM_AUTO"
       THEN /\ thread' = [thread EXCEPT !["timer"] =
                      [Idle EXCEPT !.pc = "queue", !.dark = InDarkInterval(thread["timer"].value)]]
            /\ Decides("timer")
       ELSE thread' = [thread EXCEPT !["timer"] = Idle] /\ UNCHANGED clean
    /\ UNCHANGED << settingVars, state, timerVars, switchVars, tempVars, color, mutex, bounds,
                    torn, stale >>

\* The mutex is free again when UpdateDarkModeSchedule starts.
CheckTimerCallbackParams ==
    /\ At("timer", "check") /\ mutex = Free
    /\ IF state.mode = "CUSTOM_AUTO" /\ state.time = thread["timer"].value
       THEN /\ thread' = [thread EXCEPT !["timer"] =
                              [Idle EXCEPT !.pc = "queue", !.dark = InDarkInterval(state.time)]]
            /\ Decides("timer")
       ELSE thread' = [thread EXCEPT !["timer"] = Idle] /\ UNCHANGED clean
    /\ UNCHANGED << settingVars, state, timerVars, switchVars, tempVars, color, mutex, bounds,
                    torn, stale >>

-----------------------------------------------------------------------------
(* The thread of common events                                             *)

\* BOOT_COMPLETED: OnSwitchContext, ...
OnSwitchContext ==
    /\ At("event", "idle") /\ phase = "booting"
    /\ phase' = "registered" /\ told' = Keys
    /\ Goto("event", "read")
    /\ UNCHANGED << table, state, timerVars, switchVars, tempVars, color, mutex, bounds, history >>

\* ... and LoadUserSettingData, which reads the settings before it locks.
LoadReads ==
    /\ At("event", "read")
    /\ thread' = [thread EXCEPT !["event"] = [Idle EXCEPT !.pc = "load", !.value = table]]
    /\ UNCHANGED << settingVars, state, timerVars, switchVars, tempVars, color, mutex, bounds, history >>

Restored ==
    IF tempParam.mode = "Temp" /\ TempEffective(tempParam.until) THEN tempParam ELSE Normal

LoadUserSettingData ==
    /\ At("event", "load")
    /\ OnStateChangeLocked("event", thread["event"].value, FALSE, TRUE)
    /\ temp' = Restored.until
    /\ tempParam' = [Restored EXCEPT !.until = tempParam.until]
    /\ queue' = "NONE"
    /\ Decides("event") /\ Tears("event")
    /\ UNCHANGED << settingVars, screenOff, color, bounds, stale >>

\* OnSwitchContext for another context: the timers and the observers of this
\* one go, an observer that is already running goes on.
LeaveContext ==
    /\ Change
    /\ At("event", "idle") /\ phase = "registered"
    /\ phase' = "left" /\ told' = {}
    /\ armed' = Unset
    /\ UNCHANGED << table, state, fired, switchVars, tempVars, color, mutex, thread,
                    boundaries, history >>

\* TIME_CHANGED
TimeChange ==
    /\ Change
    /\ At("event", "idle") /\ phase = "registered"
    /\ Goto("event", "restart")
    /\ UNCHANGED << settingVars, state, timerVars, switchVars, tempVars, color, mutex,
                    boundaries, history >>

\* RestartTimer copies the schedule under the mutex and goes on without it.
RestartTimer ==
    /\ At("event", "restart") /\ mutex = Free
    /\ IF state.mode = "CUSTOM_AUTO"
       THEN /\ thread' = [thread EXCEPT !["event"] = [Idle EXCEPT !.pc = "within", !.value = state.time]]
            /\ Decides("event")
       ELSE thread' = [thread EXCEPT !["event"] = Idle] /\ UNCHANGED clean
    /\ UNCHANGED << settingVars, state, timerVars, switchVars, tempVars, color, mutex, bounds,
                    torn, stale >>

RestartWithin ==
    /\ At("event", "within")
    /\ thread' = [thread EXCEPT !["event"] =
                      [Idle EXCEPT !.pc = "queue", !.dark = InDarkInterval(thread["event"].value),
                                   !.then = "rearm"]]
    /\ UNCHANGED << settingVars, state, timerVars, switchVars, tempVars, color, mutex, bounds, history >>

ScreenOnCallback ==
    /\ Change
    /\ At("event", "idle") /\ screenOff
    /\ screenOff' = FALSE
    /\ UNCHANGED << settingVars, state, timerVars, queue, tempVars, color, mutex, thread,
                    boundaries, history >>

SetScreenOff ==
    /\ Change
    /\ At("event", "idle") /\ ~screenOff
    /\ screenOff' = TRUE
    /\ Goto("event", "have")
    /\ UNCHANGED << settingVars, state, timerVars, queue, tempVars, color, mutex,
                    boundaries, history >>

HaveScreenOffOperate ==
    /\ At("event", "have")
    /\ IF queue # "NONE" THEN Goto("event", "get") /\ Decides("event")
       ELSE Goto("event", "idle") /\ UNCHANGED clean
    /\ UNCHANGED << settingVars, state, timerVars, switchVars, tempVars, color, mutex, bounds,
                    torn, stale >>

\* A switch that was cancelled since reads as a switch to light.
GetScreenOffOperateInfo ==
    /\ At("event", "get")
    /\ thread' = [thread EXCEPT !["event"] =
                      [Idle EXCEPT !.pc = "configuration", !.dark = (queue = "SWITCH_TO_DARK"),
                                   !.then = "dequeue"]]
    /\ UNCHANGED << settingVars, state, timerVars, switchVars, tempVars, color, mutex, bounds, history >>

-----------------------------------------------------------------------------
(* UpdateDarkModeSchedule and OnChangeDarkMode, on any thread              *)

Done(t) ==
    IF thread[t].then = "finish"
    THEN thread' = [thread EXCEPT ![t] = Idle] /\ mutex' = IF mutex = t THEN Free ELSE mutex
    ELSE Goto(t, thread[t].then) /\ UNCHANGED mutex

ResetScreenOffOperateInfo(t) ==
    /\ At(t, "queue")
    /\ queue' = "NONE"
    /\ Goto(t, IF thread[t].reset THEN "configuration" ELSE "screen")
    /\ UNCHANGED << screenOff, tempVars, color, mutex, torn >>

IsScreenOff(t) ==
    /\ At(t, "screen")
    /\ Goto(t, IF screenOff \/ thread[t].boot THEN "now" ELSE "later")
    /\ UNCHANGED << switchVars, tempVars, color, mutex, torn >>

\* A mutant: returning early keeps the mutex.
CheckTemporaryStateEffective_StaysLocked(t) ==
    /\ thread[t].pc \in {"now", "later"}
    /\ IF TempEffective(temp) THEN thread' = [thread EXCEPT ![t] = Idle]
       ELSE Goto(t, IF At(t, "now") THEN "configuration" ELSE "enqueue")
    /\ UNCHANGED << switchVars, tempVars, color, mutex, torn >>

CheckTemporaryStateEffective(t) ==
    /\ thread[t].pc \in {"now", "later"}
    /\ IF TempEffective(temp) THEN Done(t)
       ELSE Goto(t, IF At(t, "now") THEN "configuration" ELSE "enqueue") /\ UNCHANGED mutex
    /\ UNCHANGED << switchVars, tempVars, color, torn >>

SetScreenOffOperateInfo(t) ==
    /\ At(t, "enqueue")
    /\ queue' = IF thread[t].dark THEN "SWITCH_TO_DARK" ELSE "SWITCH_TO_LIGHT"
    /\ Done(t)
    /\ UNCHANGED << screenOff, tempVars, color, torn >>

\* The three places that hold the colour, one after the other.
SetColor(t, place, next) ==
    /\ At(t, place)
    /\ color' = [color EXCEPT ![place] = thread[t].dark]
    /\ Goto(t, next)
    /\ UNCHANGED << switchVars, tempVars, mutex, torn >>

UpdateConfiguration(t) == SetColor(t, "configuration", IF t = "ipc" THEN "switch" ELSE "usersParam")

\* A mutant: usersParam_ is left as it is.
ConfigurePersistence_ParamOnly(t) ==
    \/ At(t, "usersParam") /\ Goto(t, "param") /\ UNCHANGED << switchVars, tempVars, color, mutex, torn >>
    \/ SetColor(t, "param", IF t = "ipc" THEN "notify" ELSE "normal")

ConfigurePersistence(t) ==
    \/ SetColor(t, "usersParam", "param")
    \/ SetColor(t, "param", IF t = "ipc" THEN "notify" ELSE "normal")

\* A mutant: the end of a manual choice is not saved.
SetColorModeNormal_NotSaved(t) ==
    /\ At(t, "normal")
    /\ temp' = Unset /\ Done(t) /\ UNCHANGED torn
    /\ UNCHANGED << switchVars, tempParam, color >>

SetColorModeNormal(t) ==
    /\ At(t, "normal")
    /\ IF temp # Unset THEN temp' = Unset /\ Goto(t, "save") /\ Tears(t) /\ UNCHANGED mutex
       ELSE Done(t) /\ UNCHANGED << temp, torn >>
    /\ UNCHANGED << switchVars, tempParam, color >>

Saved(t) == IF t = "ipc" THEN Goto(t, "usersParam") /\ UNCHANGED mutex ELSE Done(t)

\* SaveTempColorModeInfo: a copy made under its mutex, and parameters written
\* without it; the window only for a choice that is temporary.
CopyTempColorModeInfo(t) ==
    /\ At(t, "save")
    /\ thread' = [thread EXCEPT ![t].pc = "saveMode", ![t].value = temp]
    /\ UNCHANGED << switchVars, tempVars, color, mutex, torn >>

SaveTempColorMode(t) ==
    /\ At(t, "saveMode")
    /\ IF thread[t].value # Unset
       THEN tempParam' = [tempParam EXCEPT !.mode = "Temp"] /\ Goto(t, "saveWindow") /\ UNCHANGED mutex
       ELSE tempParam' = [tempParam EXCEPT !.mode = "Normal"] /\ Saved(t)
    /\ UNCHANGED << switchVars, temp, color, torn >>

SaveTempWindow(t) ==
    /\ At(t, "saveWindow")
    /\ tempParam' = [tempParam EXCEPT !.until = thread[t].value]
    /\ Saved(t)
    /\ UNCHANGED << switchVars, temp, color, torn >>

UpdateDarkModeSchedule(t) ==
    /\ \/ ResetScreenOffOperateInfo(t) \/ IsScreenOff(t) \/ CheckTemporaryStateEffective(t)
       \/ SetScreenOffOperateInfo(t) \/ UpdateConfiguration(t) \/ ConfigurePersistence(t)
       \/ SetColorModeNormal(t) \/ CopyTempColorModeInfo(t) \/ SaveTempColorMode(t)
       \/ SaveTempWindow(t)
    /\ UNCHANGED << settingVars, state, timerVars, bounds, clean, stale >>

\* The end of ScreenOffCallback, and of RestartTimer.
ScreenOffDone ==
    /\ At("event", "dequeue")
    /\ queue' = "NONE"
    /\ thread' = [thread EXCEPT !["event"] = Idle]
    /\ UNCHANGED << settingVars, state, timerVars, screenOff, tempVars, color, mutex, bounds, history >>

\* RestartAllTimer sets the timers for the schedule they are set for.
RestartAllTimer ==
    /\ At("event", "rearm")
    /\ thread' = [thread EXCEPT !["event"] = Idle]
    /\ UNCHANGED << settingVars, state, timerVars, switchVars, tempVars, color, mutex, bounds, history >>

-----------------------------------------------------------------------------
(* SetDarkMode from an application                                         *)

SetDarkMode ==
    /\ Change
    /\ At("ipc", "idle") /\ phase # "left"
    /\ thread' = [thread EXCEPT !["ipc"] = [Idle EXCEPT !.pc = "configuration", !.dark = ~color.usersParam]]
    /\ Decides("ipc")
    /\ UNCHANGED << settingVars, state, timerVars, switchVars, tempVars, color, mutex,
                    boundaries, torn, stale >>

\* DoSwitchTemporaryColorMode finds the mode, ...
IsDarkModeCustomAuto ==
    /\ At("ipc", "switch") /\ mutex = Free
    /\ IF state.mode = "CUSTOM_AUTO" THEN queue' = "NONE" /\ Goto("ipc", "choose")
       ELSE UNCHANGED queue /\ Goto("ipc", "usersParam")
    /\ UNCHANGED << settingVars, state, timerVars, screenOff, tempVars, color, mutex, bounds, history >>

\* ... and then the times: of the sunrise mode, if it is no longer the same.  A
\* choice against the phase lasts for what is left of it and all of the next.
DoSwitchTemporaryColorMode ==
    /\ At("ipc", "choose") /\ mutex = Free
    /\ \E within \in BOOLEAN :
        /\ state.mode = "CUSTOM_AUTO" /\ state.time # Unset => within = InDarkInterval(state.time)
        /\ temp' = IF within = thread["ipc"].dark THEN Unset ELSE boundaries + 2
    /\ Goto("ipc", "save")
    /\ Tears("ipc")
    /\ UNCHANGED << settingVars, state, timerVars, switchVars, tempParam, color, mutex, bounds,
                    clean, stale >>

NotifyDarkModeUpdate ==
    LET mode == IF thread["ipc"].dark THEN "ALWAYS_DARK" ELSE "ALWAYS_LIGHT"
        rewrites == state.mode \notin {mode, "CUSTOM_AUTO"} /\ phase # "booting"
    IN  /\ At("ipc", "notify") /\ mutex = Free
        /\ IF rewrites THEN table' = [table EXCEPT !.mode = mode] ELSE UNCHANGED table
        /\ told' = IF rewrites /\ phase = "registered" THEN told \cup {"mode"} ELSE told
        /\ thread' = [thread EXCEPT !["ipc"] = Idle]
        /\ UNCHANGED << phase, state, timerVars, switchVars, tempVars, color, mutex, bounds, history >>

-----------------------------------------------------------------------------
ThreadStep(t) ==
    \/ UpdateDarkModeSchedule(t)
    \/ t \in Keys /\ (ObserverReads(t) \/ SettingDataUpdateFunc(t))
    \/ t = "timer" /\ (TimerCallback \/ CheckTimerCallbackParams)
    \/ /\ t = "event"
       /\ \/ OnSwitchContext \/ LoadReads \/ LoadUserSettingData
          \/ RestartTimer \/ RestartWithin \/ RestartAllTimer
          \/ HaveScreenOffOperate \/ GetScreenOffOperateInfo \/ ScreenOffDone
    \/ t = "ipc" /\ (IsDarkModeCustomAuto \/ DoSwitchTemporaryColorMode \/ NotifyDarkModeUpdate)

Next ==
    \/ Boundary \/ Crash
    \/ \E mode \in Modes : WriteSetting("mode", mode)
    \/ \E time \in Times : WriteSetting("time", time)
    \/ LeaveContext \/ TimeChange \/ ScreenOnCallback \/ SetScreenOff \/ SetDarkMode
    \/ \E t \in Threads : ThreadStep(t)

\* As long as a thread can go on, one does.
Fairness == WF_vars(\E t \in Threads : ThreadStep(t))

Spec == Init /\ [][Next]_vars /\ Fairness

-----------------------------------------------------------------------------
TypeOK ==
    /\ boundaries \in Nat /\ changes \in 0 .. CHANGES
    /\ table \in [mode : {"ALWAYS_LIGHT", "ALWAYS_DARK", "CUSTOM_AUTO"}, time : Times]
    /\ told \subseteq Keys /\ phase \in {"booting", "registered", "left"}
    /\ state \in [mode : {"INVALID", "ALWAYS_LIGHT", "ALWAYS_DARK", "CUSTOM_AUTO"}, time : Times \cup {Unset}]
    /\ {armed, fired} \subseteq Times \cup {Unset}
    /\ screenOff \in BOOLEAN /\ queue \in {"NONE", "SWITCH_TO_LIGHT", "SWITCH_TO_DARK"}
    /\ temp \in Nat /\ tempParam \in [mode : {"Normal", "Temp"}, until : Nat]
    /\ color \in [Places -> BOOLEAN]
    /\ mutex \in Threads \cup {Free}
    /\ \A key \in Keys : thread[key].pc \notin Waiting => mutex = key
    /\ {clean, torn} \subseteq BOOLEAN /\ stale \subseteq Keys

Quiet ==
    /\ \A t \in Threads : At(t, "idle")
    /\ phase = "registered" /\ told = {} /\ fired = Unset

\* The colour as it will be at the latest when the screen goes off.
DecidedDark == IF queue = "NONE" THEN color.usersParam ELSE queue = "SWITCH_TO_DARK"

\* The configuration of the system, usersParam_ and the parameter come to the
\* same colour, though nothing orders the threads that write them one after the
\* other, unless a decision overlapped another one; and then the next change of
\* a setting, or restart of the service, that is left undisturbed repairs it
\* (UpdateDarkModeCallback, OnSetDarkMode).
ColorsAgree ==
    Quiet /\ clean => color.configuration = color.usersParam /\ color.usersParam = color.param

\* That colour, or the switch queued for screen-off, is the one that the mode
\* and the times in memory stand for, but for a manual choice: a callback of
\* replaced timers, a queue that is emptied while it is read and a setting that
\* changes while it is waited for do no harm unless the decisions overlap, and
\* no harm that the next undisturbed change of a setting does not repair.
ColorFollowsState ==
    Quiet /\ clean /\ stale = {} /\ HasColor(state)
    /\ ~(state.mode = "CUSTOM_AUTO" /\ TempEffective(temp)) =>
        DecidedDark = ColorOf(state)

\* The manual choice in memory is the one in the parameters, written one by one
\* outside the lock, unless two threads were saving at the same time; a crash
\* between two of the parameters is healed by loading them (SaveTempColorModeInfo).
ChoiceIsPersisted ==
    Quiet /\ ~torn =>
        /\ tempParam.mode = (IF temp = Unset THEN "Normal" ELSE "Temp")
        /\ temp # Unset => tempParam.until = temp

\* Every setting comes to be in memory, also one that NotifyDarkModeUpdate
\* writes or that changes while the settings are loaded, and nobody waits for
\* the mutex for ever.  The exception is a setting whose observer ran between
\* loading's reading and locking: that one stays overwritten.
SettingsArrive ==
    <>[](phase = "registered" => \A key \in Keys \ stale : state[key] = table[key])
=============================================================================
