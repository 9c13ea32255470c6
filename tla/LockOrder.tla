------------------------------ MODULE LockOrder ------------------------------
(***************************************************************************)
(* The lock sections of the service's handlers, function by function, in   *)
(* the order the code enters and leaves them.  Where a function branches,  *)
(* its sections are listed one after the other as if every branch were     *)
(* taken in turn: for the order of locks that only adds ways to wait.  The *)
(* one branch that matters, what a manual choice does to the temporary     *)
(* state, is a parameter.  A run of sections of the same mutex, none of    *)
(* which contains another, is one section.                                 *)
(***************************************************************************)
EXTENDS Locking

\* bootCompleteFlag_ (std::call_once locks it), darkModeStatesMutex_,
\* multiUserTempColorModeMapMutex_, timerMapMutex_, the two mutexes of
\* ScreenSwitchOperatorManager, settingDataObserversMutex_, the two of
\* SettingDataManager, usersParamMutex_,
\* userSwitchUpdateConfigurationOnceFlagMutex_, policyMutex_, settingMutex_
ServiceMutexes ==
    {"bootOnce", "states", "temp", "timers", "screen", "operate", "contextObservers",
     "initialize", "observers", "params", "onceFlag", "policy", "setting"}

\* The order the code keeps to, the manual temporary choice excepted.
ServiceLevel ==
    [m \in ServiceMutexes |->
        CASE m = "bootOnce" -> 2
          [] m \in {"states", "contextObservers"} -> 1
          [] OTHER -> 0]

Section(m, body) == << Lock(m) >> \o body \o << Unlock(m) >>

-----------------------------------------------------------------------------
(* TemporaryColorModeManager                                               *)

SaveTempColorModeInfo == << Use("temp") >>

\* A mutant: the settings are read inside the section, as for a temporary mode.
SetColorModeNormal_ReadsSettings == Section("temp", << Use("states") >>) \o SaveTempColorModeInfo

SetColorModeNormal == << Use("temp") >> \o SaveTempColorModeInfo

GetSettingTime == << Use("states") >>
SetColorModeTemporary == Section("temp", GetSettingTime) \o SaveTempColorModeInfo

-----------------------------------------------------------------------------
(* UiAppearanceAbility, the parts DarkModeManager calls back               *)

UpdateConfiguration == << Use("policy") >>
UpdateDarkModeCallback == UpdateConfiguration \o << Use("params") >>

-----------------------------------------------------------------------------
(* DarkModeManager                                                         *)

OnChangeDarkMode == UpdateDarkModeCallback \o << Use("temp") >> \o SetColorModeNormal

UpdateDarkModeSchedule ==
    << Use("operate"), Use("screen"), Use("temp") >> \o OnChangeDarkMode \o << Use("operate") >>

OnStateChangeLocked == << Use("timers") >> \o UpdateDarkModeSchedule

CalculateAndApplySunriseSunsetTimes == << Use("states") >>

InitSunriseSunsetMode ==
    CalculateAndApplySunriseSunsetTimes \o Section("states", << Use("timers") >>)

ModeUpdateFunc ==
    Section("states", OnStateChangeLocked) \o InitSunriseSunsetMode \o << Use("timers") >>

TimeUpdateFunc == Section("states", OnStateChangeLocked)

TimerCallback == << Use("states") >> \o UpdateDarkModeSchedule

RecalculationCallback == << Use("states") >> \o CalculateAndApplySunriseSunsetTimes

\* A mutant: the times are recalculated inside the section.
RestartTimer_RecalculatesInside ==
    Section("states", CalculateAndApplySunriseSunsetTimes)
        \o UpdateDarkModeSchedule \o << Use("timers") >>

RestartTimer ==
    << Use("states") >> \o CalculateAndApplySunriseSunsetTimes \o << Use("states") >>
        \o UpdateDarkModeSchedule \o << Use("timers") >>

ScreenOnCallback == << Use("screen") >>
ScreenOffCallback == << Use("screen"), Use("operate") >> \o OnChangeDarkMode \o << Use("operate") >>

OnSwitchContext ==
    << Use("initialize") >> \o Section("contextObservers", << Use("timers"), Use("observers") >>)

LoadUserSettingData ==
    Section("states",
            << Use("temp") >> \o SetColorModeNormal \o << Use("operate") >> \o OnStateChangeLocked)
        \o InitSunriseSunsetMode

\* setColorMode: what the choice does to the temporary state, by the schedule.
DoSwitchTemporaryColorMode(setColorMode) ==
    << Use("states"), Use("operate") >> \o GetSettingTime \o setColorMode

NotifyDarkModeUpdate == << Use("states") >>

Dump == << Use("contextObservers") >> \o Section("states", << Use("timers") >>)

-----------------------------------------------------------------------------
(* The handlers                                                            *)

BootCompletedCallback ==
    Section("bootOnce", OnSwitchContext \o LoadUserSettingData \o << Use("observers") >>)

UpdateCurrentUserConfiguration == << Use("params"), Use("onceFlag") >>

AccountContextSwitchFunc ==
    OnSwitchContext \o LoadUserSettingData
        \o << Use("params"), Use("temp"), Use("params") >> \o UpdateCurrentUserConfiguration

SetDarkMode(setColorMode) ==
    << Use("params") >> \o UpdateConfiguration \o DoSwitchTemporaryColorMode(setColorMode)
        \o << Use("params") >> \o NotifyDarkModeUpdate

SetSettingData == << Use("setting") >>

EventHandlers ==
    {RestartTimer, ScreenOnCallback, ScreenOffCallback, BootCompletedCallback,
     AccountContextSwitchFunc}
ObserverHandlers == {ModeUpdateFunc, TimeUpdateFunc}
TimerHandlers == {TimerCallback, RecalculationCallback}
IpcHandlers == {SetDarkMode(SetColorModeNormal), SetSettingData, Dump}
ManualHandlers == {SetDarkMode(SetColorModeTemporary)}
=============================================================================
