# ui_appearance, modelled in TLA+

`ui_appearance` is the system ability of OpenHarmony that keeps, per account, the
colour mode (light or dark) and the font settings, applies them to the running
applications and, when the user asks for it, switches the colour by a daily schedule
or by the sun. The program is small; what makes it hard is *time* (two timers a day,
intervals over midnight, timers that come a little early or late, clock changes, a
manual choice that overrides the schedule for a while), *failure* (the time service,
the settings table, the application manager or the parameters may refuse a call, and
the service or the application manager may die)
and *concurrency* (common events, settings observers, timers and IPC calls arrive on
different threads). This directory models those three.

## 1. The system

### Components, their state and their operations

| component (under `src/`) | state | operations | called by / calls |
|---|---|---|---|
| `DarkModeManager` `services/src/dark_mode_manager.cpp` | `darkModeStates_` per account context (mode, start, end, sunset, sunrise), the context observed, `updateCallback_` | settings observers, timer callback, recalculation of the sun's times, `RestartTimer`, `LoadUserSettingData`, `OnSwitchContext`, screen callbacks, `DoSwitchTemporaryColorMode`, `NotifyDarkModeUpdate` | events, IPC and observers call it; it calls the timers, the temporary state, the screen queue, the settings table and, through `updateCallback_`, the ability |
| `AlarmTimerManager` `services/utils/src/alarm_timer_manager.cpp` | per user: start and end timer, recorded schedule, recalculation timer | `SetScheduleTime`, `ClearTimerByUserId`, `RestartAllTimer`, set/clear of the recalculation timer | calls the system's time service, any call of which may fail |
| `TemporaryColorModeManager` `services/src/dark_mode_temp_state_manager.cpp` | per context: is the colour a manual, temporary one, and the window it lasts; persisted as three parameters | `InitData`, `SetColorModeTemporary`, `SetColorModeNormal`, `CheckTemporaryStateEffective` | calls back into `DarkModeManager::GetSettingTime` |
| `ScreenSwitchOperatorManager` `services/src/screen_switch_operator_manager.cpp` | screen on/off, a colour switch queued for the next screen-off | set/reset/get under two mutexes | `DarkModeManager` |
| `SettingDataManager`, `SettingDataObserver` `services/utils/src/` | observers by key and user | read, write, write a pair with rollback, (un)register | wraps the DataShare settings table |
| `SunriseSunsetInfo` `services/src/sunrise_sunset_calc.cpp` | none | from place, date and time zone to the minutes of sunset and sunrise | `DarkModeManager` |
| `UiAppearanceAbility` `services/src/ui_appearance_ability.cpp` | `usersParam_` per context, persisted parameters, initialisation flags | `SetDarkMode`, font settings, user and sub-profile switch, boot, upgrade, the two callbacks | IPC and common events; calls the application manager |
| `AccountContextHelper`, `ParameterWrap` | none | which account is in front, parameter access | the ability |
| `UiAppearanceAbilityClient` `services/src/` | cached proxy | every API, `OnRemoteSaDied` | application side |
| JavaScript and ANI interfaces `interfaces/` | the calls under way | setters on a worker pool or at once, getters | applications; call the client |
| `SmartGestureManager`, `BackGroundAppColorSwitchSettings`, `JsonUtils`, native interface | one setting, or none | observer, initialisation, reading a file, a call-through | `UiAppearanceAbility`, applications |

### Threads

Common events (boot, user switch, time change, screen) arrive one after another on
one thread. Each settings key has its own observer, called on DataShare's threads:
calls for one key are serial, for different keys concurrent. Timer callbacks come on
the time service's threads, API calls on IPC threads. `darkModeStatesMutex_` guards
the states, and is held while the timers are set and an observer updates the colour;
the other handlers decide under it and act without it. The temporary state, the two
halves of the screen queue, the timer maps and `usersParam_` have mutexes of their own.
In an application, setters run on the worker pool and are answered on the main thread,
and the death of the service is reported on a binder thread.

### What must be right

* `DarkModeManager`: once everything under way has been handled, the colour is the one
  the settings prescribe for this moment (or is queued for the next screen-off);
  a manual choice lasts exactly until a later boundary of the schedule; an all-day
  setting wins over whatever went before; an invalid schedule does nothing; in the
  sunrise mode the timers come to follow the sun.
* `AlarmTimerManager`: the maps and the time service agree at all times, a user has
  both timers or none, timers go off at the scheduled minute, a clock change re-arms
  every user.
* `TemporaryColorModeManager`: the window is ahead of the choice, survives a restart,
  and is dropped when over.
* `ScreenSwitchOperatorManager`: the switch that is queued is the latest decision, and
  is dropped by everything that supersedes it.
* `SettingDataManager`: a pair is written entirely or not at all; DataShare calls the
  registered observers and nobody else.
* `SunriseSunsetInfo`: night by the pair of minutes is night by the sun.
* `UiAppearanceAbility`: `usersParam_`, the persisted parameters and the configuration
  the applications see agree, per account, across switches, upgrades and restarts.
* the client and its interfaces: every call is answered, truthfully, whatever dies.
* locks: no cycle of waiting threads.

The list of hazards, each at the line where it bites and with the properties that
cover it, is in `PROJECT.json`.

## 2. Plan

1. **done** `ScheduleTime`: the pure time arithmetic.
2. **done** `DarkModeSchedule`: one account over time, handlers atomic.
3. **done** `AlarmTimerManager` and its proofs.
4. **done** `Locking`, `LockOrder`: who takes which mutex while holding which, and a
   proof that levels of the mutexes exclude a circle for any number of threads.
5. **done** `DarkModeThreads`: the lock sections of the handlers interleaved.
6. **done** `SettingDataManager` refines `SettingsPair`: the pair write with rollback
   against an all-or-nothing promise; registration and notification.
7. **done** `SunriseSunset`, `SunriseMode`: the sunrise mode composed with the settings.
8. **done** `AppearanceService`: accounts, `usersParam_` against parameters and
   configuration, switch, upgrade, crash.
9. **done** `AppearanceClient`: the interfaces, the cached proxy, the death of the service.
10. **done** Proofs for 2 to 9, and the arithmetic of 1.

What is left out is listed at the end, with the reasons.

## 3. The modules

| module | models | builds on |
|---|---|---|
| `ScheduleTime` | time arithmetic of the schedule | |
| `DarkModeSchedule` | one account and one clock, handlers whole | `ScheduleTime` |
| `AlarmTimerManager` | the timers of several users, the time service failing | `ScheduleTime` |
| `Locking`, `LockOrder` | the lock sections of all handlers | |
| `DarkModeThreads` | five threads of `DarkModeManager`, step by step | |
| `SettingText`, `SettingsPair`, `SettingDataManager` | the settings table and its promise | |
| `SunriseSunset` | the integer part of the sun's times | `ScheduleTime` |
| `SunriseMode` | the sunrise mode of `DarkModeManager` | `SunriseSunset`, `SettingDataManager` |
| `AppearanceService` | the ability: accounts, parameters, configuration | |
| `AppearanceClient` | the client, JavaScript and ANI interfaces | |
| `MC*` | constants of the runs | |
| `*Proofs` | theorems and their lemmas | the module in the name |

### `ScheduleTime` (pure)

Translates `IsValidScheduleTime`, `SetTimerTriggerTime`, `IsWithinTimeInterval`
(`AlarmTimerManager`), `CheckCurrentTimeInDarkInterval` (`DarkModeManager`),
`GetTempColorModeTimeInfo` and `IsWithInPreInterval` (`TemporaryColorModeManager`).
A schedule is two minutes of the day, an end above a day lying on the next day; a
moment is a number of seconds since a local midnight. The length of the day, of the
minute, the tolerance of 5 s and 2^64 are constants, so that TLC can work with days of
three minutes. `InDarkInterval` and `Boundaries` are the reference definitions: the
schedule taken literally, with none of the code's case analysis.

### `DarkModeSchedule`

One account and one wall clock. Variables are the fields named above plus the settings
table (`store`), the keys whose notification is still under way (`dirty`), the
next firing of the two timers (`trigger`) and what their callbacks captured
(`timerParams`). Each handler is one action that does everything the handler does:
`SettingDataUpdateFunc` (the three observers), `TimerCallback`, `RestartTimer`,
`ScreenOnCallback`, `ScreenOffCallback`, `SetDarkMode`, `OnSwitchContext` and
`LoadUserSettingData` (the two halves of `BOOT_COMPLETED`, between which observers can
run), `Crash`. The environment writes settings, lets time pass (`Tick`) and sets the
clock. `choice` is a history variable: the colour the user last chose, until the
schedule takes over.

Assumptions: timers are at most `EARLY` seconds early (less than the code's tolerance)
and `LATE` seconds late (less than a minute minus the tolerance); a notification is
never lost, but may come at any time and several changes of a key may be one
notification; creating timers succeeds (its failure is `AlarmTimerManager`'s subject);
days have equal length.

### `DarkModeThreads`

The same manager, with one step per lock section or call: an observer for the mode and
one for the times, the timers' callback, the thread of common events and one IPC thread.
`thread[t]` says where a thread is (`pc`) and what it has read; `mutex` is
`darkModeStatesMutex_`. Time is reduced to the number of boundaries passed, a schedule
to a number whose parity says whether it is dark now. The steps after a decision are the
code's: emptying the queue, asking for the screen, for the temporary state, then
configuration, `usersParam_`, parameter, the end of the manual choice and its
parameters one by one. Only observers and loading hold the mutex through all of this.

A manual choice against the phase lasts for what is left of it and for the whole next
phase, two boundaries.

Three history variables say when an overlap did harm, and each property excepts no more
than that: `clean` (no two decisions overlapped since the last undisturbed change of a
setting), `torn` (two threads saved the manual choice at a time), `stale` (settings that
loading overwrote with what it had read before it locked). Each is necessary: TLC finds
the property violated without it, and that is all the project says of those overlaps; the
hazards that consist of them are listed with a note instead of a property. An observer
that runs for a context that has been left sets its timers again, which no property
speaks of.

Assumptions: notifications of one key come one at a time, those of different keys
concurrently; common events come one at a time; there is one thread for the timers'
callbacks and one for IPC; clearing a timer does not recall a callback already under way;
`UpdateConfiguration` does not fail here (it does in `AppearanceService`); a few lock
sections that follow one another directly are one step.

### `AlarmTimerManager`

Any number of users. `SetScheduleTime` holds `timerMapMutex_` across its calls of the
time service and is split at those calls (`SetScheduleTime`, `SetTimer` twice,
`SetScheduleTimeReturn`), because the service goes on firing timers in between; its
caller, which still holds `darkModeStatesMutex_`, clears the user after a failure
(`owed`). Every call of the service may fail: a failed `CreateTimer`/`StartTimer` leaves
the entry 0, a failed `DestroyTimer` leaves a timer that no map refers to (`leaked`,
bounded by `MaxLeaked`).

### `Locking` and `LockOrder`

`Locking` has threads that run handlers of which only the lock sections are kept: a
sequence of steps that lock, unlock or (for a section with no other inside) use one
mutex. `LockOrder` is the table of the code's sections, function by function under the
functions' names, put together as the functions call each other; branches are listed one
after the other. A function with no lock section does not appear. The handlers are those
of the common events (boot completed, user switched, time changed, screen on and off),
of the settings observers, of the timers and of the IPC calls that reach
`DarkModeManager`; the font setters lock `usersParamMutex_` alone, as `SetDarkMode` does
first. `bootCompleteFlag_` counts as a mutex, because `std::call_once` keeps other
callers waiting.

The levels: `bootCompleteFlag_` above `darkModeStatesMutex_` and
`settingDataObserversMutex_`, those above all others. `LockDiscipline` says that sections
are nested and go down the levels. One function does not keep to it,
`SetColorModeTemporary`, and so the manual choice that departs from the schedule is
apart, in `ManualHandlers`.

### `SettingText`, `SettingsPair`, `SettingDataManager`

A text of the table is the spelling of a number, another text that starts with a number,
some other text, or missing: the strict and the lax getter tell these apart.
`SettingDataManager` has the table, DataShare's subscriptions, the observers the manager
has recorded (`observers`), which of them DataShare took (`heard`: whether it did is not
looked at, so an observer can be filed that is never called) and, for each thread that writes a pair, where it is in
`SetInt32ValuePair`: first value, second value, putting the first back, the two
notifications. Every call of DataShare may fail (`FAULTS`).

`SettingsPair` is what the function promises to observers: both values change in one
step or neither does, and they are told only when both have. The promise has two gaps,
which the abstract specification names as the guard of `Tear`: a first value that could
not be read cannot be put back, and nothing can when a second call fails. `KeepsPromise`
is the refinement (`INSTANCE SettingsPair WITH`): the abstract pair keeps its old value
until the second write. The mapping is for one writing thread, with registrations and
other writes of the two keys between its pairs; `SunriseMode` has three writers, and
there the pair can be torn, which is why its liveness property is worth stating.

### `SunriseSunset`, `SunriseMode`

`SunriseSunset` is what follows the astronomy: the polar cases, noon and angle to
minutes, the wrap by the time zone, the pair `(sunset, sunrise)` with sunrise on the next
day where it is the earlier one. The angles are inputs, taken from a set of skies. Days
on which the sun does not rise and days on which it does not set have the same mark for
both minutes, and both normally come out as `POLAR_NIGHT`. `POLAR_DAY` is left to days on
which only the sunset has the mark, which the iteration can bring near the polar circles.

`SunriseMode` composes it with `SettingDataManager`: loading, the observer of the mode
and the daily recalculation each calculate outside the mutex and write the pair, the two
observers of the times read it back one by one and set the timers, or reset both times to
the defaults when the new one is on the wrong side of the old other one. Reading a setting
is a step of its own, before the mutex is taken, in loading (`LoadSetting`, one setting
after the other) and in the observers (`ReadChange`), so that what was read may be old when
it is used: a load that ends late leaves an older mode than the table's. Failures are those
of reading and writing a setting, of arming the pair of timers (`RefusedTimers`: the times
are in memory all the same, and are not armed again) and of setting the recalculation timer
(not looked at). A location may never be found. `RestartTimer`'s calculation is the
callback's and not listed again.

### `AppearanceService`

`UiAppearanceAbility` over accounts, a base account and sub-profiles per user. A handler
is a sequence of calls and lock sections, its `todo` list: one step does the first, fails
at it, or replaces it by others. There are four threads (the system-ability callbacks,
common events, IPC, the timer's callback), and a crash between any two steps. An "item"
is the dark mode or one of the two font scales. `accepted` is a history variable, what an
account was last promised; `shown` is the account whose configuration was sent last, or
that it is in doubt, because sending failed, or was given up by
`ApplyAppearanceContextToUser` for want of a source account in memory, or two handlers
dealt with the same item at the same time; `behind` is true when a request has come for a
user who was not in front, until the next switch.

Assumptions: `DarkModeManager` is seen from outside (it calls `UpdateDarkModeCallback`,
and gives any colour when an account is loaded; the user may be any, as a switch of a
sub-profile in the background makes the manager observe its user, and so may the user who
calls); asking for
the accounts in front does not fail after start-up, and parameters can be read; the three
parameter writes of one call are one step of which one may fail;
`AccountContextSwitchFunc` reads its flags when it takes the event; the second
subscription after a restart of the application manager is left out; the macro
`ENABLE_MULTIPLE_OS_ACCOUNT_SUBSPACE` is on.

### `AppearanceClient`

A call from JavaScript or ANI goes through phases: checked and thrown, queued for the
worker pool or made at once, the first look for the proxy, the second look, the
transaction, the answer. Either look may create the proxy, in two steps with
`serviceProxyLock_` held: `GetSystemAbility` finds the service, and `AddDeathRecipient` makes
it the proxy, whether or not its death can be watched, which nobody looks at. The service
is external: it is up or down, has an incarnation, and takes a value or refuses it; it may
take it and die before it answers. `watched` holds the incarnations whose death is still
to be reported or is being dealt with; `OnRemoteSaDied` looks for another service then, and
`Replace` is its second step. Left out: marshalling, exhausted memory, the creation of
promises and handle scopes, the client's `SetSettingData`. `applied`, `reported` and
`missed`, the incarnations that could not be watched, are history.

## 4. The runs

| run | instance | shows |
|---|---|---|
| `schedule_crash` | daytime schedule or all-day mode, exact timers, crashes | colour, override and all-day properties |
| `schedule_timers` | schedule over midnight that can also be empty, timers a second early or late | the tolerance of the interval check is right; a manual choice lasts to the end of the next phase |
| `timers` | two users, three schedules, four timer identifiers, one leak | the maps and the time service agree; restart re-arms |
| `locks` | three threads, all handlers but one | discipline kept, no circle, every handler returns |
| `settings` | one writer, two numbers, two failing calls | the pair refines its promise, observers are accounted for |
| `sunset` | two skies, three writers, one failing call or change at any point | recalculation and mode agree, memory and timers come to follow the sun |
| `threads` | two modes, two schedules, three changes of any kind | places, memory and parameters agree, settings arrive |
| `service` | two users, three accounts, two failures, changes or requests | promises are kept, shown and saved |
| `client` | two calls, one worker, one death at any point | answers are true, none is missing, a stale proxy is reported |

**Bounds.** `MCDarkModeSchedule` has days of three minutes, of two seconds
(`schedule_crash`, and the violations) or four (`schedule_timers`, so that a tolerance
and an early timer differ), and a clock of one and a half days: long enough for every
kind of interval to begin and end, for a manual choice to reach its end on the next day
and for the clock to be set both ways. In `timers` the wall clock takes two values because
only the order of the moment and the schedule matters. `locks` calls each handler once: a
circle needs every thread inside a single handler, so a second call adds no way to wait.
`threads` needs three changes for its worst cases (a setting, a boundary and a manual
choice overlapping; a crash between two parameters and the load after it); `Times = {1,
2}` has one schedule that is dark now and one that is not. `service` has every pair of two
events among switch, failure, crash, restart of the application manager and request, at
any point of the handlers; its two starts are one after an upgrade and one with two users
in front. `client` has one worker for two calls, so that one waits, and one death, with a
restart at any point; it
starts with or without a service, and with or without a proxy of it, so that the death can
fall between looking it up and registering for its death; a second death adds one more
incarnation but no new phase. `sunset`
has a night on either side of midnight and starts with the two settings unset, so that the
first pair of times is not in the table; its one event (`EVENTS`) is a failing call, or a
change of sky, location or mode, and the overlap of loading, observers and recalculation
needs none. Every bound is a constant of the module
(`CHANGES`, `FAULTS`, `EVENTS`, `MaxLeaked`, `Calls`, `DEATHS`), and the clock of the schedule is an
interval.

**Deadlock** is checked in `timers` and `settings`. The others stop at the end of their
bounds or when all calls have returned. `locks` states absence of deadlock as
`NoDeadlock`, `threads` as part of `SettingsArrive`.

**Fairness and liveness.**

| property | fairness | why the code justifies it |
|---|---|---|
| `EveryHandlerReturns` (`locks`) | weak, each thread inside a handler | the scheduler runs what can run; calls need not arrive, and are finitely many: a `std::mutex` does not queue, so among endless calls a thread could be overtaken for ever |
| `SettingsArrive` (`threads`) | weak, for *some* thread that can go on | as above; nothing is assumed of any single thread, the mutex makes the difference |
| `FollowsTheSun` (`sunset`) | weak, for the two time observers and for the recalculation timer's thread | DataShare delivers its notifications, the timer repeats, threads go on; loading and the observer of the mode need not end, and no location need ever be found |
| `EveryCallAnswered`, `StaleProxyReplaced` (`client`) | weak, each call's steps, each report of a death and its second step | worker pool, event loop and binder's death notices; the service need not come back |

In `DarkModeSchedule`, `AlarmTimerManager` and `AppearanceService` "eventually" is stated
as "when nothing is under way", without fairness.

**Properties to argue about.** `ColorFollowsSchedule` excepts, for early timers only, a
choice the user made after the last decision: between an early timer and its boundary
`DoSwitchTemporaryColorMode` judges the choice by the phase that is ending.
`OverrideWindowAhead` excepts a choice in the first minute of an interval over midnight.
`ConfigurationFollowsMemory` excepts what two handlers dealt with at the same time, what
failed to be sent, and a parameter that could not be written before the initialization was
over, because a late initialization reloads the old one; a switch that overlaps a setter
really does send the older value last. `BaseFollowsForeground` supposes that no user but
the one in front and user 100 has sub-profiles: `UpdateCurrentUserConfiguration` saves the
base parameters for whichever user's sub-profile is switched, also one in the background.
It also excepts, until the next switch, what was requested for a user in the background
(`behind`): `UpdateDarkModeCallback` and the setters save the base for whatever user they are
called for. `AcceptedIsApplied` withdraws its promise where a failing call was reported to
the caller. `RecalculatesInSunriseMode` speaks of a memory that has the table's mode, which
a late load can prevent for good, and allows for failed calls and for a pair of timers that
took the recalculation timer with it; `FollowsTheSun` accepts timers that the time service
refused. `SubscriptionsAccounted` counts a deaf observer against the failed calls.
`NullProxyOnlyInWindow` says that the client's null dereference needs a report of a death
between its two looks for the proxy. `StaleIsReported` and `StaleProxyReplaced` except a
proxy that could not be watched (`missed`), above all one whose service died between the
look-up and `AddDeathRecipient`: such a proxy is never replaced, and every later call fails.

Three runs show where the code does something else than its comments or documentation say
(quoted under `findings` in `PROJECT.json`):

| run | what TLC finds |
|---|---|
| `schedule_manual` | a manual choice before the settings are loaded, or before a mode change is notified, overwrites the automatic mode |
| `schedule_restart` | a choice is made and persisted with nothing under way, the process dies and comes up again, the choice is read back, and the notification sent on registration ends it; nobody writes a setting in this run (`QuietSpec`) |
| `locks_manual` | a manual choice that departs from the schedule locks the temporary state and then the settings, an observer the other way round: both wait for ever |

Other disagreements met on the way, without a run of their own: for a schedule starting at
0:00 the tolerance for an early timer is not wrapped over midnight, and the night stays
light; a manual choice in the first minute of a night interval gets a window that is
already over; a clock change with unset times switches to dark; a queued switch is carried
out when the screen goes off, and the documentation says on; `SetInt32ValuePair` promises
a rollback that it cannot do for an unreadable first value (the first gap of
`SettingsPair`); NaN passes the range check of the font scales.

## 5. What is proved

For every value of the constants that satisfies the modules' named assumptions:

| module | theorems | argument |
|---|---|---|
| `ScheduleTimeProofs` | `WithinMeansDark`: for every valid schedule the code's case analysis is `InDarkInterval`, the literal schedule over all days | a moment is a day and a second of it; only the interval that began today or yesterday can matter |
| `DarkModeScheduleProofs` | type correctness; `AllDayModeSettles`; `OverrideHolds` and `OverrideSurvives` if no unknown mode is written; `OverrideWindowAhead` for `SmallTimes`; `ColorFollowsSchedule` for `TimersInTolerance` | below |
| `AlarmTimerManagerProofs` | type correctness, `NoDanglingTimer`, `NoOrphanTimer`, `EveryTimerRestartable`, `BothTimersOrNone`, `TriggerMatchesSchedule`, `RestartRearmsAll` | below |
| `SunriseModeProofs`, the settings | `SubscriptionsAccounted`; `KeepsPromise`, the refinement of `SettingsPair`, as long as one writer writes at a time (`OneWriter`) | the writer's place determines the abstract phase and which value is new (`PairInv`); each step maps to a step or a stutter |
| `SunriseModeProofs`, the mode | type correctness; the pair is a valid schedule (`ScheduleIsValidHolds`) and dark exactly at night (`NightIsDarkHolds`) for every sky, day and time zone; `RecalculatesInSunriseMode`, `SunNightIsDark`, `ObserversKeepOrder` | below |
| `AppearanceClientProofs` | type correctness, `StaleIsReported`, `AnswerIsTrue`, `NullProxyOnlyInWindow` for any number of calls and deaths | what each phase of a call has seen of the proxy and of the service's incarnation |
| `AppearanceServiceProofs` | type correctness, `AcceptedIsApplied`, `ConfigurationFollowsMemory` for any users, accounts, parameters, failures and crashes | below |
| `AppearanceBaseProofs` | `BaseFollowsForeground`, for the same | below |
| `DarkModeThreadsProofs` | type correctness with mutual exclusion of the observers, `ChoiceIsPersisted`, `ColorsAgree`, `ColorFollowsState` for any settings and number of events | below |
| `DarkModeThreadsProofs`, the mutexes of `Locking` | type correctness, `KeepsDiscipline`, `NoDeadlock` for any threads, mutexes, levels and handlers that keep `LockDiscipline` | below |

`DarkModeSchedule`: for the all-day mode and the manual choice, time does not matter.
`AllDayInv` says what an all-day mode in memory has done at once and what once its
notification is handled; `ChoiceInv` ties the temporary state in memory to the persisted
one, and both to the colour. An unknown mode in the settings is excluded because
`OnStateChangeLocked` does nothing for it: a switch queued before it would outlive the
manual choice that follows. `ColorFollowsSchedule` needs time. `ScheduleInv` says that the
two timers are the next start and the next end (or overdue by `LATE` at most, or a day on
already if they came early) and that between firings the colour is the one the next firing
ends; that the order of the next start and the next end is the schedule itself, seen `EARLY`
seconds ahead (`OrderMeansDark`, `WithinMeansDark`), turns this into the literal schedule.
What carries it over a firing is `CallbackDecision`: an early callback decides as the moment
of its timer would, a late one as the moment it runs at; and no other boundary can lie in
between, two of them being a minute apart at least (`MinutesApart`). The hypothesis
`TimersInTolerance` asks for a tolerance above zero, times that are int32 and, only where
timers may be early, that no schedule starts at 0:00. It is needed: TLC refutes
`ScheduleInv` for such a schedule and timers a second early, which is the disagreement of
section 4, and confirms it for the others.
`OverrideWindowAhead` needs no history: the end of the window that the case analysis
computes is a begin of the right minute of the schedule within the coming day
(`WindowLasts`), and there is only one (`BeginsOnce`). The proof is what pinned down the
exception, a choice made in the first minute of an interval that ends tomorrow:
`IsWithInPreInterval` compares whole minutes and takes it for the time before, so that its
window ends where it began.

`AlarmTimerManager`: none of the invariants is inductive alone. `BothTimersOrNone` only
speaks of quiet moments, so `IInv` adds what holds in between: a call in progress works on
a user that has an entry and nobody owes a clearing meanwhile (`OpInv`), and a user with
an entry lacks a timer only if it is the one being scheduled or owed (`TimersInv`). That
no orphan arises when the new timer replaces the old one needs that no two entries share a
timer, which follows from `NoDanglingTimer`, as the service knows one owner per timer. The
proof goes action by action over `Effect`, what any call of the manager can do to the
service. `TriggerInv` and `SetupInv` add what a timer was set for, and the arithmetic of
remainders by a day of unknown length gives the last two theorems.

`SunriseMode`: `ModeInv` says who will put right what is not right yet. A recalculation timer
that runs in another mode is one that the observer of the mode is about to clear, or the mode
of the table is still to be told or differs from the memory's for good; one that is missing
in the sunrise mode is about to be set by loading or by the observer, or went with the
timers, or a call has failed. What the observer has read is the table's, or the table has
changed since and it will be called again (`MayChange`).

`Locking`: the inductive invariant ties what the runtime knows (`owner`) to what the code
says (the sections around a position). Were all threads inside handlers waiting, take the
one that waits for a mutex of the lowest level (`LowestLevel`, well-foundedness of the
natural numbers): its owner waits, by the discipline, for a still lower one. That the
service's handlers satisfy the hypothesis, but for `ManualHandlers`, is what the run
`locks` checks: it takes every handler through every step.

`DarkModeThreads`: `Base` types every thread by its place. `TimersInv`, a lemma, says the
timers are those of the memory in a context that was not left; it needs that loading is
never under way in one that was. `ChoiceInv`: from loading on, either nobody
saves and the parameters are right, or exactly one thread saves and what it has copied is
still the choice. `ColorInv`: either nobody has decided and the three places agree, or
exactly one thread has, and its place says which of the three already hold its colour
(`Stage`). `FollowInv` says of which colour: while nobody has decided, the colour or the
queued switch is the one of the state in memory, or a manual choice stands, or a decision
that puts it right is due, because a callback or an observer is on its way (`Due`); while
one thread has decided, its place says what it knows of the state, the queue and the
choice (`GoesIpc`, `GoesElse`). Two cases need more. A manual choice in an all-day mode is
right only because it rewrites the mode, whose observer is then due. Loading an all-day
mode while a manual choice stands sets no colour; that the colour is right all the same
needs that what was read agrees with the memory for every setting whose observer is not
due (`SettingsInv`), which is where the settings that loading overwrote are excepted. All
of these were checked by TLC as invariants of the instance first.

`AppearanceService`: what an account was promised is in danger wherever a handler is
between two of its calls, and a handler is a list of calls still to be made, of any length
(one for each account, one for each user in front). So the parts of `IInv` speak of every
position in every list and of what comes before it (`Before`). `ApartInv`: a handler keeps
to its items, and two that share one know that they are in doubt. `PromiseInv`: from the
writing of a parameter to the promise a handler writes nothing else of an account, and
what it is going to promise is in memory and, once written, in the parameter. `UpgradeInv`:
nobody initializes before the upgrade, and neither is over before every account got what
there was to carry, or gave up its promise. A step replaces the head of one list by others
(`Proceeds`), so the lemmas `TypesKept`, `ApartKept`, `PromiseKept`, `UpgradeKept` and
`AcceptedKept` say once, for any list, when such a step keeps each part, from what the step
writes (`Calm`) and what it puts first; each of the twenty handler steps then shows only
that. `IInv` was checked by TLC as an invariant of the instance and of a smaller one with
another choice of parameters.

`ConfigurationFollowsMemory` is about two places that no handler writes together, and it
is claimed only when all handlers have come to an end. `SInv`, inductive relative to
`IInv`, says what holds before. `ShapeInv`: what a list of calls looks like: a
configuration is sent only if its value is saved later in the same list, what follows an
`update` or a `send` is known. `ShownInv`: whatever is going to be sent fits the memory and
the account in front, or a switch to another one still waits. `SoleInv`: as long as any
user's configuration is without doubt, no two handlers deal with the same item; this is
what makes a step of one handler harmless to the others. `EventsInv`: the last waiting
switch of a user's sub-profiles is the one to the account in front. `FollowInv` ties them
together: a user whose configuration is without doubt sees the account in front, or a
switch to it is awaited, or a forced send is under way, and each item agrees with memory
but for one that a handler is about to save. Then, as in `IInv`, one lemma per kind of step
shows that each part is kept (`NextSInv`), and with no events, requests or lists left
nothing is pending (`NothingIsPending`). Three things came of the proof. An initialization
that comes after a failed write reloads the parameter from before it, so such a write puts
every account in doubt. A switch that has to send a configuration cannot do so while
the application manager is down, also where no failure of a call is left. And user identifiers must be numbers, as a user of the model and
`Nobody` could otherwise be the same.

`BaseFollowsForeground` is about the one set of parameters that every account's handlers
write, each a part of it, and it says nothing while any of them is under way. `BInv`,
inductive relative to `IInv` and `SInv`, says which of them will have the last word.
`DoubtInv`: a handler that shares an item with another shows nothing to anybody, so while
something is shown such handlers can be left aside. `BaseShapeInv`: the base is written
after the configuration is sent and before the account that it belongs to, and what is then
saved for the account is what the base already holds. `BaseFitsInv`: what a handler is going
to write to the base is the account in front, or will be when it is saved later in the same
list, or something that comes after it, in its list or among the events that wait, makes the
account in front the base again (`Rebases`). `SwitchedInv`: the last waiting switch of users
is the one to the user in front. `BaseFollowInv` ties them together: such a switch is
awaited, or a handler that ends in the base being written is under way, or each item of the
base agrees with the account in front, save one that a handler is about to write in either
place. Each handler's step shows only what it writes and what it puts first in its list; the
lemmas about lists (`ListStep` and what follows it) carry the rest. The hypothesis about
sub-profiles is needed in `BaseFitsInv`: an update for a user in the background would be
written to the base, and nothing comes after it.

The proof of the client found that with no deaths allowed and the service down at the start
the type invariant did not hold; the assumption on `DEATHS` is what came of it.

Model-checked only: all liveness (fairness and `ENABLED` are out of the prover's reach).

## 6. Not modelled

* `SmartGestureManager`: one setting whose observer passes it on; its registration is
  `SettingDataManager`'s. `BackGroundAppColorSwitchSettings`, `JsonUtils`: a list read once
  and handed on. The native interface: a call-through.
* The astronomy of `SunriseSunsetInfo`: floating point.
* Permission checks, `Dump`, marshalling, the wording of errors.
* `RestartTimer` and a change of context in the sunrise mode, and a `NotifyChange` of
  DataShare that is lost.
* More than one account in the schedule and its threads: the code works on the context in
  front; that switches carry the right account is `AppearanceService`'s subject.
* Days of 23 or 25 hours, and parameters that cannot be read.
