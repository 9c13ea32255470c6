---------------------------- MODULE SunriseMode ----------------------------
(***************************************************************************)
(* The sunrise/sunset mode of DarkModeManager, for one context whose       *)
(* observers are registered: where the sun goes down is calculated now and *)
(* again, written to two settings (SettingDataManager), and comes back     *)
(* through the observers of the two settings, one after the other, into    *)
(* the memory that the timers are set from.                                *)
(*                                                                         *)
(* Threads: loading the settings, the observers of the mode and of the two *)
(* times, and the callback of the recalculation timer; three of them may   *)
(* calculate and write the pair while the others do.  A section under      *)
(* darkModeStatesMutex_ is one step, and so is each reading of a setting   *)
(* before it: what was read may be old when the mutex is taken.  Which     *)
(* colour the schedule gives is the subject of DarkModeSchedule.           *)
(***************************************************************************)
EXTENDS SettingDataManager, SunriseSunset, Sequences

CONSTANTS
    ModeKey,
    SUNSET_TIME_DEFAULT, SUNRISE_TIME_DEFAULT,
    SkyChoices,         \* the skies that the device may be under
    ModeChoices,        \* the modes that the user chooses
    TimesChoices,       \* what the two settings may hold at first
    EVENTS              \* bound on failing calls and changes of sky, location and mode

DARK_MODE_INVALID == -1
DARK_MODE_ALWAYS_LIGHT == 0
DARK_MODE_ALWAYS_DARK == 1
DARK_MODE_CUSTOM_AUTO == 2
DARK_MODE_SUNRISE_SUNSET == 3

ASSUME SunriseModeAssumption ==
    /\ ModeKey \in Keys \ {FirstKey, SecondKey}
    /\ {"load", "observer", "recalculation"} \subseteq Writers
    /\ SUNSET_TIME_DEFAULT \in 0 .. DAY_TO_MINUTE - 1
    /\ SUNRISE_TIME_DEFAULT \in Nat
    /\ IsValidScheduleTime(SUNSET_TIME_DEFAULT, SUNRISE_TIME_DEFAULT)
    /\ SkyChoices \subseteq Skies /\ SkyChoices # {}
    /\ \A sky \in SkyChoices : GetSunset(sky) \in Numbers /\ GetSunrise(sky) \in Numbers
    /\ ModeChoices \subseteq DARK_MODE_ALWAYS_LIGHT .. DARK_MODE_SUNRISE_SUNSET
    /\ TimesChoices \subseteq Text \X Text
    /\ EVENTS \in Nat

VARIABLES
    sun,            \* environment: SunriseSunsetInfo for the place, day and time zone
    located,        \* environment: GetCachedLocation finds a location
    state,          \* darkModeStates_[context]: mode, sunset, sunrise
    armed,          \* the schedule that the pair of timers is set for
    recalculation,  \* the recalculation timer: "on", "off", or "lost" with the pair of timers
    loaded,         \* LoadUserSettingData: the settings read so far
    seen,           \* the value each observer has read and not yet taken, if any
    thread,         \* where a thread is in what it does around the pair
    changes         \* changes of the environment so far

environment == << sun, located, changes >>
memory == << state, armed, recalculation >>
modeVars == << environment, memory, loaded, seen, thread >>
vars == << settingVars, modeVars >>

NoTimers == << >>
CustomTimers == << DARK_MODE_CUSTOM_AUTO >>
RefusedTimers == << DARK_MODE_INVALID >>    \* none, as the time service failed
SunOf == [sky \in SkyChoices |->
            [condition |-> Condition(sky), pair |-> << GetSunset(sky), GetSunrise(sky) >>]]
MemoryPair == << state.sunset, state.sunrise >>
Threads == {"load", "observer"}
Observed == {ModeKey, FirstKey, SecondKey}
LoadOrder == << ModeKey, FirstKey, SecondKey >>

\* The observers have just been registered and told once.
Init ==
    /\ isInitialized = TRUE
    /\ observers = Keys /\ heard = Keys
    /\ subscribed = [key \in Keys |-> 1] /\ pending = subscribed
    /\ \E sky \in SkyChoices : sun = SunOf[sky]
    /\ located \in BOOLEAN
    /\ \E mode \in ModeChoices, times \in TimesChoices :
           table = [key \in Keys |-> CASE key = ModeKey -> Strict(mode)
                                       [] key = FirstKey -> times[1]
                                       [] key = SecondKey -> times[2]
                                       [] OTHER -> Absent]
    /\ writer = [w \in Writers |-> NotCalled]
    /\ faults = 0
    /\ state = [mode |-> DARK_MODE_INVALID, sunset |-> SUNSET_TIME_DEFAULT,
                sunrise |-> SUNRISE_TIME_DEFAULT]
    /\ armed = NoTimers /\ recalculation = "off"
    /\ loaded = << >> /\ seen = [key \in Observed |-> << >>]
    /\ thread = [w \in Threads |-> IF w = "load" THEN "start" ELSE "idle"]
    /\ changes = 0

-----------------------------------------------------------------------------
(* The environment.                                                        *)

Changes == changes < EVENTS /\ changes' = changes + 1

\* The day goes by, the device travels, or its time zone is set.
SkyChange ==
    /\ Changes
    /\ \E sky \in SkyChoices : sun' = SunOf[sky]
    /\ sun' # sun
    /\ UNCHANGED << settingVars, located, memory, loaded, seen, thread >>

\* The location is switched on or off, or the locator finds or loses it.
LocationChange ==
    /\ Changes
    /\ located' = ~located
    /\ UNCHANGED << settingVars, sun, memory, loaded, seen, thread >>

ChooseMode(mode) ==
    /\ Changes
    /\ table' = [table EXCEPT ![ModeKey] = Strict(mode)]
    /\ NotifyChange(ModeKey, subscribed)
    /\ UNCHANGED << isInitialized, observers, heard, subscribed, writer, faults, sun, located,
                    memory, loaded, seen, thread >>

-----------------------------------------------------------------------------
(* Sections under darkModeStatesMutex_.                                    *)

\* ClearTimerByUserId takes the recalculation timer along.
ClearTimerByUserId ==
    recalculation' = IF state'.mode = DARK_MODE_SUNRISE_SUNSET THEN "lost" ELSE "off"

CreateOrUpdateTimers(schedule) ==
    \/ armed' = schedule /\ UNCHANGED << recalculation, faults >>
    \/ armed' = RefusedTimers /\ ClearTimerByUserId /\ Fails

\* A mutant: an invalid schedule does not clear the timers.
Schedule_Unchecked(sunset, sunrise) == CreateOrUpdateTimers(<< sunset, sunrise >>)

\* SetScheduleTime refuses an invalid schedule, and the timers are cleared.
Schedule(sunset, sunrise) ==
    IF IsValidScheduleTime(sunset, sunrise) THEN CreateOrUpdateTimers(<< sunset, sunrise >>)
    ELSE armed' = NoTimers /\ ClearTimerByUserId /\ UNCHANGED faults

\* OnStateChangeLocked as far as timers go: an unknown mode leaves them alone.
OnStateChangeLocked ==
    CASE state'.mode \in {DARK_MODE_ALWAYS_LIGHT, DARK_MODE_ALWAYS_DARK} ->
            armed' = NoTimers /\ recalculation' = "off" /\ UNCHANGED faults
      [] state'.mode = DARK_MODE_SUNRISE_SUNSET -> Schedule(state'.sunset, state'.sunrise)
      [] state'.mode = DARK_MODE_CUSTOM_AUTO -> CreateOrUpdateTimers(CustomTimers)
      [] OTHER -> UNCHANGED << armed, recalculation, faults >>

Default(key) == CASE key = ModeKey -> DARK_MODE_INVALID
                  [] key = FirstKey -> SUNSET_TIME_DEFAULT
                  [] OTHER -> SUNRISE_TIME_DEFAULT

\* Reading a setting: what the table holds, or the default when that is no
\* number or DataShare fails.
Read(key, value) ==
    \/ value = GetInt32ValueStrictly(table[key], Default(key)) /\ UNCHANGED faults
    \/ value = Default(key) /\ Fails

Readings(key) == {GetInt32ValueStrictly(table[key], Default(key)), Default(key)}

settingsRead == << isInitialized, observers, heard, subscribed, table, writer >>

\* LoadUserSettingData reads one setting after the other,
LoadSetting ==
    /\ thread["load"] = "start" /\ Len(loaded) < Len(LoadOrder)
    /\ LET key == LoadOrder[Len(loaded) + 1]
       IN  \E value \in Readings(key) : Read(key, value) /\ loaded' = Append(loaded, value)
    /\ UNCHANGED << settingsRead, pending, environment, memory, seen, thread >>

\* and then takes the mode and the two times as it has read them.
LoadUserSettingData ==
    /\ thread["load"] = "start" /\ Len(loaded) = Len(LoadOrder)
    /\ state' = [mode |-> loaded[1], sunset |-> loaded[2], sunrise |-> loaded[3]]
    /\ OnStateChangeLocked
    /\ loaded' = << >>
    /\ thread' = [thread EXCEPT !["load"] =
                      IF state'.mode = DARK_MODE_SUNRISE_SUNSET THEN "calculate" ELSE "idle"]
    /\ UNCHANGED << settingsRead, pending, environment, seen >>

\* DataShare calls an observer, which reads its setting: one call at a time.
ReadChange(key) ==
    /\ seen[key] = << >>
    /\ key = ModeKey => thread["observer"] = "idle"
    /\ CallBack(key)
    /\ \E value \in Readings(key) : Read(key, value) /\ seen' = [seen EXCEPT ![key] = << value >>]
    /\ UNCHANGED << environment, memory, loaded, thread >>

Taken(key) == seen' = [seen EXCEPT ![key] = << >>]

SettingDataDarkModeModeUpdateFunc ==
    /\ seen[ModeKey] # << >> /\ Taken(ModeKey)
    /\ state' = [state EXCEPT !.mode = seen[ModeKey][1]]
    /\ OnStateChangeLocked
    /\ thread' = [thread EXCEPT !["observer"] =
                      IF state'.mode = DARK_MODE_SUNRISE_SUNSET THEN "calculate" ELSE "clear"]
    /\ UNCHANGED << settingsRead, pending, environment, loaded >>

ClearRecalculationTimer ==
    /\ thread["observer"] = "clear"
    /\ recalculation' = "off"
    /\ thread' = [thread EXCEPT !["observer"] = "idle"]
    /\ UNCHANGED << settingVars, environment, state, armed, loaded, seen >>

\* A mutant: the new value is taken whatever the other one is.
TimesAfter_Unchecked(key, value) ==
    IF key = FirstKey THEN << value, state.sunrise >> ELSE << state.sunset, value >>

\* What an observer of one of the two times makes of the value it has read: one
\* on the wrong side of the other time in memory resets both.
TimesAfter(key, value) ==
    LET times == IF key = FirstKey THEN << value, state.sunrise >> ELSE << state.sunset, value >>
    IN  IF times[1] >= times[2] THEN << SUNSET_TIME_DEFAULT, SUNRISE_TIME_DEFAULT >> ELSE times

\* The observer of sunset or of sunrise.
SettingDataTimeUpdateFunc(key) ==
    /\ seen[key] # << >> /\ Taken(key)
    /\ state' = [state EXCEPT !.sunset = TimesAfter(key, seen[key][1])[1],
                              !.sunrise = TimesAfter(key, seen[key][1])[2]]
    /\ OnStateChangeLocked
    /\ UNCHANGED << settingsRead, pending, environment, loaded, thread >>

-----------------------------------------------------------------------------
(* CalculateAndApplySunriseSunsetTimes, and who calls it.                  *)

\* A mutant: the pair is compared with the table, not with the memory.
Unchanged_Table == << table[FirstKey], table[SecondKey] >> = << Strict(sun.pair[1]), Strict(sun.pair[2]) >>

Unchanged == MemoryPair = sun.pair

SomethingToApply ==
    /\ located /\ sun.condition = "NORMAL"
    /\ state.mode = DARK_MODE_SUNRISE_SUNSET /\ ~Unchanged

ApplySunriseSunsetTimes(w) == SomethingToApply /\ ReadFirst(w, sun.pair[1], sun.pair[2])

\* The recalculation timer repeats.  A callback with nothing to apply, or
\* without a cached location, changes nothing.
RecalculationCallback ==
    /\ recalculation = "on"
    /\ ApplySunriseSunsetTimes("recalculation")
    /\ UNCHANGED modeVars

\* InitSunriseSunsetMode, the end of loading and of the observer of the mode.
InitSunriseSunsetMode(w) ==
    /\ thread[w] = "calculate"
    /\ thread' = [thread EXCEPT ![w] = "after"]
    /\ \/ ApplySunriseSunsetTimes(w)
       \/ ~SomethingToApply /\ UNCHANGED settingVars
    /\ UNCHANGED << environment, memory, loaded, seen >>

\* A mutant: the mode is not looked at again.
SetRecalculationTimer_Always(w) ==
    /\ thread[w] = "after" /\ writer[w].pc = "idle"
    /\ recalculation' = "on"
    /\ thread' = [thread EXCEPT ![w] = "idle"]
    /\ UNCHANGED << settingVars, environment, state, armed, loaded, seen >>

\* The recalculation timer is set if the mode is still the same and the timer
\* does not run; whether the time service can set it is not looked at.
SetRecalculationTimer(w) ==
    /\ thread[w] = "after" /\ writer[w].pc = "idle"
    /\ thread' = [thread EXCEPT ![w] = "idle"]
    /\ IF state.mode = DARK_MODE_SUNRISE_SUNSET /\ recalculation # "on"
       THEN \/ recalculation' = "on" /\ UNCHANGED faults
            \/ Fails /\ UNCHANGED recalculation
       ELSE UNCHANGED << recalculation, faults >>
    /\ UNCHANGED << settingsRead, pending, environment, state, armed, loaded, seen >>

SetInt32ValuePair(w) == PairStep(w) /\ UNCHANGED modeVars

-----------------------------------------------------------------------------
Starting(w) ==
    \/ w = "load" /\ (LoadSetting \/ LoadUserSettingData)
    \/ /\ w = "observer"
       /\ ReadChange(ModeKey) \/ SettingDataDarkModeModeUpdateFunc \/ ClearRecalculationTimer
    \/ w = "recalculation" /\ RecalculationCallback

ThreadStep(w) ==
    \/ Starting(w)
    \/ w \in Threads /\ (InitSunriseSunsetMode(w) \/ SetRecalculationTimer(w))
    \/ SetInt32ValuePair(w)

TimeObserver(key) == ReadChange(key) \/ SettingDataTimeUpdateFunc(key)

Step ==
    \/ SkyChange \/ LocationChange
    \/ \E mode \in ModeChoices : ChooseMode(mode)
    \/ \E key \in {FirstKey, SecondKey} : TimeObserver(key)
    \/ \E w \in Writers : ThreadStep(w)

Next == Step /\ changes' + faults' <= EVENTS

\* DataShare delivers the changes of the times and the two observers run to
\* their end, the timer goes off again and again and its callback ends.
\* Loading and the observer of the mode may take for ever, and nothing says
\* that the device is ever located.
Fairness ==
    /\ WF_vars(TimeObserver(FirstKey)) /\ WF_vars(TimeObserver(SecondKey))
    /\ WF_vars(ThreadStep("recalculation"))

Spec == Init /\ [][Next]_vars /\ Fairness

-----------------------------------------------------------------------------
TypeOK ==
    /\ SettingTypeOK
    /\ sun \in [condition : {"NORMAL", "POLAR_DAY", "POLAR_NIGHT"}, pair : Int \X Int]
    /\ located \in BOOLEAN
    /\ state \in [mode : DARK_MODE_INVALID .. DARK_MODE_SUNRISE_SUNSET, sunset : Int, sunrise : Int]
    /\ armed \notin {NoTimers, CustomTimers, RefusedTimers} =>
            armed \in Int \X Int /\ IsValidScheduleTime(armed[1], armed[2])
    /\ recalculation \in {"on", "off", "lost"}
    /\ Len(loaded) <= Len(LoadOrder) /\ \A i \in 1 .. Len(loaded) : loaded[i] \in Int
    /\ \A key \in Observed : seen[key] # << >> => Len(seen[key]) = 1 /\ seen[key][1] \in Int
    /\ thread \in [Threads -> {"idle", "start", "calculate", "after", "clear"}]
    /\ changes \in 0 .. EVENTS

Quiet == (\A w \in Threads : thread[w] = "idle") /\ pending[ModeKey] = 0 /\ seen[ModeKey] = << >>

MemoryIsCurrent == state.mode = GetInt32ValueStrictly(table[ModeKey], DARK_MODE_INVALID)

\* Once whoever was changing the mode has come to an end, with the mode of the
\* table in memory, the timer that keeps up with the sun does not run outside
\* the sunrise mode; and it runs in it, unless it went with a pair of timers
\* that could not be set or a call of a service has failed.  It never runs in an
\* all-day mode.  (A load that ends late can leave an older mode than the
\* table's, and then neither is so.)
RecalculatesInSunriseMode ==
    /\ Quiet /\ MemoryIsCurrent =>
        /\ recalculation = "on" => state.mode = DARK_MODE_SUNRISE_SUNSET
        /\ state.mode = DARK_MODE_SUNRISE_SUNSET => recalculation # "off" \/ faults > 0
    /\ recalculation = "on" => state.mode \notin {DARK_MODE_ALWAYS_LIGHT, DARK_MODE_ALWAYS_DARK}

\* Two times that make a schedule go on making one, in whatever order and
\* between whatever writes the two observers run: only loading the settings
\* can bring in a pair that does not.
ObserversKeepOrder ==
    [][state.sunset < state.sunrise /\ state'.sunset >= state'.sunrise
        => LoadUserSettingData]_vars

\* Whenever the timers are set for the sun of the day, the schedule they are
\* set for is dark when it is night, minute by minute and in every time zone.
SunNightIsDark ==
    armed = sun.pair =>
        \A sky \in SkyChoices : sun = SunOf[sky] => NightIsDark(sky, armed[1], armed[2])

\* While the device is in the sunrise mode, located and with its recalculation
\* timer running, the memory comes to hold the sun of the day (which changes a
\* bounded number of times): a failed or torn write, two calculations at a time,
\* a load that ends late and the reset to the defaults by an observer that saw
\* one new and one old value are all made good by the next recalculation.  The
\* timers are then set for it, or the time service refused them: a pair that is
\* in memory is not written again.
InSunriseMode ==
    /\ state.mode = DARK_MODE_SUNRISE_SUNSET /\ recalculation = "on"
    /\ located /\ sun.condition = "NORMAL" /\ sun.pair[1] < sun.pair[2]

FollowsTheSun ==
    InSunriseMode ~> \/ MemoryPair = sun.pair /\ armed \in {sun.pair, RefusedTimers}
                     \/ ~InSunriseMode
=============================================================================
