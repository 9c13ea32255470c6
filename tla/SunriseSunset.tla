--------------------------- MODULE SunriseSunset ---------------------------
(***************************************************************************)
(* SunriseSunsetInfo: from the sun over a place to the pair of minutes     *)
(* that the sunrise/sunset mode uses as its schedule.                      *)
(*                                                                         *)
(* The astronomy is left to a "sky": the UTC minute of solar noon and the  *)
(* hour angle, in minutes, or the reason why there is none, of the first   *)
(* iteration and of the two second ones (near the polar circles these can  *)
(* disagree).  Everything after the hour angle is here: the sentinel, the  *)
(* time zone, the rounding and the wrapping over midnight.                 *)
(***************************************************************************)
EXTENDS ScheduleTime

POLAR_MARK == -1
NeverRises == -2
NeverSets == -3
HourAngles == {NeverRises, NeverSets} \cup (0 .. DAY_TO_MINUTE \div 2)

\* A sky also knows the time zone, in minutes behind UTC, and whether the
\* coordinates and the time are such that there is anything to calculate.
Skies == [valid : BOOLEAN, noon : Int, first : HourAngles, rise : HourAngles,
          set : HourAngles, timezoneOffset : Int]

\* Polar day and polar night give the same mark.
CalcHourAngle(angle) == IF angle \in {NeverRises, NeverSets} THEN POLAR_MARK ELSE angle

\* Half a minute rounds up; the last half minute of the day is minute 0.
NormalizeRoundedMinutes(seconds) ==
    ((2 * seconds + MINUTE_TO_SECOND) \div (2 * MINUTE_TO_SECOND)) % DAY_TO_MINUTE

\* UTC seconds of an event at minute of the day, if both iterations find it.
CalcSunSeconds(first, second, minute) ==
    IF POLAR_MARK \in {CalcHourAngle(first), CalcHourAngle(second)}
    THEN POLAR_MARK
    ELSE NormalizeRoundedMinutes((minute % DAY_TO_MINUTE) * MINUTE_TO_SECOND) * MINUTE_TO_SECOND

CalculateSunriseSunset(sky) ==
    IF ~sky.valid THEN [sunrise |-> POLAR_MARK, sunset |-> POLAR_MARK]
    ELSE [sunrise |-> CalcSunSeconds(sky.first, sky.rise, sky.noon - sky.rise),
          sunset |-> CalcSunSeconds(sky.first, sky.set, sky.noon + sky.set)]

\* The constructor's classification.
Condition(sky) ==
    LET sun == CalculateSunriseSunset(sky)
    IN  IF sun.sunset # POLAR_MARK THEN "NORMAL"
        ELSE IF sun.sunrise = POLAR_MARK THEN "POLAR_NIGHT" ELSE "POLAR_DAY"

ToLocalMinutes(utcSec, timezoneOffset) ==
    NormalizeRoundedMinutes((utcSec - timezoneOffset * MINUTE_TO_SECOND) % DAY_TO_SECOND)

SunriseMinutes(sky) == ToLocalMinutes(CalculateSunriseSunset(sky).sunrise, sky.timezoneOffset)
SunsetMinutes(sky) == ToLocalMinutes(CalculateSunriseSunset(sky).sunset, sky.timezoneOffset)

\* A mutant: daylight over midnight is not thought of.
IsDaytime_NoWrap(sky, minute) ==
    \/ Condition(sky) = "POLAR_DAY"
    \/ /\ Condition(sky) = "NORMAL"
       /\ SunriseMinutes(sky) <= minute /\ minute < SunsetMinutes(sky)

IsDaytime(sky, minute) ==
    \/ Condition(sky) = "POLAR_DAY"
    \/ /\ Condition(sky) = "NORMAL"
       /\ IF SunriseMinutes(sky) < SunsetMinutes(sky)
          THEN SunriseMinutes(sky) <= minute /\ minute < SunsetMinutes(sky)
          ELSE SunriseMinutes(sky) <= minute \/ minute < SunsetMinutes(sky)

IsNighttime(sky, minute) ==
    \/ Condition(sky) = "POLAR_NIGHT"
    \/ Condition(sky) = "NORMAL" /\ ~IsDaytime(sky, minute)

GetSunset(sky) == SunsetMinutes(sky)

\* A sunrise before sunset is the next day's.
GetSunrise(sky) ==
    IF SunriseMinutes(sky) < SunsetMinutes(sky)
    THEN SunriseMinutes(sky) + DAY_TO_MINUTE ELSE SunriseMinutes(sky)

-----------------------------------------------------------------------------
\* The schedule made of sunset and sunrise is one that SetScheduleTime
\* accepts, unless the two fall into the same minute.
ScheduleIsValid(sky) ==
    /\ Condition(sky) = "NORMAL"
    /\ SunriseMinutes(sky) # SunsetMinutes(sky)
    => IsValidScheduleTime(GetSunset(sky), GetSunrise(sky))

\* The dark interval of a schedule is the night, minute by minute, also when
\* the time zone puts sunset before sunrise or sunrise on midnight.
NightIsDark(sky, sunset, sunrise) ==
    LET Dark(minute) == IsWithinTimeInterval(sunset, sunrise, minute * MINUTE_TO_SECOND)
    IN  Condition(sky) = "NORMAL" =>
            \A minute \in 0 .. DAY_TO_MINUTE - 1 : Dark(minute) <=> IsNighttime(sky, minute)
=============================================================================
