---------------------------- MODULE ScheduleTime ----------------------------
(***************************************************************************)
(* The time arithmetic of the dark-mode schedule: the pure functions of    *)
(* AlarmTimerManager, DarkModeManager and TemporaryColorModeManager that   *)
(* decide whether a schedule is valid, when its two timers go off, whether *)
(* a moment lies in the dark interval and how long a manual override       *)
(* lasts.                                                                  *)
(*                                                                         *)
(* A schedule is a pair of minutes counted from local midnight; an end     *)
(* above DAY_TO_MINUTE lies on the next day.  A moment is a number of      *)
(* seconds since a local midnight (the code's time_t shifted by the time   *)
(* zone; days are taken to be equally long, so no daylight-saving switch). *)
(***************************************************************************)
EXTENDS Integers

CONSTANTS
    DAY_TO_MINUTE,      \* 1440 in the code, small in TLC
    MINUTE_TO_SECOND,   \* 60 in the code
    OFFSET_SECONDS,     \* 5 in the code: tolerance for a timer that is early
    UINT64_MODULUS      \* 2^64 in the code

ASSUME ScheduleTimeAssumption ==
    /\ DAY_TO_MINUTE \in Nat /\ DAY_TO_MINUTE > 1
    /\ MINUTE_TO_SECOND \in Nat \ {0}
    /\ OFFSET_SECONDS \in 0 .. (MINUTE_TO_SECOND - 1)
    /\ UINT64_MODULUS \in Nat /\ UINT64_MODULUS > 4 * DAY_TO_MINUTE

DAY_TO_SECOND == DAY_TO_MINUTE * MINUTE_TO_SECOND

\* The int32 settings are passed as uint64: an unset time (-1) becomes the
\* largest 64-bit value.
ToUint64(x) == x % UINT64_MODULUS

Midnight(now) == (now \div DAY_TO_SECOND) * DAY_TO_SECOND
SecondOfDay(now) == now % DAY_TO_SECOND
MinuteOfDay(now) == SecondOfDay(now) \div MINUTE_TO_SECOND

IsValidScheduleTime(start, end) ==
    /\ ToUint64(start) < ToUint64(end)
    /\ ToUint64(start) < DAY_TO_MINUTE
    /\ ToUint64(end) < DAY_TO_MINUTE + ToUint64(start)

\* A mutant: an end that is already past today is not moved to tomorrow.
SetTimerTriggerTime_PastEnd(start, end, now) ==
    LET startTimestamp == Midnight(now) + start * MINUTE_TO_SECOND
        endTimestamp == Midnight(now) + end * MINUTE_TO_SECOND
    IN  IF now <= startTimestamp THEN << startTimestamp, endTimestamp >>
        ELSE << startTimestamp + DAY_TO_SECOND, endTimestamp >>

\* The moments at which the start timer and the end timer first go off.
SetTimerTriggerTime(start, end, now) ==
    LET startTimestamp == Midnight(now) + start * MINUTE_TO_SECOND
        endTimestamp == Midnight(now) + end * MINUTE_TO_SECOND
    IN  IF now <= startTimestamp
        THEN << startTimestamp,
                IF now < endTimestamp - DAY_TO_SECOND
                THEN endTimestamp - DAY_TO_SECOND ELSE endTimestamp >>
        ELSE << startTimestamp + DAY_TO_SECOND,
                IF now >= endTimestamp
                THEN endTimestamp + DAY_TO_SECOND ELSE endTimestamp >>

IsWithinTimeInterval(start, end, now) ==
    LET s == ToUint64(start)
        e == ToUint64(end)
        totalMinutes == MinuteOfDay(now)
    IN  IF e <= DAY_TO_MINUTE
        THEN s <= totalMinutes /\ totalMinutes < e
        ELSE ~(e - DAY_TO_MINUTE <= totalMinutes /\ totalMinutes < s)

\* A mutant: no tolerance for a timer that is early.
CheckCurrentTimeInDarkInterval_NoOffset(start, end, now) ==
    IsWithinTimeInterval(start, end, now)

\* The test of the timer callback, OFFSET_SECONDS ahead of the boundaries.
CheckCurrentTimeInDarkInterval(start, end, now) ==
    LET seconds == SecondOfDay(now)
        afterStart == start * MINUTE_TO_SECOND - OFFSET_SECONDS < seconds
        before(minute) == seconds < minute * MINUTE_TO_SECOND - OFFSET_SECONDS
    IN  IF end <= DAY_TO_MINUTE
        THEN afterStart /\ before(end)
        ELSE afterStart \/ before(end - DAY_TO_MINUTE)

IsWithInPreInterval(start, now) == MinuteOfDay(now) <= start

\* A mutant: after midnight the window is moved to the next day as well.
GetTempColorModeTimeInfo_NextDay(start, end, now) ==
    LET within == IsWithinTimeInterval(start, end, now)
        offset == IF within THEN start + DAY_TO_MINUTE
                  ELSE IF end > DAY_TO_MINUTE \/ IsWithInPreInterval(start, now) THEN end
                  ELSE end + DAY_TO_MINUTE
    IN  [keepStart |-> now, keepEnd |-> Midnight(now) + offset * MINUTE_TO_SECOND - 1]

\* The window [start, end] during which a manual choice overrides the schedule.
GetTempColorModeTimeInfo(start, end, now) ==
    LET within == IsWithinTimeInterval(start, end, now)
        offset == IF end > DAY_TO_MINUTE
                  THEN IF ~within THEN end
                       ELSE IF IsWithInPreInterval(start, now) THEN start
                       ELSE start + DAY_TO_MINUTE
                  ELSE IF within THEN start + DAY_TO_MINUTE
                       ELSE IF IsWithInPreInterval(start, now) THEN end
                       ELSE end + DAY_TO_MINUTE
    IN  [keepStart |-> now, keepEnd |-> Midnight(now) + offset * MINUTE_TO_SECOND - 1]

\* The time test inside CheckTemporaryStateEffective.
TempStateNoTimeout(window, now) == window.keepStart < now /\ now < window.keepEnd

-----------------------------------------------------------------------------
(* Reference definitions, independent of the case analysis in the code.    *)

\* The schedule taken literally: some day's interval [start, end) holds now.
InDarkInterval(start, end, now) ==
    \E day \in {-1, 0} :
        LET from == Midnight(now) + day * DAY_TO_SECOND
        IN  /\ from + start * MINUTE_TO_SECOND <= now
            /\ now < from + end * MINUTE_TO_SECOND

\* The moments at which the schedule changes phase, within a day of now.
Boundaries(start, end, now) ==
    { Midnight(now) + day * DAY_TO_SECOND + minute * MINUTE_TO_SECOND :
        day \in -2 .. 2, minute \in {start, end} }

\* The first moment after now at which a minute of the schedule begins.
NextBegin(minute, now) ==
    CHOOSE b \in Boundaries(minute, minute, now) : now < b /\ b <= now + DAY_TO_SECOND
=============================================================================
