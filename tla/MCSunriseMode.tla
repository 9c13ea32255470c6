--------------------------- MODULE MCSunriseMode ---------------------------
(* Days of four minutes: sunset at minute 2 and sunrise at minute 4 or 5   *)
(* when nothing is known, and two skies with the night on either side of   *)
(* midnight.                                                               *)
EXTENDS SunriseMode

Minutes == 0 .. 7
ThreeKeys == {"sun_set", "sun_rise", "mode"}
AllThreads == {"load", "observer", "recalculation"}

Sky(noon, angle, offset) ==
    [valid |-> TRUE, noon |-> noon, first |-> angle, rise |-> angle, set |-> angle,
     timezoneOffset |-> offset]

Ordinary == Sky(2, 1, 0)        \* sunrise 1, sunset 3
TimeZone == Sky(2, 1, 2)        \* the same in a time zone that is far off: sunset 1, sunrise 3

TwoSkies == {Ordinary, TimeZone}
Unset == {<< Absent, Absent >>}
=============================================================================
