------------------------- MODULE MCDarkModeSchedule -------------------------
(* Days of three minutes of two or four seconds, for TLC.                  *)
EXTENDS DarkModeSchedule

\* A little over one and a half days, from the second midnight on.
ClockOf2 == 6 .. 15
ClockOf4 == 12 .. 29

\* The clock is set back to a morning, or forward to the next day.
JumpsOf2 == {7, 13}
JumpsOf4 == {13, 26}

\* Nobody writes a setting, and the user chooses when no notification is under
\* way: what is left to end a choice is what a restart brings.
QuietNext == Next /\ store' = store /\ (SetDarkMode => dirty = {})
QuietSpec == Init /\ [][QuietNext]_vars
=============================================================================
