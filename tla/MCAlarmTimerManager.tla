------------------------ MODULE MCAlarmTimerManager ------------------------
(* Two users, a schedule by day, one over midnight and one that is invalid. *)
EXTENDS AlarmTimerManager, TLC

MCSchedules == { << 1, 2 >>, << 2, 4 >>, << 2, 2 >> }
MCClock == {6, 9}
TimerIdSymmetry == Permutations(TimerIds)
=============================================================================
