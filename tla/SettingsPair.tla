---------------------------- MODULE SettingsPair ----------------------------
(***************************************************************************)
(* What SetInt32ValuePair promises to the observers of two settings: both  *)
(* values change in one step or neither does, and observers are told only  *)
(* when both have.  The promise has two gaps, stated here as the guard of  *)
(* Tear: a first value that could not be read cannot be put back, and      *)
(* neither can any value once the settings fail twice in one call.         *)
(***************************************************************************)
EXTENDS SettingText

VARIABLES
    pair,       \* the two settings
    told,       \* which of the two have a notification under way
    failures,   \* calls of the settings that failed during this call
    phase       \* "idle", "called", "committed"

vars == << pair, told, failures, phase >>

Init ==
    /\ pair \in Text \X Text
    /\ told = {} /\ failures = 0 /\ phase = "idle"

\* Others write a setting, and observers register, between two calls.
Write ==
    /\ phase = "idle"
    /\ pair' \in Text \X Text /\ told' \subseteq {1, 2}
    /\ UNCHANGED << failures, phase >>

Call ==
    /\ phase = "idle" /\ phase' = "called" /\ failures' \in {0, 1}
    /\ UNCHANGED << pair, told >>

Failure ==
    /\ phase = "called" /\ failures' = failures + 1
    /\ UNCHANGED << pair, told, phase >>

Commit ==
    /\ phase = "called" /\ phase' = "committed"
    /\ pair' \in Text \X Text /\ failures' = 0
    /\ UNCHANGED told

\* The last notification is the end of the call.
Notify ==
    /\ phase = "committed"
    /\ told' \subseteq {1, 2}
    /\ \/ UNCHANGED << failures, phase >>
       \/ phase' = "idle" /\ failures' = 0
    /\ UNCHANGED pair

Deliver == told' \subseteq told /\ UNCHANGED << pair, failures, phase >>

\* The call fails, and returns with the settings as they were, but for the
\* spelling of a first value that had to be put back.
Refuse ==
    /\ phase = "called" /\ phase' = "idle" /\ failures' = 0
    /\ \/ UNCHANGED pair
       \/ Readable(pair[1]) /\ pair' = << Strict(pair[1].n), pair[2] >>
    /\ UNCHANGED told

\* The call fails, not for the first time or with a first value that was not
\* readable, and leaves a new first value beside the old second one.
Tear ==
    /\ phase = "called" /\ phase' = "idle" /\ failures' = 0
    /\ Readable(pair[1]) => failures > 0
    /\ pair' \in Text \X {pair[2]}
    /\ UNCHANGED told

Next == Write \/ Call \/ Failure \/ Commit \/ Notify \/ Deliver \/ Refuse \/ Tear

Spec == Init /\ [][Next]_vars
=============================================================================
