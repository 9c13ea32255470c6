------------------------- MODULE SettingDataManager -------------------------
(***************************************************************************)
(* SettingDataManager between the service and the settings table: reading  *)
(* and writing settings, writing a pair of them, and the observers that    *)
(* the table's service (DataShare, external) calls when a setting changed. *)
(*                                                                         *)
(* Any call of DataShare may fail; FAULTS bounds how many do.  A key       *)
(* stands for an observer name, a setting key together with its user.      *)
(* SetInt32ValuePair is a sequence of calls of DataShare, so it is one     *)
(* step per call, run by the threads in Writers.                           *)
(***************************************************************************)
EXTENDS SettingText, FiniteSets

CONSTANTS
    Keys,               \* observer names
    FirstKey, SecondKey,    \* the two settings written as a pair
    Numbers,            \* the numbers written to settings
    Writers,            \* threads that write a pair
    FAULTS              \* bound on failing calls

ASSUME SettingDataManagerAssumption ==
    /\ {FirstKey, SecondKey} \subseteq Keys /\ FirstKey # SecondKey
    /\ Numbers \subseteq Nat
    /\ FAULTS \in Nat

VARIABLES
    isInitialized,
    observers,      \* observers_: the names registered
    heard,          \* the registered names whose observer DataShare took
    subscribed,     \* DataShare: how many observers of the name it would call
    pending,        \* DataShare: callbacks under way
    table,          \* the settings table: the text of each setting
    writer,         \* SetInt32ValuePair in progress
    faults          \* calls of DataShare that failed so far

dataShare == << heard, subscribed, pending >>
settingVars == << isInitialized, observers, dataShare, table, writer, faults >>

NotCalled == [pc |-> "idle", first |-> 0, second |-> 0, old |-> Absent, canRollback |-> FALSE]

Fails == faults < FAULTS /\ faults' = faults + 1

SettingInit ==
    /\ isInitialized = FALSE
    /\ observers = {} /\ heard = {}
    /\ subscribed = [key \in Keys |-> 0] /\ pending = subscribed
    /\ table \in [Keys -> (UNION {{Strict(n), Lax(n)} : n \in Numbers}) \cup {Garbage, Absent}]
    /\ writer = [w \in Writers |-> NotCalled]
    /\ faults = 0

-----------------------------------------------------------------------------
\* Both lookups of system abilities succeed, or nothing is remembered.
Initialize ==
    /\ ~isInitialized
    /\ \/ isInitialized' = TRUE /\ UNCHANGED faults
       \/ Fails /\ UNCHANGED isInitialized
    /\ UNCHANGED << observers, dataShare, table, writer >>

\* NotifyChange calls whoever observes the key; a callback under way stays.
NotifyChange(key, subscriptions) ==
    pending' = [pending EXCEPT ![key] = IF subscriptions[key] > @ THEN subscriptions[key] ELSE @]

\* A mutant: nobody looks whether the name is registered already.
RegisterObserver_NotLookedUp(key) ==
    /\ isInitialized
    /\ subscribed' = [subscribed EXCEPT ![key] = @ + 1]
    /\ observers' = observers \cup {key} /\ heard' = heard \cup {key}
    /\ NotifyChange(key, subscribed')
    /\ UNCHANGED << isInitialized, table, writer, faults >>

\* Without a helper nothing is filed; whether DataShare takes the observer is
\* not looked at, it is filed and the change is notified in either case.
RegisterObserver(key) ==
    /\ isInitialized /\ key \notin observers
    /\ \/ /\ subscribed' = [subscribed EXCEPT ![key] = @ + 1]
          /\ observers' = observers \cup {key} /\ heard' = heard \cup {key}
          /\ NotifyChange(key, subscribed')
          /\ UNCHANGED faults
       \/ /\ Fails
          /\ observers' = observers \cup {key}
          /\ NotifyChange(key, subscribed)
          /\ UNCHANGED << heard, subscribed >>
       \/ Fails /\ UNCHANGED << observers, dataShare >>
    /\ UNCHANGED << isInitialized, table, writer >>

\* The entry is erased whether or not DataShare could be told; it forgets an
\* observer that it took, and a callback under way is not stopped.
UnregisterObserver(key) ==
    /\ key \in observers
    /\ observers' = observers \ {key} /\ heard' = heard \ {key}
    /\ \/ /\ subscribed' = [subscribed EXCEPT ![key] = IF key \in heard THEN @ - 1 ELSE @]
          /\ UNCHANGED faults
       \/ Fails /\ UNCHANGED subscribed
    /\ UNCHANGED << isInitialized, pending, table, writer >>

\* Update, or Insert where there is no such row.
SetStringValue(key, text, needNotify) ==
    /\ isInitialized
    /\ \/ /\ table' = [table EXCEPT ![key] = text]
          /\ IF needNotify THEN NotifyChange(key, subscribed) ELSE UNCHANGED pending
          /\ UNCHANGED faults
       \/ Fails /\ UNCHANGED << table, pending >>
    /\ UNCHANGED << isInitialized, observers, heard, subscribed, writer >>

\* DataShare calls one observer, which calls its update function.
CallBack(key) ==
    /\ pending[key] > 0
    /\ pending' = [pending EXCEPT ![key] = @ - 1]
    /\ UNCHANGED << isInitialized, observers, heard, subscribed, table, writer >>

OnChange(key) == CallBack(key) /\ UNCHANGED faults

-----------------------------------------------------------------------------
(* SetInt32ValuePair, one step per call of DataShare.                      *)

pairRest == << isInitialized, observers, heard, subscribed >>

Begin(w, first, second, canRollback) ==
    writer' = [writer EXCEPT ![w] = [pc |-> "first", first |-> first, second |-> second,
                                     old |-> table[FirstKey], canRollback |-> canRollback]]
Goto(w, pc) == writer' = [writer EXCEPT ![w].pc = pc]
Committed(w) == writer' = [writer EXCEPT ![w] = [NotCalled EXCEPT !.pc = "notifyFirst"]]
Return(w) == writer' = [writer EXCEPT ![w] = NotCalled]

\* Reading the first value is an attempt: when it fails the call goes on.
\* Without a helper for each key it returns ERR_NO_INIT.
ReadFirst(w, first, second) ==
    /\ isInitialized /\ writer[w].pc = "idle"
    /\ \/ Begin(w, first, second, Readable(table[FirstKey])) /\ UNCHANGED faults
       \/ Begin(w, first, second, FALSE) /\ Fails
       \/ UNCHANGED writer /\ Fails
    /\ UNCHANGED << pairRest, pending, table >>

UpdateFirst(w) ==
    /\ writer[w].pc = "first"
    /\ \/ /\ table' = [table EXCEPT ![FirstKey] = Strict(writer[w].first)]
          /\ Goto(w, "second") /\ UNCHANGED faults
       \/ Fails /\ Return(w) /\ UNCHANGED table
    /\ UNCHANGED << pairRest, pending >>

\* A mutant: the first value is left as it is when the second update fails.
UpdateSecond_NoRollback(w) ==
    /\ writer[w].pc = "second"
    /\ \/ /\ table' = [table EXCEPT ![SecondKey] = Strict(writer[w].second)]
          /\ Committed(w) /\ UNCHANGED faults
       \/ Fails /\ Return(w) /\ UNCHANGED table
    /\ UNCHANGED << pairRest, pending >>

UpdateSecond(w) ==
    /\ writer[w].pc = "second"
    /\ \/ /\ table' = [table EXCEPT ![SecondKey] = Strict(writer[w].second)]
          /\ Committed(w) /\ UNCHANGED faults
       \/ /\ Fails /\ UNCHANGED table
          /\ IF writer[w].canRollback THEN Goto(w, "rollback") ELSE Return(w)
    /\ UNCHANGED << pairRest, pending >>

\* The number that was read is put back, not the text; nobody is told.
Rollback(w) ==
    /\ writer[w].pc = "rollback"
    /\ \/ /\ table' = [table EXCEPT ![FirstKey] = Strict(writer[w].old.n)]
          /\ UNCHANGED faults
       \/ Fails /\ UNCHANGED table
    /\ Return(w)
    /\ UNCHANGED << pairRest, pending >>

NotifyFirst(w) ==
    /\ writer[w].pc = "notifyFirst"
    /\ NotifyChange(FirstKey, subscribed) /\ Goto(w, "notifySecond")
    /\ UNCHANGED << pairRest, table, faults >>

NotifySecond(w) ==
    /\ writer[w].pc = "notifySecond"
    /\ NotifyChange(SecondKey, subscribed) /\ Return(w)
    /\ UNCHANGED << pairRest, table, faults >>

PairStep(w) ==
    \/ UpdateFirst(w) \/ UpdateSecond(w) \/ Rollback(w) \/ NotifyFirst(w) \/ NotifySecond(w)

NoPairInProgress == \A w \in Writers : writer[w].pc = "idle"

SettingNext ==
    \/ Initialize
    \/ \E key \in Keys :
        \/ OnChange(key)
        \/ /\ key \in {FirstKey, SecondKey} => NoPairInProgress
           /\ \/ RegisterObserver(key)
              \/ UnregisterObserver(key)
              \/ \E n \in Numbers, needNotify \in BOOLEAN : SetStringValue(key, Strict(n), needNotify)
    \/ \E w \in Writers :
        \/ \E first, second \in Numbers : ReadFirst(w, first, second)
        \/ PairStep(w)

SettingSpec == SettingInit /\ [][SettingNext]_settingVars

-----------------------------------------------------------------------------
SettingTypeOK ==
    /\ isInitialized \in BOOLEAN
    /\ observers \subseteq Keys /\ heard \subseteq observers
    /\ subscribed \in [Keys -> Nat] /\ pending \in [Keys -> Nat]
    /\ table \in [Keys -> Text]
    /\ writer \in [Writers -> [pc : {"idle", "first", "second", "rollback", "notifyFirst", "notifySecond"},
                             first : Numbers \cup {0}, second : Numbers \cup {0},
                             old : Text, canRollback : BOOLEAN]]
    /\ faults \in 0 .. FAULTS

\* What DataShare calls and what observers_ says are apart by no more than the
\* calls of DataShare that failed: an observer that DataShare took is called, one
\* more is called for each UnregisterObserver that DataShare never heard of, and
\* an observer is filed without being called only if its registration failed.
SubscriptionsAccounted ==
    \A key \in Keys :
        LET taken == IF key \in heard THEN 1 ELSE 0
            deaf == IF key \in observers \ heard THEN 1 ELSE 0
        IN  taken <= subscribed[key] /\ subscribed[key] + deaf <= taken + faults

-----------------------------------------------------------------------------
(* With one thread writing pairs, SetInt32ValuePair implements the promise *)
(* of SettingsPair: the pair changes when the second value is written or,  *)
(* if that fails, when the call returns.                                   *)

TheWriter == CHOOSE w \in Writers : TRUE
Call == writer[TheWriter]

PairNow == << IF Call.pc \in {"second", "rollback"} THEN Call.old ELSE table[FirstKey],
              table[SecondKey] >>
ToldNow == {i \in {1, 2} : pending[IF i = 1 THEN FirstKey ELSE SecondKey] > 0}
FailuresNow == (IF Call.pc # "idle" /\ Readable(Call.old) /\ ~Call.canRollback THEN 1 ELSE 0)
               + (IF Call.pc = "rollback" THEN 1 ELSE 0)
PhaseNow == CASE Call.pc \in {"first", "second", "rollback"} -> "called"
              [] Call.pc \in {"notifyFirst", "notifySecond"} -> "committed"
              [] OTHER -> "idle"

Promise == INSTANCE SettingsPair WITH
    pair <- PairNow, told <- ToldNow, failures <- FailuresNow, phase <- PhaseNow

\* A pair of settings is written whole, told to the observers only when it is
\* written, or left alone, with no gaps but those that SettingsPair names
\* (the comment of SetInt32ValuePair promises a rollback without them).
KeepsPromise == Promise!Spec
=============================================================================
