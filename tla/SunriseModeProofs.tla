------------------------- MODULE SunriseModeProofs -------------------------
(***************************************************************************)
(* The settings, for any keys, numbers and failing calls: every observer   *)
(* that DataShare calls is accounted for, and SetInt32ValuePair keeps the  *)
(* promise of SettingsPair if no two threads are in it.                    *)
(*                                                                         *)
(* The sunrise mode above them, for every length of the day, sky, time     *)
(* zone and history of settings: the schedule made of sunset and sunrise   *)
(* is valid and dark at night, its observers keep it in order, and it is   *)
(* recalculated exactly while the mode needs it.                           *)
(***************************************************************************)
EXTENDS SunriseMode, ScheduleTimeProofs

-----------------------------------------------------------------------------
(* The settings.                                                           *)

SettingInv == SettingTypeOK /\ SubscriptionsAccounted

\* Texts made of numbers are texts.
LEMMA TextType ==
    /\ \A n \in Int : Strict(n) \in Text /\ Lax(n) \in Text
    /\ Garbage \in Text /\ Absent \in Text
    /\ \A text \in Text : text.n \in Int
BY DEF Strict, Lax, Garbage, Absent, Text

\* Numbers of settings are integers.
LEMMA NumberType == \A n \in Numbers \cup {0} : n \in Int
BY SettingDataManagerAssumption

LEMMA SettingInitInv == SettingInit => SettingInv
<1> SUFFICES ASSUME SettingInit PROVE SettingInv
  OBVIOUS
<1>1. table \in [Keys -> Text]
  <2> DEFINE Texts == (UNION {{Strict(n), Lax(n)} : n \in Numbers}) \cup {Garbage, Absent}
  <2>1. ASSUME NEW text \in Texts PROVE text \in Text
    <3>1. CASE text \in UNION {{Strict(n), Lax(n)} : n \in Numbers}
      <4>1. PICK spellings \in {{Strict(n), Lax(n)} : n \in Numbers} : text \in spellings
        BY <3>1
      <4>2. PICK n \in Numbers : spellings = {Strict(n), Lax(n)}
        BY <4>1
      <4> QED
        BY <4>1, <4>2, TextType, NumberType
    <3>2. CASE text \in {Garbage, Absent}
      BY <3>2, TextType
    <3> QED
      BY <2>1, <3>1, <3>2
  <2>2. table \in [Keys -> Texts]
    BY DEF SettingInit
  <2> QED
    BY <2>1, <2>2
<1>2. faults \in 0 .. FAULTS
  BY SettingDataManagerAssumption DEF SettingInit
<1>3. writer \in [Writers -> [pc : {"idle", "first", "second", "rollback", "notifyFirst", "notifySecond"},
                              first : Numbers \cup {0}, second : Numbers \cup {0},
                              old : Text, canRollback : BOOLEAN]]
  BY TextType DEF SettingInit, NotCalled
<1>4. SettingTypeOK
  BY <1>1, <1>2, <1>3 DEF SettingInit, SettingTypeOK
<1>5. SubscriptionsAccounted
  BY DEF SettingInit, SubscriptionsAccounted
<1> QED
  BY <1>4, <1>5 DEF SettingInv

\* A call of DataShare that fails is counted.
LEMMA FailsType == ASSUME SettingInv, Fails PROVE faults' \in 0 .. FAULTS /\ faults' = faults + 1
BY SettingDataManagerAssumption DEF SettingInv, SettingTypeOK, Fails

\* What one key's registration adds up to.
Accounted(key) ==
    /\ (key \in heard) => subscribed[key] >= 1
    /\ (key \in heard) => subscribed[key] <= 1 + faults
    /\ (key \in observers \ heard) => subscribed[key] + 1 <= faults
    /\ (key \notin heard) => subscribed[key] <= faults

\* The property, without its conditional numbers.
LEMMA AccountedMeans ==
    ASSUME subscribed \in [Keys -> Nat], faults \in Nat, heard \subseteq observers
    PROVE  SubscriptionsAccounted <=> (\A key \in Keys : Accounted(key))
<1>1. ASSUME NEW key \in Keys
      PROVE  (LET taken == IF key \in heard THEN 1 ELSE 0
                  deaf == IF key \in observers \ heard THEN 1 ELSE 0
              IN  taken <= subscribed[key] /\ subscribed[key] + deaf <= taken + faults)
             <=> Accounted(key)
  <2>1. subscribed[key] \in Nat
    OBVIOUS
  <2>2. CASE key \in heard
    BY <2>1, <2>2 DEF Accounted
  <2>3. CASE key \in observers \ heard
    BY <2>1, <2>3 DEF Accounted
  <2>4. CASE key \notin observers
    BY <2>1, <2>4 DEF Accounted
  <2> QED
    BY <2>2, <2>3, <2>4
<1> QED
  BY <1>1 DEF SubscriptionsAccounted

\* Registering and unregistering, each of which may fail half-way.
LEMMA ObserverInv ==
    ASSUME SettingInv, NEW key \in Keys, RegisterObserver(key) \/ UnregisterObserver(key)
    PROVE  SettingInv'
<1>1. /\ observers \subseteq Keys /\ heard \subseteq observers
      /\ subscribed \in [Keys -> Nat] /\ pending \in [Keys -> Nat] /\ faults \in 0 .. FAULTS
      /\ FAULTS \in Nat
  BY SettingDataManagerAssumption DEF SettingInv, SettingTypeOK
<1>2. \A k \in Keys : Accounted(k)
  BY <1>1, AccountedMeans DEF SettingInv
<1>3. ASSUME NotifyChange(key, subscribed) PROVE pending' \in [Keys -> Nat]
  BY <1>1, <1>3 DEF NotifyChange
<1>4. SUFFICES /\ observers' \subseteq Keys /\ heard' \subseteq observers'
               /\ subscribed' \in [Keys -> Nat] /\ pending' \in [Keys -> Nat] /\ faults' \in 0 .. FAULTS
               /\ UNCHANGED << isInitialized, table, writer >>
               /\ \A k \in Keys : Accounted(k)'
  <2> SUFFICES ASSUME observers' \subseteq Keys, heard' \subseteq observers',
                      subscribed' \in [Keys -> Nat], pending' \in [Keys -> Nat], faults' \in 0 .. FAULTS,
                      UNCHANGED << isInitialized, table, writer >>,
                      \A k \in Keys : Accounted(k)'
               PROVE  SettingInv'
    OBVIOUS
  <2>1. SettingTypeOK'
    BY DEF SettingInv, SettingTypeOK
  <2>2. subscribed' \in [Keys -> Nat] /\ faults' \in Nat /\ heard' \subseteq observers'
    BY <1>1
  <2>3. SubscriptionsAccounted'
    BY <2>2 DEF SubscriptionsAccounted, Accounted
  <2> QED
    BY <2>1, <2>3 DEF SettingInv
<1>5. UNCHANGED << isInitialized, table, writer >>
  BY DEF RegisterObserver, UnregisterObserver
<1>6. ASSUME UNCHANGED << observers, heard, subscribed >>, faults' \in Nat, faults' >= faults
      PROVE  \A k \in Keys : Accounted(k)'
  <2> SUFFICES ASSUME NEW k \in Keys PROVE Accounted(k)'
    OBVIOUS
  <2>1. Accounted(k) /\ subscribed[k] \in Nat /\ faults \in Nat
    BY <1>1, <1>2
  <2> QED
    BY <1>6, <2>1 DEF Accounted
<1>7. CASE RegisterObserver(key)
  <2>1. key \notin observers
    BY <1>7 DEF RegisterObserver
  <2>2. CASE /\ subscribed' = [subscribed EXCEPT ![key] = @ + 1]
             /\ observers' = observers \cup {key} /\ heard' = heard \cup {key}
             /\ NotifyChange(key, subscribed')
             /\ UNCHANGED faults
    <3>1. subscribed' \in [Keys -> Nat] /\ pending' \in [Keys -> Nat]
      BY <1>1, <2>2 DEF NotifyChange
    <3>2. ASSUME NEW k \in Keys PROVE Accounted(k)'
      <4>1. Accounted(k) /\ subscribed[k] \in Nat /\ faults \in Nat
        BY <1>1, <1>2
      <4>2. subscribed'[k] = IF k = key THEN subscribed[k] + 1 ELSE subscribed[k]
        BY <1>1, <2>2
      <4> QED
        BY <1>1, <2>1, <2>2, <4>1, <4>2 DEF Accounted
    <3> QED
      BY <1>1, <1>5, <2>2, <3>1, <3>2
  <2>3. CASE /\ Fails
             /\ observers' = observers \cup {key}
             /\ NotifyChange(key, subscribed)
             /\ UNCHANGED << heard, subscribed >>
    <3>1. pending' \in [Keys -> Nat] /\ faults' \in 0 .. FAULTS /\ faults' = faults + 1
      BY <1>1, <1>3, <2>3, FailsType
    <3>2. ASSUME NEW k \in Keys PROVE Accounted(k)'
      <4>1. Accounted(k) /\ subscribed[k] \in Nat /\ faults \in Nat
        BY <1>1, <1>2
      <4> QED
        BY <1>1, <2>1, <2>3, <3>1, <4>1 DEF Accounted
    <3> QED
      BY <1>1, <1>5, <2>3, <3>1, <3>2
  <2>4. CASE Fails /\ UNCHANGED << observers, dataShare >>
    <3>1. faults' \in 0 .. FAULTS /\ faults' = faults + 1
      BY <2>4, FailsType
    <3>2. \A k \in Keys : Accounted(k)'
      BY <1>1, <1>6, <2>4, <3>1 DEF dataShare
    <3> QED
      BY <1>1, <1>5, <2>4, <3>1, <3>2 DEF dataShare
  <2> QED
    BY <1>7, <2>2, <2>3, <2>4 DEF RegisterObserver
<1>8. CASE UnregisterObserver(key)
  <2>1. /\ key \in observers /\ observers' = observers \ {key} /\ heard' = heard \ {key}
        /\ UNCHANGED pending
    BY <1>8 DEF UnregisterObserver
  <2>2. CASE subscribed' = [subscribed EXCEPT ![key] = IF key \in heard THEN @ - 1 ELSE @] /\ UNCHANGED faults
    <3>1. key \in heard => subscribed[key] >= 1
      BY <1>2 DEF Accounted
    <3>2. subscribed' \in [Keys -> Nat]
      BY <1>1, <2>2, <3>1
    <3>3. ASSUME NEW k \in Keys PROVE Accounted(k)'
      <4>1. Accounted(k) /\ subscribed[k] \in Nat /\ faults \in Nat
        BY <1>1, <1>2
      <4>2. subscribed'[k] = IF k = key /\ key \in heard THEN subscribed[k] - 1 ELSE subscribed[k]
        BY <1>1, <2>2
      <4> QED
        BY <1>1, <2>1, <2>2, <4>1, <4>2 DEF Accounted
    <3> QED
      BY <1>1, <1>5, <2>1, <2>2, <3>2, <3>3
  <2>3. CASE Fails /\ UNCHANGED subscribed
    <3>1. faults' \in 0 .. FAULTS /\ faults' = faults + 1
      BY <2>3, FailsType
    <3>2. ASSUME NEW k \in Keys PROVE Accounted(k)'
      <4>1. Accounted(k) /\ subscribed[k] \in Nat /\ faults \in Nat
        BY <1>1, <1>2
      <4> QED
        BY <1>1, <2>1, <2>3, <3>1, <4>1 DEF Accounted
    <3> QED
      BY <1>1, <1>5, <2>1, <2>3, <3>1, <3>2
  <2> QED
    BY <1>8, <2>2, <2>3 DEF UnregisterObserver
<1> QED
  BY <1>7, <1>8

\* What else happens leaves the registrations alone.
LEMMA OtherInv ==
    ASSUME SettingInv, UNCHANGED << observers, heard, subscribed >>,
           isInitialized' \in BOOLEAN, pending' \in [Keys -> Nat], table' \in [Keys -> Text],
           faults' \in 0 .. FAULTS, faults' >= faults,
           writer' \in [Writers -> [pc : {"idle", "first", "second", "rollback", "notifyFirst", "notifySecond"},
                                    first : Numbers \cup {0}, second : Numbers \cup {0},
                                    old : Text, canRollback : BOOLEAN]]
    PROVE  SettingInv'
<1>1. SettingTypeOK'
  BY DEF SettingInv, SettingTypeOK
<1>2. /\ faults \in Nat /\ faults' \in Nat /\ subscribed \in [Keys -> Nat] /\ subscribed' \in [Keys -> Nat]
      /\ heard \subseteq observers /\ heard' \subseteq observers'
  BY DEF SettingInv, SettingTypeOK
<1>3. ASSUME NEW k \in Keys PROVE Accounted(k)'
  <2>1. Accounted(k) /\ subscribed[k] \in Nat
    BY <1>2, AccountedMeans DEF SettingInv
  <2> QED
    BY <1>2, <2>1 DEF Accounted
<1>4. SubscriptionsAccounted'
  BY <1>2, <1>3 DEF SubscriptionsAccounted, Accounted
<1> QED
  BY <1>1, <1>4 DEF SettingInv

LEMMA SettingNextInv == SettingInv /\ [SettingNext]_settingVars => SettingInv'
<1> SUFFICES ASSUME SettingInv, [SettingNext]_settingVars PROVE SettingInv'
  OBVIOUS
<1> DEFINE Calls == [pc : {"idle", "first", "second", "rollback", "notifyFirst", "notifySecond"},
                     first : Numbers \cup {0}, second : Numbers \cup {0}, old : Text, canRollback : BOOLEAN]
<1>1. /\ isInitialized \in BOOLEAN /\ subscribed \in [Keys -> Nat] /\ pending \in [Keys -> Nat]
      /\ table \in [Keys -> Text] /\ writer \in [Writers -> Calls] /\ faults \in 0 .. FAULTS
      /\ FirstKey \in Keys /\ SecondKey \in Keys /\ FAULTS \in Nat /\ faults >= faults
  BY SettingDataManagerAssumption DEF SettingInv, SettingTypeOK
<1>2. ASSUME Fails PROVE faults' \in 0 .. FAULTS /\ faults' >= faults
  BY <1>1, <1>2, FailsType
<1>3. ASSUME NEW key \in Keys, NotifyChange(key, subscribed) PROVE pending' \in [Keys -> Nat]
  BY <1>1, <1>3 DEF NotifyChange
<1>4. CASE Initialize
  BY <1>1, <1>2, <1>4, OtherInv DEF Initialize, dataShare
<1>5. ASSUME NEW key \in Keys, OnChange(key) PROVE SettingInv'
  <2>1. pending' \in [Keys -> Nat]
    BY <1>1, <1>5 DEF OnChange, CallBack
  <2> QED
    BY <1>1, <1>5, <2>1, OtherInv DEF OnChange, CallBack
<1>6. ASSUME NEW key \in Keys, NEW n \in Numbers, NEW needNotify \in BOOLEAN,
             SetStringValue(key, Strict(n), needNotify)
      PROVE  SettingInv'
  <2>1. pending' \in [Keys -> Nat]
    BY <1>1, <1>3, <1>6 DEF SetStringValue
  <2>2. table' \in [Keys -> Text]
    BY <1>1, <1>6, TextType, NumberType DEF SetStringValue
  <2>3. faults' \in 0 .. FAULTS /\ faults' >= faults
    BY <1>1, <1>2, <1>6 DEF SetStringValue
  <2> QED
    BY <1>1, <1>6, <2>1, <2>2, <2>3, OtherInv DEF SetStringValue
<1>7. ASSUME NEW w \in Writers, NEW first \in Numbers, NEW second \in Numbers, ReadFirst(w, first, second)
      PROVE  SettingInv'
  <2>1. ASSUME NEW canRollback \in BOOLEAN, Begin(w, first, second, canRollback)
        PROVE  writer' \in [Writers -> Calls]
    <3>1. [pc |-> "first", first |-> first, second |-> second, old |-> table[FirstKey],
           canRollback |-> canRollback] \in Calls
      BY <1>1
    <3> HIDE DEF Calls
    <3> QED
      BY <1>1, <2>1, <3>1 DEF Begin
  <2>2. Readable(table[FirstKey]) \in BOOLEAN
    BY DEF Readable
  <2>3. writer' \in [Writers -> Calls]
    BY <1>1, <1>7, <2>1, <2>2 DEF ReadFirst
  <2>4. faults' \in 0 .. FAULTS /\ faults' >= faults
    BY <1>1, <1>2, <1>7 DEF ReadFirst
  <2> QED
    BY <1>1, <1>7, <2>3, <2>4, OtherInv DEF ReadFirst, pairRest
<1>8. ASSUME NEW w \in Writers, PairStep(w) PROVE SettingInv'
  <2>1. ASSUME NEW pc \in {"second", "rollback", "notifyFirst", "notifySecond"}, Goto(w, pc)
        PROVE  writer' \in [Writers -> Calls]
    BY <1>1, <2>1 DEF Goto
  <2>2. ASSUME Return(w) PROVE writer' \in [Writers -> Calls]
    <3>1. NotCalled \in Calls
      BY TextType DEF NotCalled
    <3> HIDE DEF Calls
    <3> QED
      BY <1>1, <2>2, <3>1 DEF Return
  <2>10. ASSUME Committed(w) PROVE writer' \in [Writers -> Calls]
    <3>1. [NotCalled EXCEPT !.pc = "notifyFirst"] \in Calls
      BY TextType DEF NotCalled
    <3> HIDE DEF Calls
    <3> QED
      BY <1>1, <2>10, <3>1 DEF Committed
  <2>3. writer[w].first \in Int /\ writer[w].second \in Int /\ writer[w].old.n \in Int
    BY <1>1, TextType, NumberType
  <2>4. \A key \in Keys, n \in Int : [table EXCEPT ![key] = Strict(n)] \in [Keys -> Text]
    BY <1>1, TextType
  <2>5. writer' \in [Writers -> Calls]
    BY <1>8, <2>1, <2>2, <2>10 DEF PairStep, UpdateFirst, UpdateSecond, Rollback, NotifyFirst, NotifySecond
  <2>6. table' \in [Keys -> Text]
    BY <1>1, <1>8, <2>3, <2>4
       DEF PairStep, UpdateFirst, UpdateSecond, Rollback, NotifyFirst, NotifySecond
  <2>7. pending' \in [Keys -> Nat]
    BY <1>1, <1>3, <1>8
       DEF PairStep, UpdateFirst, UpdateSecond, Rollback, NotifyFirst, NotifySecond
  <2>8. faults' \in 0 .. FAULTS /\ faults' >= faults
    BY <1>1, <1>2, <1>8 DEF PairStep, UpdateFirst, UpdateSecond, Rollback, NotifyFirst, NotifySecond
  <2>9. UNCHANGED << observers, heard, subscribed >> /\ isInitialized' \in BOOLEAN
    BY <1>1, <1>8
       DEF PairStep, UpdateFirst, UpdateSecond, Rollback, NotifyFirst, NotifySecond, pairRest
  <2> QED
    BY <2>5, <2>6, <2>7, <2>8, <2>9, OtherInv
<1>9. CASE UNCHANGED settingVars
  BY <1>9 DEF settingVars, dataShare, SettingInv, SettingTypeOK, SubscriptionsAccounted
<1> QED
  BY <1>4, <1>5, <1>6, <1>7, <1>8, <1>9, ObserverInv DEF SettingNext

LEMMA SettingSpecInv == SettingSpec => []SettingInv
BY SettingInitInv, SettingNextInv, PTL DEF SettingSpec

\* Variables have their types.
THEOREM SettingTypeOKHolds == SettingSpec => []SettingTypeOK
<1>1. SettingInv => SettingTypeOK
  BY DEF SettingInv
<1> QED
  BY <1>1, SettingSpecInv, PTL

\* Whatever DataShare refuses, an observer that it took is called, and observers
\* that it calls too often or that are filed without being called are no more
\* than the calls of it that failed (RegisterObserver, UnregisterObserver).
THEOREM SubscriptionsAccountedHolds == SettingSpec => []SubscriptionsAccounted
<1>1. SettingInv => SubscriptionsAccounted
  BY DEF SettingInv
<1> QED
  BY <1>1, SettingSpecInv, PTL

-----------------------------------------------------------------------------
(* The promise, for one thread at a time that writes pairs.               *)

\* During a call the first setting is the one that was read until it is
\* written, and it is put back only if it could be read.
PairInv ==
    /\ SettingTypeOK
    /\ Call.pc = "first" => table[FirstKey] = Call.old
    /\ Call.pc # "idle" /\ Call.canRollback => Readable(Call.old)
    /\ Call.pc = "rollback" => Call.canRollback

\* The promise speaks of the same texts.
LEMMA PromiseText ==
    /\ Promise!Text = Text
    /\ \A text : Promise!Readable(text) = Readable(text)
    /\ \A n : Promise!Strict(n) = Strict(n)
BY DEF Text, Garbage, Absent, Readable, Strict, Promise!Text, Promise!Garbage, Promise!Absent,
       Promise!Readable, Promise!Strict

\* At most one thread is in SetInt32ValuePair, and always the same.
OneWriter == \A v \in Writers \ {TheWriter} : writer[v].pc = "idle"

\* There is a writer to speak of.
LEMMA TheWriterType == Writers # {} => TheWriter \in Writers
BY DEF TheWriter

\* The settings as the promise sees them are a pair of texts.
LEMMA PairType == ASSUME SettingTypeOK, TheWriter \in Writers PROVE PairNow \in Text \X Text
BY SettingDataManagerAssumption DEF SettingTypeOK, PairNow, Call

LEMMA PairInit ==
    ASSUME TheWriter \in Writers, SettingInit
    PROVE  PairInv /\ Promise!Init
<1>1. SettingTypeOK
  BY SettingInitInv DEF SettingInv
<1>2. Call = NotCalled
  BY DEF SettingInit, Call
<1>3. PairInv
  BY <1>1, <1>2 DEF PairInv, NotCalled
<1>4. PairNow \in Text \X Text
  BY <1>1, PairType
<1>5. ToldNow = {}
  BY SettingDataManagerAssumption DEF SettingInit, ToldNow
<1>6. FailuresNow = 0 /\ PhaseNow = "idle"
  BY <1>2 DEF FailuresNow, PhaseNow, NotCalled
<1> QED
  BY <1>3, <1>4, <1>5, <1>6, PromiseText DEF Promise!Init

\* Each call of DataShare is a step of the promise, or none.
LEMMA PairNext ==
    ASSUME TheWriter \in Writers, OneWriter, OneWriter',
           PairInv, SettingTypeOK', [SettingNext]_settingVars
    PROVE  PairInv' /\ [Promise!Next]_Promise!vars
<1> DEFINE w == TheWriter
<1> HIDE DEF w
<1>1. TheWriter = w /\ TheWriter \in Writers
  BY DEF w
<1>2. /\ Call = writer[w] /\ Call' = writer'[w]
  BY <1>1 DEF Call, w
<1>3. /\ PairNow \in Text \X Text /\ PairNow' \in Text \X Text
      /\ ToldNow \subseteq {1, 2} /\ ToldNow' \subseteq {1, 2}
  <2>1. PairNow \in Text \X Text
    BY <1>1, PairType DEF PairInv
  <2>2. PairNow' \in Text \X Text
    BY <1>1, <1>2, SettingDataManagerAssumption DEF SettingTypeOK, PairNow
  <2> QED
    BY <2>1, <2>2 DEF ToldNow
<1>4. FirstKey \in Keys /\ SecondKey \in Keys /\ FirstKey # SecondKey
      /\ table \in [Keys -> Text] /\ pending \in [Keys -> Nat] /\ writer[w].old \in Text
      /\ w \in DOMAIN writer /\ DOMAIN writer[w] = {"pc", "first", "second", "old", "canRollback"}
  BY <1>1, SettingDataManagerAssumption DEF PairInv, SettingTypeOK
<1>5. ASSUME UNCHANGED << table, pending, writer >>
      PROVE  PairInv' /\ UNCHANGED Promise!vars
  BY <1>5, <1>2 DEF PairInv, Promise!vars, PairNow, ToldNow, FailuresNow, PhaseNow
<1>6. CASE Initialize
  BY <1>5, <1>6 DEF Initialize, dataShare
<1>7. ASSUME NEW key \in Keys, OnChange(key) PROVE PairInv' /\ [Promise!Next]_Promise!vars
  <2>1. UNCHANGED << table, writer >> /\ pending' = [pending EXCEPT ![key] = @ - 1] /\ pending[key] > 0
    BY <1>7 DEF OnChange, CallBack
  <2>2. ToldNow' \subseteq ToldNow
    BY <1>4, <2>1 DEF ToldNow
  <2>3. UNCHANGED << PairNow, FailuresNow, PhaseNow >> /\ PairInv'
    BY <1>2, <2>1 DEF PairNow, FailuresNow, PhaseNow, PairInv
  <2> QED
    BY <2>2, <2>3 DEF Promise!Next, Promise!Deliver
\* Between calls everything is allowed to the pair's settings, and what happens
\* to others does not show.
<1>8. ASSUME NEW key \in Keys, UNCHANGED writer,
             key \in {FirstKey, SecondKey} => NoPairInProgress,
             \A k \in Keys \ {key} : table'[k] = table[k] /\ pending'[k] = pending[k]
      PROVE  PairInv' /\ [Promise!Next]_Promise!vars
  <2>1. CASE key \in {FirstKey, SecondKey}
    <3>1. Call.pc = "idle" /\ Call'.pc = "idle"
      BY <1>1, <1>2, <1>8, <2>1 DEF NoPairInProgress
    <3>2. PhaseNow = "idle" /\ UNCHANGED << FailuresNow, PhaseNow >> /\ PairInv'
      BY <1>2, <1>8, <3>1 DEF PhaseNow, FailuresNow, PairInv
    <3> QED
      BY <1>3, <3>2, PromiseText DEF Promise!Next, Promise!Write
  <2>2. CASE key \notin {FirstKey, SecondKey}
    <3>1. table'[FirstKey] = table[FirstKey] /\ table'[SecondKey] = table[SecondKey]
          /\ pending'[FirstKey] = pending[FirstKey] /\ pending'[SecondKey] = pending[SecondKey]
      BY <1>4, <1>8, <2>2
    <3>2. UNCHANGED << PairNow, FailuresNow, PhaseNow, ToldNow >> /\ PairInv'
      BY <1>2, <1>8, <3>1 DEF PairNow, FailuresNow, PhaseNow, ToldNow, PairInv
    <3> QED
      BY <3>2 DEF Promise!vars
  <2> QED
    BY <2>1, <2>2
<1>9. ASSUME NEW key \in Keys, key \in {FirstKey, SecondKey} => NoPairInProgress,
             \/ RegisterObserver(key)
             \/ UnregisterObserver(key)
             \/ \E n \in Numbers, needNotify \in BOOLEAN : SetStringValue(key, Strict(n), needNotify)
      PROVE  PairInv' /\ [Promise!Next]_Promise!vars
  <2>1. UNCHANGED writer
    BY <1>9 DEF RegisterObserver, UnregisterObserver, SetStringValue
  <2>2. \A k \in Keys \ {key} : table'[k] = table[k] /\ pending'[k] = pending[k]
    BY <1>4, <1>9 DEF RegisterObserver, UnregisterObserver, SetStringValue, NotifyChange, dataShare
  <2> QED
    BY <1>8, <1>9, <2>1, <2>2
<1>10. ASSUME NEW first, NEW second, ReadFirst(w, first, second)
       PROVE  PairInv' /\ [Promise!Next]_Promise!vars
  <2>1. CASE UNCHANGED writer
    BY <1>5, <1>10, <2>1 DEF ReadFirst
  <2>2. ASSUME NEW canRollback \in BOOLEAN, Begin(w, first, second, canRollback),
               canRollback => Readable(table[FirstKey])
        PROVE  PairInv' /\ [Promise!Next]_Promise!vars
    <3>1. /\ Call'.pc = "first" /\ Call'.old = table[FirstKey] /\ Call'.canRollback = canRollback
          /\ Call.pc = "idle" /\ UNCHANGED << pending, table >>
      BY <1>2, <1>4, <1>10, <2>2 DEF Begin, ReadFirst
    <3>2. PhaseNow = "idle" /\ PhaseNow' = "called" /\ FailuresNow' \in {0, 1}
      BY <3>1 DEF PhaseNow, FailuresNow
    <3>3. UNCHANGED << PairNow, ToldNow >> /\ PairInv'
      BY <3>1, <2>2 DEF PairNow, ToldNow, PairInv
    <3> QED
      BY <3>2, <3>3 DEF Promise!Next, Promise!Call
  <2>3. Readable(table[FirstKey]) \in BOOLEAN
    BY DEF Readable
  <2> QED
    BY <1>10, <2>1, <2>2, <2>3 DEF ReadFirst
\* The rest of the call.
<1>11. CASE UpdateFirst(w)
  <2>1. Call.pc = "first" /\ table[FirstKey] = Call.old /\ UNCHANGED pending
    BY <1>2, <1>11 DEF UpdateFirst, PairInv
  <2>2. PhaseNow = "called" /\ PairNow = << table[FirstKey], table[SecondKey] >> /\ UNCHANGED ToldNow
    BY <2>1 DEF PhaseNow, PairNow, ToldNow
  <2>3. CASE table' = [table EXCEPT ![FirstKey] = Strict(writer[w].first)] /\ Goto(w, "second")
    <3>1. Call'.pc = "second" /\ Call'.old = Call.old /\ Call'.canRollback = Call.canRollback
          /\ table'[SecondKey] = table[SecondKey]
      BY <1>2, <1>4, <2>3 DEF Goto
    <3>2. UNCHANGED << PairNow, FailuresNow, PhaseNow >> /\ PairInv'
      BY <2>1, <2>2, <3>1 DEF PairNow, FailuresNow, PhaseNow, PairInv
    <3> QED
      BY <2>2, <3>2 DEF Promise!vars
  <2>4. CASE Return(w) /\ UNCHANGED table
    <3>1. Call'.pc = "idle"
      BY <1>2, <1>4, <2>4 DEF Return, NotCalled
    <3>2. UNCHANGED PairNow /\ FailuresNow' = 0 /\ PhaseNow' = "idle" /\ PairInv'
      BY <2>2, <2>4, <3>1 DEF PairNow, FailuresNow, PhaseNow, PairInv
    <3> QED
      BY <2>2, <3>2 DEF Promise!Next, Promise!Refuse
  <2> QED
    BY <1>11, <2>3, <2>4 DEF UpdateFirst
<1>12. CASE UpdateSecond(w)
  <2>1. Call.pc = "second" /\ UNCHANGED pending
    BY <1>2, <1>12 DEF UpdateSecond
  <2>2. PhaseNow = "called" /\ PairNow = << Call.old, table[SecondKey] >> /\ UNCHANGED ToldNow
        /\ FailuresNow = IF Readable(Call.old) /\ ~Call.canRollback THEN 1 ELSE 0
    BY <2>1 DEF PhaseNow, PairNow, ToldNow, FailuresNow
  <2>3. CASE table' = [table EXCEPT ![SecondKey] = Strict(writer[w].second)] /\ Committed(w)
    <3>1. Call'.pc = "notifyFirst" /\ Call'.old = Absent /\ Call'.canRollback = FALSE
      BY <1>2, <1>4, <2>3 DEF Committed, NotCalled
    <3>2. PhaseNow' = "committed" /\ FailuresNow' = 0 /\ PairInv'
      BY <3>1 DEF FailuresNow, PhaseNow, PairInv, Readable, Absent
    <3> QED
      BY <1>3, <2>2, <3>2, PromiseText DEF Promise!Next, Promise!Commit
  <2>4. CASE writer[w].canRollback /\ Goto(w, "rollback") /\ UNCHANGED table
    <3>1. Call'.pc = "rollback" /\ Call'.old = Call.old /\ Call'.canRollback = Call.canRollback
          /\ Call.canRollback
      BY <1>2, <1>4, <2>4 DEF Goto
    <3>2. FailuresNow' = FailuresNow + 1 /\ UNCHANGED << PairNow, PhaseNow >> /\ PairInv'
      BY <2>1, <2>2, <2>4, <3>1 DEF FailuresNow, PhaseNow, PairNow, PairInv
    <3> QED
      BY <2>2, <3>2 DEF Promise!Next, Promise!Failure
  <2>5. CASE ~writer[w].canRollback /\ Return(w) /\ UNCHANGED table
    <3>1. Call'.pc = "idle" /\ ~Call.canRollback
      BY <1>2, <1>4, <2>5 DEF Return, NotCalled
    <3>2. FailuresNow' = 0 /\ PhaseNow' = "idle" /\ PairInv'
          /\ PairNow' = << table[FirstKey], table[SecondKey] >>
      BY <2>5, <3>1 DEF FailuresNow, PhaseNow, PairNow, PairInv
    <3>3. PairNow' \in Text \X {PairNow[2]}
      BY <1>4, <2>2, <3>2
    <3>4. Readable(PairNow[1]) => FailuresNow > 0
      BY <2>2, <3>1
    <3> QED
      BY <2>2, <3>2, <3>3, <3>4, PromiseText DEF Promise!Next, Promise!Tear
  <2> QED
    BY <1>12, <2>3, <2>4, <2>5 DEF UpdateSecond
<1>13. CASE Rollback(w)
  <2>1. Call.pc = "rollback" /\ Return(w) /\ UNCHANGED pending
    BY <1>2, <1>13 DEF Rollback
  <2>2. Call.canRollback /\ Readable(Call.old)
    BY <2>1 DEF PairInv
  <2>3. PhaseNow = "called" /\ FailuresNow = 1 /\ UNCHANGED ToldNow
        /\ PairNow = << Call.old, table[SecondKey] >>
    BY <2>1, <2>2 DEF PhaseNow, PairNow, ToldNow, FailuresNow
  <2>4. Call'.pc = "idle"
    BY <1>2, <1>4, <2>1 DEF Return, NotCalled
  <2>5. PhaseNow' = "idle" /\ FailuresNow' = 0 /\ PairInv'
        /\ PairNow' = << table'[FirstKey], table'[SecondKey] >>
    BY <2>4 DEF PhaseNow, FailuresNow, PairNow, PairInv
  <2>6. CASE table' = [table EXCEPT ![FirstKey] = Strict(writer[w].old.n)]
    <3>1. PairNow' = << Strict(PairNow[1].n), PairNow[2] >>
      BY <1>2, <1>4, <2>3, <2>5, <2>6
    <3> QED
      BY <2>2, <2>3, <2>5, <3>1, PromiseText DEF Promise!Next, Promise!Refuse
  <2>7. CASE UNCHANGED table
    <3>1. PairNow' \in Text \X {PairNow[2]}
      BY <1>4, <2>3, <2>5, <2>7
    <3> QED
      BY <2>3, <2>5, <3>1, PromiseText DEF Promise!Next, Promise!Tear
  <2> QED
    BY <1>13, <2>6, <2>7 DEF Rollback
<1>14. CASE NotifyFirst(w)
  <2>1. Call.pc = "notifyFirst" /\ Goto(w, "notifySecond") /\ UNCHANGED table
    BY <1>2, <1>14 DEF NotifyFirst
  <2>2. Call'.pc = "notifySecond" /\ Call'.old = Call.old /\ Call'.canRollback = Call.canRollback
    BY <1>2, <1>4, <2>1 DEF Goto
  <2>3. PhaseNow = "committed" /\ UNCHANGED << PairNow, FailuresNow, PhaseNow >> /\ PairInv'
    BY <2>1, <2>2 DEF PhaseNow, PairNow, FailuresNow, PairInv
  <2> QED
    BY <1>3, <2>3 DEF Promise!Next, Promise!Notify
<1>15. CASE NotifySecond(w)
  <2>1. Call.pc = "notifySecond" /\ Return(w) /\ UNCHANGED table
    BY <1>2, <1>15 DEF NotifySecond
  <2>2. Call'.pc = "idle"
    BY <1>2, <1>4, <2>1 DEF Return, NotCalled
  <2>3. PhaseNow = "committed" /\ PhaseNow' = "idle" /\ FailuresNow' = 0 /\ UNCHANGED PairNow /\ PairInv'
    BY <2>1, <2>2 DEF PhaseNow, PairNow, FailuresNow, PairInv
  <2> QED
    BY <1>3, <2>3 DEF Promise!Next, Promise!Notify
<1>16. CASE UNCHANGED settingVars
  BY <1>5, <1>16 DEF settingVars, dataShare
\* Other threads do not get further than to ask for a helper in vain.
<1>17. ASSUME NEW v \in Writers \ {w}, NEW first, NEW second, ReadFirst(v, first, second)
       PROVE  PairInv' /\ [Promise!Next]_Promise!vars
  <2>1. writer'[v].pc = "idle" /\ writer \in [Writers -> [pc : {"idle", "first", "second", "rollback", "notifyFirst", "notifySecond"},
                             first : Numbers \cup {0}, second : Numbers \cup {0},
                             old : Text, canRollback : BOOLEAN]]
    BY <1>1, <1>17 DEF OneWriter, PairInv, SettingTypeOK
  <2>2. ASSUME NEW canRollback, Begin(v, first, second, canRollback) PROVE FALSE
    BY <2>1, <2>2 DEF Begin
  <2> QED
    BY <1>5, <1>17, <2>2 DEF ReadFirst
<1>18. ASSUME NEW v \in Writers \ {w}, PairStep(v) PROVE FALSE
  BY <1>1, <1>18
     DEF OneWriter, PairStep, UpdateFirst, UpdateSecond, Rollback, NotifyFirst, NotifySecond
<1> QED
  BY <1>1, <1>6, <1>7, <1>9, <1>10, <1>11, <1>12, <1>13, <1>14, <1>15, <1>16, <1>17, <1>18
     DEF SettingNext, PairStep

\* SetInt32ValuePair called by one thread at a time implements SettingsPair: no
\* failing call, observer or other setting makes it tear the pair but in the two
\* cases that the promise names.
THEOREM KeepsPromiseHolds == Writers # {} => (SettingSpec /\ []OneWriter => KeepsPromise)
<1> SUFFICES ASSUME Writers # {} PROVE SettingSpec /\ []OneWriter => KeepsPromise
  OBVIOUS
<1>1. TheWriter \in Writers
  BY TheWriterType
<1>2. SettingInit => PairInv /\ Promise!Init
  BY <1>1, PairInit
<1>3. PairInv /\ SettingTypeOK' /\ OneWriter /\ OneWriter' /\ [SettingNext]_settingVars
          => PairInv' /\ [Promise!Next]_Promise!vars
  BY <1>1, PairNext
<1> QED
  BY <1>2, <1>3, SettingTypeOKHolds, PTL DEF SettingSpec, KeepsPromise, Promise!Spec

-----------------------------------------------------------------------------
(* The arithmetic.                                                         *)

\* Remainders and quotients of integers are integers.
LEMMA DivMod ==
    ASSUME NEW x \in Int, NEW d \in Nat \ {0}
    PROVE  x % d \in 0 .. d - 1 /\ x \div d \in Int
OBVIOUS

LEMMA SmallMod == ASSUME NEW d \in Nat \ {0}, NEW x \in 0 .. d - 1 PROVE x % d = x
OBVIOUS

\* Times of two days are the same signed and unsigned.
LEMMA Unsigned == ASSUME NEW x \in 0 .. 2 * DAY_TO_MINUTE PROVE ToUint64(x) = x
<1>1. DAY_TO_MINUTE \in Nat /\ UINT64_MODULUS \in Nat /\ UINT64_MODULUS > 4 * DAY_TO_MINUTE
  BY ScheduleTimeAssumption
<1>2. UINT64_MODULUS \in Nat \ {0} /\ x \in 0 .. UINT64_MODULUS - 1
  BY <1>1
<1> QED
  BY <1>2, SmallMod DEF ToUint64

\* Rounded and wrapped, whatever number of seconds is a minute of the day.
LEMMA NormalizeType ==
    ASSUME NEW seconds \in Int
    PROVE  NormalizeRoundedMinutes(seconds) \in 0 .. DAY_TO_MINUTE - 1
<1>1. DAY_TO_MINUTE \in Nat \ {0} /\ 2 * MINUTE_TO_SECOND \in Nat \ {0}
      /\ 2 * seconds + MINUTE_TO_SECOND \in Int
  BY ScheduleTimeAssumption
<1>2. (2 * seconds + MINUTE_TO_SECOND) \div (2 * MINUTE_TO_SECOND) \in Int
  BY <1>1, DivMod
<1> QED
  BY <1>1, <1>2, DivMod DEF NormalizeRoundedMinutes

LEMMA LocalType ==
    ASSUME NEW utcSec \in Int, NEW offset \in Int
    PROVE  ToLocalMinutes(utcSec, offset) \in 0 .. DAY_TO_MINUTE - 1
<1>1. DAY_TO_SECOND \in Nat \ {0} /\ offset * MINUTE_TO_SECOND \in Int
  BY DayType, ScheduleTimeAssumption
<1>2. (utcSec - offset * MINUTE_TO_SECOND) % DAY_TO_SECOND \in Int
  BY <1>1, DivMod
<1> QED
  BY <1>2, NormalizeType DEF ToLocalMinutes

\* Sunrise and sunset are minutes of the day, also where there is none.
LEMMA SunType ==
    ASSUME NEW sky \in Skies
    PROVE  /\ SunriseMinutes(sky) \in 0 .. DAY_TO_MINUTE - 1
           /\ SunsetMinutes(sky) \in 0 .. DAY_TO_MINUTE - 1
<1>1. ASSUME NEW first, NEW second, NEW minute \in Int
      PROVE  CalcSunSeconds(first, second, minute) \in Int
  <2>1. DAY_TO_MINUTE \in Nat \ {0} /\ MINUTE_TO_SECOND \in Nat
    BY ScheduleTimeAssumption
  <2>2. (minute % DAY_TO_MINUTE) * MINUTE_TO_SECOND \in Int
    BY <2>1, DivMod
  <2>3. NormalizeRoundedMinutes((minute % DAY_TO_MINUTE) * MINUTE_TO_SECOND) \in Int
    BY <2>1, <2>2, NormalizeType
  <2>4. NormalizeRoundedMinutes((minute % DAY_TO_MINUTE) * MINUTE_TO_SECOND) * MINUTE_TO_SECOND \in Int
    BY <2>1, <2>3
  <2> QED
    BY <2>4 DEF CalcSunSeconds, POLAR_MARK
<1>2. HourAngles \subseteq Int
  BY ScheduleTimeAssumption DEF HourAngles, NeverRises, NeverSets
<1>3. sky.noon - sky.rise \in Int /\ sky.noon + sky.set \in Int /\ sky.timezoneOffset \in Int
  <2>1. sky.noon \in Int /\ sky.rise \in HourAngles /\ sky.set \in HourAngles /\ sky.timezoneOffset \in Int
    BY DEF Skies
  <2>2. sky.rise \in Int /\ sky.set \in Int
    BY <1>2, <2>1
  <2> QED
    BY <2>1, <2>2
<1>4. CalculateSunriseSunset(sky).sunrise \in Int /\ CalculateSunriseSunset(sky).sunset \in Int
  BY <1>1, <1>3 DEF CalculateSunriseSunset, POLAR_MARK
<1> QED
  BY <1>3, <1>4, LocalType DEF SunriseMinutes, SunsetMinutes

\* A whole minute of the day is the minute it is.
LEMMA WholeMinute ==
    ASSUME NEW minute \in 0 .. DAY_TO_MINUTE - 1
    PROVE  MinuteOfDay(minute * MINUTE_TO_SECOND) = minute
<1>1. DAY_TO_MINUTE \in Nat /\ MINUTE_TO_SECOND \in Nat \ {0} /\ DAY_TO_SECOND \in Nat \ {0}
  BY ScheduleTimeAssumption, DayType
<1>2. minute * MINUTE_TO_SECOND \in Nat /\ minute * MINUTE_TO_SECOND < DAY_TO_SECOND
  <2>1. minute \in Int /\ DAY_TO_MINUTE \in Int /\ minute < DAY_TO_MINUTE /\ 0 <= minute
    BY <1>1
  <2>2. minute * MINUTE_TO_SECOND < DAY_TO_MINUTE * MINUTE_TO_SECOND
        /\ 0 * MINUTE_TO_SECOND <= minute * MINUTE_TO_SECOND
    BY <2>1, MinuteOrder
  <2> QED
    BY <1>1, <2>1, <2>2 DEF DAY_TO_SECOND
<1>3. (minute * MINUTE_TO_SECOND) % DAY_TO_SECOND = minute * MINUTE_TO_SECOND
  BY <1>1, <1>2, SmallMod
<1>4. ASSUME NEW n \in Nat, NEW d \in Nat \ {0} PROVE (n * d) \div d = n
  BY Z3T(30)
<1> QED
  BY <1>1, <1>3, <1>4 DEF MinuteOfDay, SecondOfDay

\* The schedule calculated from any sky is accepted by SetScheduleTime, unless
\* sunrise and sunset fall into the same minute (GetSunrise, IsValidScheduleTime).
THEOREM ScheduleIsValidHolds == \A sky \in Skies : ScheduleIsValid(sky)
<1> SUFFICES ASSUME NEW sky \in Skies, SunriseMinutes(sky) # SunsetMinutes(sky)
             PROVE  IsValidScheduleTime(GetSunset(sky), GetSunrise(sky))
  BY DEF ScheduleIsValid
<1>1. /\ DAY_TO_MINUTE \in Nat
      /\ SunriseMinutes(sky) \in 0 .. DAY_TO_MINUTE - 1 /\ SunsetMinutes(sky) \in 0 .. DAY_TO_MINUTE - 1
  BY SunType, ScheduleTimeAssumption
<1>2. /\ GetSunset(sky) \in 0 .. DAY_TO_MINUTE - 1 /\ GetSunrise(sky) \in 0 .. 2 * DAY_TO_MINUTE
      /\ GetSunset(sky) < GetSunrise(sky) /\ GetSunrise(sky) < DAY_TO_MINUTE + GetSunset(sky)
  BY <1>1 DEF GetSunset, GetSunrise
<1>3. GetSunset(sky) \in 0 .. 2 * DAY_TO_MINUTE
  BY <1>1, <1>2
<1>4. ToUint64(GetSunset(sky)) = GetSunset(sky) /\ ToUint64(GetSunrise(sky)) = GetSunrise(sky)
  BY <1>2, <1>3, Unsigned
<1> QED
  BY <1>1, <1>2, <1>4 DEF IsValidScheduleTime

\* And that schedule is dark exactly when it is night, for every minute of the day
\* and however the time zone puts sunset, sunrise and midnight.
THEOREM NightIsDarkHolds == \A sky \in Skies : NightIsDark(sky, GetSunset(sky), GetSunrise(sky))
<1> SUFFICES ASSUME NEW sky \in Skies, Condition(sky) = "NORMAL",
                    NEW minute \in 0 .. DAY_TO_MINUTE - 1
             PROVE  IsWithinTimeInterval(GetSunset(sky), GetSunrise(sky), minute * MINUTE_TO_SECOND)
                        <=> IsNighttime(sky, minute)
  BY DEF NightIsDark
<1> DEFINE rise == SunriseMinutes(sky)
           set == SunsetMinutes(sky)
<1>1. DAY_TO_MINUTE \in Nat /\ rise \in 0 .. DAY_TO_MINUTE - 1 /\ set \in 0 .. DAY_TO_MINUTE - 1
  BY SunType, ScheduleTimeAssumption
<1>2. MinuteOfDay(minute * MINUTE_TO_SECOND) = minute
  BY WholeMinute
<1>3. ToUint64(GetSunset(sky)) = set
  BY <1>1, Unsigned DEF GetSunset
<1>4. IsNighttime(sky, minute) <=>
          ~(IF rise < set THEN rise <= minute /\ minute < set ELSE rise <= minute \/ minute < set)
  BY DEF IsNighttime, IsDaytime
<1>5. CASE rise < set
  <2>1. ToUint64(GetSunrise(sky)) = rise + DAY_TO_MINUTE
    BY <1>1, <1>5, Unsigned DEF GetSunrise
  <2> HIDE DEF rise, set
  <2> QED
    BY <1>1, <1>2, <1>3, <1>4, <1>5, <2>1 DEF IsWithinTimeInterval
<1>6. CASE ~(rise < set)
  <2>1. ToUint64(GetSunrise(sky)) = rise
    BY <1>1, <1>6, Unsigned DEF GetSunrise
  <2> HIDE DEF rise, set
  <2> QED
    BY <1>1, <1>2, <1>3, <1>4, <1>6, <2>1 DEF IsWithinTimeInterval
<1> QED
  BY <1>5, <1>6

-----------------------------------------------------------------------------
(* The sunrise mode over time.                                             *)

ModeInTable == GetInt32ValueStrictly(table[ModeKey], DARK_MODE_INVALID)
MayChange == pending[ModeKey] > 0 \/ seen[ModeKey] # << >>
Sunny == state.mode = DARK_MODE_SUNRISE_SUNSET
AllDay == {DARK_MODE_ALWAYS_LIGHT, DARK_MODE_ALWAYS_DARK}
AnyMode == DARK_MODE_INVALID .. DARK_MODE_SUNRISE_SUNSET
States == [mode : AnyMode, sunset : Int, sunrise : Int]
ThreadStates == {"idle", "start", "calculate", "after", "clear"}

PairCalls ==
    [pc : {"idle", "first", "second", "rollback", "notifyFirst", "notifySecond"},
     first : Numbers \cup {0}, second : Numbers \cup {0}, old : Text, canRollback : BOOLEAN]

\* The settings: who writes one writes a number that the sun or the user gave,
\* or puts one back, and the mode in the table is one that the user chose.
SettingsTyped ==
    /\ isInitialized \in BOOLEAN /\ observers \subseteq Keys /\ heard \subseteq observers
    /\ pending \in [Keys -> Nat]
    /\ subscribed \in [Keys -> Nat] /\ subscribed[ModeKey] > 0
    /\ table \in [Keys -> Text]
    /\ \E mode \in ModeChoices : table[ModeKey] = Strict(mode)
    /\ writer \in [Writers -> PairCalls]
    /\ faults \in 0 .. FAULTS

ArmedTyped ==
    \/ armed \in {NoTimers, CustomTimers, RefusedTimers}
    \/ armed \in Int \X Int /\ IsValidScheduleTime(armed[1], armed[2])

LoadedTyped ==
    /\ loaded \in Seq(Int) /\ Len(loaded) <= 3
    /\ Len(loaded) > 0 => loaded[1] \in AnyMode

SeenTyped ==
    /\ seen \in [Observed -> Seq(Int)]
    /\ \A key \in Observed : Len(seen[key]) <= 1
    /\ seen[ModeKey] # << >> => seen[ModeKey][1] \in AnyMode

\* Type correctness, with what it rests on.
Typed ==
    /\ SettingsTyped
    /\ \E sky \in SkyChoices : sun = SunOf[sky]
    /\ located \in BOOLEAN
    /\ state \in States
    /\ ArmedTyped
    /\ recalculation \in {"on", "off", "lost"}
    /\ LoadedTyped /\ SeenTyped
    /\ thread \in [Threads -> ThreadStates]
    /\ changes \in 0 .. EVENTS

\* What the observer of the mode has read is the mode in the table, unless it is
\* to be told again or could not read; a recalculation timer that is not as the
\* mode has it is known to a thread that will put it right, or the mode in
\* memory is not the table's; and while the settings are loaded, the sunrise mode
\* in memory is the table's.
ModeInv ==
    /\ seen[ModeKey] # << >> => thread["observer"] = "idle"
    /\ seen[ModeKey] # << >> /\ pending[ModeKey] = 0 =>
           seen[ModeKey][1] = ModeInTable \/ (seen[ModeKey][1] = DARK_MODE_INVALID /\ faults > 0)
    /\ recalculation = "on" => state.mode \notin AllDay
    /\ recalculation = "on" /\ ~Sunny =>
           thread["observer"] = "clear" \/ MayChange \/ ModeInTable # state.mode
    /\ thread["load"] = "start" /\ recalculation = "on" =>
           thread["observer"] = "clear" \/ MayChange \/ ModeInTable = DARK_MODE_SUNRISE_SUNSET
    /\ thread["load"] = "start" /\ Sunny => MayChange \/ ModeInTable = DARK_MODE_SUNRISE_SUNSET
    /\ Sunny /\ recalculation = "off" /\ faults = 0 =>
           \/ thread["load"] \in {"calculate", "after"}
           \/ thread["observer"] \in {"calculate", "after"}
           \/ MayChange \/ ModeInTable # DARK_MODE_SUNRISE_SUNSET
    /\ thread["observer"] = "clear" /\ faults = 0 =>
           pending[ModeKey] > 0 \/ ModeInTable # DARK_MODE_SUNRISE_SUNSET

SunInv == Typed /\ ModeInv

\* The keys and threads that there are.
LEMMA SunConstants ==
    /\ FirstKey \in Keys /\ SecondKey \in Keys /\ ModeKey \in Keys
    /\ ModeKey # FirstKey /\ ModeKey # SecondKey /\ FirstKey # SecondKey
    /\ "load" \in Threads /\ "observer" \in Threads /\ Threads \subseteq Writers
    /\ "recalculation" \in Writers
    /\ SUNSET_TIME_DEFAULT \in Int /\ SUNRISE_TIME_DEFAULT \in Int
    /\ EVENTS \in Nat /\ FAULTS \in Nat
BY SunriseModeAssumption, SettingDataManagerAssumption, ScheduleTimeAssumption DEF Threads

\* The modes are different numbers.
LEMMA Modes ==
    /\ DARK_MODE_INVALID = -1 /\ DARK_MODE_SUNRISE_SUNSET = 3
    /\ AllDay = {0, 1} /\ AnyMode = -1 .. 3 /\ DARK_MODE_CUSTOM_AUTO = 2
BY DEF DARK_MODE_INVALID, DARK_MODE_SUNRISE_SUNSET, AllDay, AnyMode, DARK_MODE_ALWAYS_LIGHT,
       DARK_MODE_ALWAYS_DARK, DARK_MODE_CUSTOM_AUTO

\* The default times are in order.
LEMMA DefaultsInOrder == SUNSET_TIME_DEFAULT < SUNRISE_TIME_DEFAULT
<1>1. /\ DAY_TO_MINUTE \in Nat /\ UINT64_MODULUS \in Nat \ {0} /\ UINT64_MODULUS > 4 * DAY_TO_MINUTE
      /\ SUNSET_TIME_DEFAULT \in 0 .. DAY_TO_MINUTE - 1 /\ SUNRISE_TIME_DEFAULT \in Nat
      /\ ToUint64(SUNSET_TIME_DEFAULT) < ToUint64(SUNRISE_TIME_DEFAULT)
  BY ScheduleTimeAssumption, SunriseModeAssumption DEF IsValidScheduleTime
<1>2. ToUint64(SUNSET_TIME_DEFAULT) = SUNSET_TIME_DEFAULT
  BY <1>1, Unsigned
<1>3. CASE SUNRISE_TIME_DEFAULT < UINT64_MODULUS
  <2>1. ToUint64(SUNRISE_TIME_DEFAULT) = SUNRISE_TIME_DEFAULT
    BY <1>1, <1>3, SmallMod DEF ToUint64
  <2> QED
    BY <1>1, <1>2, <2>1
<1>4. CASE ~(SUNRISE_TIME_DEFAULT < UINT64_MODULUS)
  BY <1>1, <1>4
<1> QED
  BY <1>3, <1>4

\* The modes that the user chooses are read as they are.
LEMMA ModeType ==
    ASSUME NEW mode \in ModeChoices
    PROVE  /\ Strict(mode) \in Text
           /\ GetInt32ValueStrictly(Strict(mode), DARK_MODE_INVALID) \in AnyMode
<1>1. mode \in 0 .. 3
  BY SunriseModeAssumption DEF DARK_MODE_ALWAYS_LIGHT, DARK_MODE_SUNRISE_SUNSET
<1> QED
  BY <1>1, TextType, Modes DEF Strict, GetInt32ValueStrictly

\* Reading a setting gives a number, and the mode one of the modes; and it is
\* the one in the table unless the call failed.
LEMMA ReadType ==
    ASSUME Typed, NEW key \in Observed, NEW value, Read(key, value)
    PROVE  /\ value \in Int /\ faults' \in 0 .. FAULTS /\ faults' >= faults
           /\ key = ModeKey => value \in AnyMode
           /\ key = ModeKey => value = ModeInTable \/ (value = DARK_MODE_INVALID /\ faults' > 0)
<1>1. key \in Keys /\ Default(key) \in Int
  BY SunConstants, Modes DEF Observed, Default
<1>2. table[key] \in Text /\ faults \in 0 .. FAULTS /\ FAULTS \in Nat
  BY <1>1, SunConstants DEF Typed, SettingsTyped
<1>3. GetInt32ValueStrictly(table[key], Default(key)) \in Int
  BY <1>1, <1>2, TextType DEF GetInt32ValueStrictly
<1>4. ModeInTable \in AnyMode
  BY ModeType DEF Typed, SettingsTyped, ModeInTable
<1>5. key = ModeKey => Default(key) = DARK_MODE_INVALID
  BY SunConstants DEF Default
<1>6. DARK_MODE_INVALID \in AnyMode
  BY Modes
<1>7. CASE value = GetInt32ValueStrictly(table[key], Default(key)) /\ UNCHANGED faults
  BY <1>2, <1>3, <1>4, <1>5, <1>7 DEF ModeInTable
<1>8. CASE value = Default(key) /\ Fails
  BY <1>1, <1>2, <1>5, <1>6, <1>8 DEF Fails
<1> QED
  BY <1>7, <1>8 DEF Read

\* The sun is given by two numbers that can be written.
LEMMA PairOfSun == ASSUME Typed PROVE sun.pair[1] \in Numbers /\ sun.pair[2] \in Numbers
BY SunriseModeAssumption DEF Typed, SunOf

\* What OnStateChangeLocked does to the timers: the pair is set for a schedule
\* that is valid, or for none, and the recalculation timer ends with an all-day
\* mode and may be lost.
LEMMA StateChange ==
    ASSUME Typed, OnStateChangeLocked, state' \in States
    PROVE  /\ ArmedTyped'
           /\ faults' \in 0 .. FAULTS /\ faults' >= faults
           /\ recalculation' \in {"on", "off", "lost"}
           /\ recalculation' = "on" => recalculation = "on" /\ state'.mode \notin AllDay
           /\ recalculation' = "off" => state'.mode # DARK_MODE_SUNRISE_SUNSET \/ recalculation = "off"
<1>1. /\ state'.mode \in AnyMode /\ state'.sunset \in Int /\ state'.sunrise \in Int
      /\ faults \in 0 .. FAULTS /\ FAULTS \in Nat /\ recalculation \in {"on", "off", "lost"}
      /\ ArmedTyped
  BY SunConstants DEF States, Typed, SettingsTyped
<1>2. ASSUME Fails PROVE faults' \in 0 .. FAULTS /\ faults' >= faults
  BY <1>1, <1>2 DEF Fails
<1>3. ASSUME ClearTimerByUserId
      PROVE  /\ recalculation' \in {"off", "lost"}
             /\ recalculation' = "off" => state'.mode # DARK_MODE_SUNRISE_SUNSET
  BY <1>3 DEF ClearTimerByUserId
<1>4. /\ faults' = faults => faults' \in 0 .. FAULTS /\ faults' >= faults
  BY <1>1
<1>5. CASE state'.mode \in AllDay
  <2>1. DARK_MODE_SUNRISE_SUNSET \notin {DARK_MODE_ALWAYS_LIGHT, DARK_MODE_ALWAYS_DARK}
        /\ DARK_MODE_CUSTOM_AUTO \notin {DARK_MODE_ALWAYS_LIGHT, DARK_MODE_ALWAYS_DARK}
    BY DEF DARK_MODE_ALWAYS_LIGHT, DARK_MODE_ALWAYS_DARK, DARK_MODE_SUNRISE_SUNSET, DARK_MODE_CUSTOM_AUTO
  <2>2. state'.mode \in {DARK_MODE_ALWAYS_LIGHT, DARK_MODE_ALWAYS_DARK}
    BY <1>5 DEF AllDay
  <2>3. armed' = NoTimers /\ recalculation' = "off" /\ UNCHANGED faults
    BY <2>1, <2>2, Zenon DEF OnStateChangeLocked
  <2> QED
    BY <1>4, <1>5, <2>3, Modes DEF ArmedTyped
<1>6. ASSUME NEW schedule,
             \/ schedule = CustomTimers
             \/ schedule \in Int \X Int /\ IsValidScheduleTime(schedule[1], schedule[2]),
             CreateOrUpdateTimers(schedule), state'.mode \notin AllDay
      PROVE  /\ ArmedTyped'
             /\ faults' \in 0 .. FAULTS /\ faults' >= faults
             /\ recalculation' \in {"on", "off", "lost"}
             /\ recalculation' = "on" => recalculation = "on" /\ state'.mode \notin AllDay
             /\ recalculation' = "off" => state'.mode # DARK_MODE_SUNRISE_SUNSET \/ recalculation = "off"
  <2>1. CASE armed' = schedule /\ UNCHANGED << recalculation, faults >>
    <3>1. ArmedTyped'
      BY <1>6, <2>1 DEF ArmedTyped
    <3> QED
      BY <1>1, <1>4, <1>6, <2>1, <3>1
  <2>2. CASE armed' = RefusedTimers /\ ClearTimerByUserId /\ Fails
    <3>1. ArmedTyped'
      BY <2>2 DEF ArmedTyped
    <3> QED
      BY <1>2, <1>3, <2>2, <3>1
  <2> QED
    BY <1>6, <2>1, <2>2 DEF CreateOrUpdateTimers
<1>7. CASE state'.mode = DARK_MODE_SUNRISE_SUNSET
  <2>1. Schedule(state'.sunset, state'.sunrise) /\ state'.mode \notin AllDay
    BY <1>7, Modes DEF OnStateChangeLocked, AllDay
  <2>2. CASE IsValidScheduleTime(state'.sunset, state'.sunrise)
    <3> DEFINE schedule == << state'.sunset, state'.sunrise >>
    <3>1. schedule \in Int \X Int /\ IsValidScheduleTime(schedule[1], schedule[2])
      BY <1>1, <2>2
    <3>2. CreateOrUpdateTimers(schedule)
      BY <2>1, <2>2 DEF Schedule
    <3>3. \/ armed' = schedule /\ UNCHANGED << recalculation, faults >>
          \/ armed' = RefusedTimers /\ ClearTimerByUserId /\ Fails
      BY <3>2 DEF CreateOrUpdateTimers
    <3>4. ArmedTyped'
      <4>1. CASE armed' = schedule
        BY <3>1, <4>1 DEF ArmedTyped
      <4>2. CASE armed' = RefusedTimers
        BY <4>2 DEF ArmedTyped
      <4> QED
        BY <3>3, <4>1, <4>2
    <3> HIDE DEF schedule
    <3> QED
      BY <1>1, <1>2, <1>3, <1>4, <2>1, <3>3, <3>4
  <2>3. CASE ~IsValidScheduleTime(state'.sunset, state'.sunrise)
    <3>1. armed' = NoTimers /\ ClearTimerByUserId /\ UNCHANGED faults
      BY <2>1, <2>3 DEF Schedule
    <3>2. ArmedTyped'
      BY <3>1 DEF ArmedTyped
    <3> QED
      BY <1>3, <1>4, <3>1, <3>2
  <2> QED
    BY <2>2, <2>3
<1>8. CASE state'.mode = DARK_MODE_CUSTOM_AUTO
  <2>1. CreateOrUpdateTimers(CustomTimers) /\ state'.mode \notin AllDay
    BY <1>8, Modes DEF OnStateChangeLocked, AllDay
  <2> QED
    BY <1>6, <2>1
<1>9. CASE state'.mode = DARK_MODE_INVALID
  <2>1. UNCHANGED << armed, recalculation, faults >> /\ state'.mode \notin AllDay
    BY <1>9, Modes DEF OnStateChangeLocked, AllDay
  <2>2. ArmedTyped'
    BY <1>1, <2>1 DEF ArmedTyped
  <2> QED
    BY <1>1, <1>4, <2>1, <2>2
<1> QED
  BY <1>1, <1>5, <1>7, <1>8, <1>9, Modes

\* A sequence of at most one number.
LEMMA OneNumber ==
    ASSUME NEW q \in Seq(Int), Len(q) <= 1, q # << >>
    PROVE  Len(q) = 1 /\ q[1] \in Int
<1>1. Len(q) \in Nat /\ Len(q) # 0
  OBVIOUS
<1>2. Len(q) = 1
  BY <1>1
<1> QED
  BY <1>2

\* An observer has read one number or none, and takes it.
LEMMA ReadingType ==
    ASSUME SeenTyped, NEW key \in Observed
    PROVE  seen[key] # << >> => Len(seen[key]) = 1 /\ seen[key][1] \in Int
<1>1. seen[key] \in Seq(Int) /\ Len(seen[key]) <= 1
  BY DEF SeenTyped
<1> QED
  BY <1>1, OneNumber

LEMMA TakenType ==
    ASSUME SeenTyped, NEW key \in Observed, Taken(key)
    PROVE  SeenTyped' /\ seen'[key] = << >> /\ \A k \in Observed \ {key} : seen'[k] = seen[k]
<1>1. << >> \in Seq(Int) /\ Len(<< >>) = 0
  OBVIOUS
<1>2. /\ seen' \in [Observed -> Seq(Int)] /\ seen'[key] = << >>
      /\ \A k \in Observed \ {key} : seen'[k] = seen[k]
  BY <1>1 DEF SeenTyped, Taken
<1>3. ModeKey \in Observed
  BY DEF Observed
<1>4. ASSUME NEW k \in Observed PROVE Len(seen'[k]) <= 1
  <2>1. CASE k = key
    BY <1>1, <1>2, <2>1
  <2>2. CASE k # key
    BY <1>2, <2>2 DEF SeenTyped
  <2> QED
    BY <2>1, <2>2
<1>5. seen'[ModeKey] # << >> => seen'[ModeKey][1] \in AnyMode
  BY <1>2, <1>3 DEF SeenTyped
<1> QED
  BY <1>2, <1>4, <1>5 DEF SeenTyped

\* Most steps leave the mode alone, in memory, in the table and under way, and
\* do no more to the recalculation timer than to lose it in the sunrise mode or
\* to end it in another.
LEMMA ModeKept ==
    ASSUME SunInv, Typed', UNCHANGED << thread, state.mode >>,
           pending'[ModeKey] = pending[ModeKey], seen'[ModeKey] = seen[ModeKey],
           table'[ModeKey] = table[ModeKey], faults' >= faults,
           recalculation' = "on" => recalculation = "on",
           recalculation' = "off" => ~Sunny \/ recalculation = "off"
    PROVE  SunInv'
<1>1. faults \in Nat /\ faults' \in Nat
  BY SunConstants DEF SunInv, Typed, SettingsTyped
<1>2. /\ MayChange' = MayChange /\ ModeInTable' = ModeInTable /\ Sunny' = Sunny
      /\ state'.mode = state.mode
  BY DEF MayChange, ModeInTable, Sunny
<1>3. faults' = 0 => faults = 0
  BY <1>1
<1>4. faults > 0 => faults' > 0
  BY <1>1
<1>5. ModeInv'
  BY <1>2, <1>3, <1>4 DEF SunInv, ModeInv
<1> QED
  BY <1>5 DEF SunInv

LEMMA NotCalledType == NotCalled \in PairCalls
BY TextType DEF NotCalled, PairCalls

LEMMA InitSunInv == Init => SunInv
<1> SUFFICES ASSUME Init PROVE SunInv
  OBVIOUS
<1>1. table \in [Keys -> Text] /\ \E mode \in ModeChoices : table[ModeKey] = Strict(mode)
  <2>1. PICK mode \in ModeChoices, times \in TimesChoices :
          table = [key \in Keys |-> CASE key = ModeKey -> Strict(mode)
                                      [] key = FirstKey -> times[1]
                                      [] key = SecondKey -> times[2]
                                      [] OTHER -> Absent]
    BY DEF Init
  <2>2. Strict(mode) \in Text /\ Absent \in Text
    BY ModeType, TextType
  <2>3. times[1] \in Text /\ times[2] \in Text
    <3>1. times \in Text \X Text
      BY SunriseModeAssumption
    <3> QED
      BY <3>1
  <2>4. \A key \in Keys : table[key] \in Text
    <3> SUFFICES ASSUME NEW key \in Keys PROVE table[key] \in Text
      OBVIOUS
    <3>1. CASE key = ModeKey
      BY <2>1, <2>2, <3>1, SunConstants
    <3>2. CASE key = FirstKey
      BY <2>1, <2>3, <3>2, SunConstants
    <3>3. CASE key = SecondKey
      BY <2>1, <2>3, <3>3, SunConstants
    <3>4. CASE key \notin {FirstKey, SecondKey, ModeKey}
      BY <2>1, <2>2, <3>4
    <3> QED
      BY <3>1, <3>2, <3>3, <3>4
  <2>5. table[ModeKey] = Strict(mode)
    BY <2>1, SunConstants
  <2> QED
    BY <2>1, <2>4, <2>5
<1>2. writer \in [Writers -> PairCalls]
  BY NotCalledType DEF Init
<1>3. /\ subscribed \in [Keys -> Nat] /\ pending \in [Keys -> Nat]
      /\ subscribed[ModeKey] > 0 /\ pending[ModeKey] > 0
  BY SunConstants DEF Init
<1>4. SettingsTyped
  <2>1. isInitialized \in BOOLEAN /\ observers \subseteq Keys /\ heard \subseteq observers
    BY DEF Init
  <2>2. faults \in 0 .. FAULTS
    BY SunConstants DEF Init
  <2> QED
    BY <1>1, <1>2, <1>3, <2>1, <2>2 DEF SettingsTyped
<1>5. LoadedTyped
  <2>1. loaded = << >>
    BY DEF Init
  <2> QED
    BY <2>1 DEF LoadedTyped
<1>6. SeenTyped
  <2>1. seen = [key \in Observed |-> << >>] /\ << >> \in Seq(Int) /\ Len(<< >>) = 0
    BY DEF Init
  <2> QED
    BY <2>1 DEF SeenTyped, Observed
<1>7. state \in States /\ state.mode = DARK_MODE_INVALID
  BY SunConstants, Modes DEF Init, States
<1>8. thread \in [Threads -> ThreadStates] /\ thread["load"] = "start" /\ thread["observer"] = "idle"
  BY DEF Init, Threads, ThreadStates
<1>9. recalculation = "off" /\ ArmedTyped
  BY DEF Init, ArmedTyped
<1>10. (\E sky \in SkyChoices : sun = SunOf[sky]) /\ located \in BOOLEAN /\ changes \in 0 .. EVENTS
  BY SunConstants DEF Init
<1>11. Typed
  BY <1>4, <1>5, <1>6, <1>7, <1>8, <1>9, <1>10 DEF Typed
<1>12. seen[ModeKey] = << >> /\ MayChange
  BY <1>3 DEF Init, Observed, MayChange
<1>13. ModeInv
  BY <1>3, <1>7, <1>8, <1>9, <1>12, Modes DEF ModeInv, Sunny
<1> QED
  BY <1>11, <1>13 DEF SunInv

\* The writing of a pair leaves the mode alone, and writes numbers.
LEMMA WriterInv ==
    ASSUME Typed, NEW w \in Writers, PairStep(w) \/ ApplySunriseSunsetTimes(w)
    PROVE  /\ SettingsTyped' /\ faults' >= faults
           /\ pending'[ModeKey] = pending[ModeKey] /\ table'[ModeKey] = table[ModeKey]
<1>1. /\ pending \in [Keys -> Nat] /\ table \in [Keys -> Text] /\ writer \in [Writers -> PairCalls]
      /\ subscribed \in [Keys -> Nat] /\ faults \in 0 .. FAULTS /\ FAULTS \in Nat
      /\ SettingsTyped
  BY SunConstants DEF Typed, SettingsTyped
<1>2. NotCalled \in PairCalls /\ [NotCalled EXCEPT !.pc = "notifyFirst"] \in PairCalls
  BY NotCalledType DEF PairCalls
<1>3. ASSUME Fails PROVE faults' \in 0 .. FAULTS /\ faults' >= faults
  BY <1>1, <1>3 DEF Fails
<1>4. ASSUME NEW pc \in {"second", "rollback", "notifyFirst", "notifySecond"}, Goto(w, pc)
      PROVE  writer' \in [Writers -> PairCalls]
  BY <1>1, <1>4 DEF Goto, PairCalls
<1>5. ASSUME Return(w) \/ Committed(w) PROVE writer' \in [Writers -> PairCalls]
  BY <1>1, <1>2, <1>5 DEF Return, Committed
<1>6. ASSUME NEW key \in {FirstKey, SecondKey}, NEW n \in Int,
             table' = [table EXCEPT ![key] = Strict(n)]
      PROVE  table' \in [Keys -> Text] /\ table'[ModeKey] = table[ModeKey]
  BY <1>1, <1>6, TextType, SunConstants
<1>7. writer[w].first \in Int /\ writer[w].second \in Int /\ writer[w].old.n \in Int
  BY <1>1, NumberType, TextType DEF PairCalls
<1>8. ASSUME NEW key \in {FirstKey, SecondKey}, NotifyChange(key, subscribed)
      PROVE  pending' \in [Keys -> Nat] /\ pending'[ModeKey] = pending[ModeKey]
  BY <1>1, <1>8, SunConstants DEF NotifyChange
<1>9. SUFFICES /\ UNCHANGED << isInitialized, observers, heard, subscribed >>
               /\ pending' \in [Keys -> Nat] /\ table' \in [Keys -> Text]
               /\ writer' \in [Writers -> PairCalls]
               /\ faults' \in 0 .. FAULTS /\ faults' >= faults
               /\ pending'[ModeKey] = pending[ModeKey] /\ table'[ModeKey] = table[ModeKey]
  BY <1>1 DEF SettingsTyped
<1>10. CASE UpdateFirst(w)
  BY <1>1, <1>3, <1>4, <1>5, <1>6, <1>7, <1>10 DEF UpdateFirst, pairRest
<1>11. CASE UpdateSecond(w)
  BY <1>1, <1>3, <1>4, <1>5, <1>6, <1>7, <1>11 DEF UpdateSecond, pairRest
<1>12. CASE Rollback(w)
  BY <1>1, <1>3, <1>5, <1>6, <1>7, <1>12 DEF Rollback, pairRest
<1>13. CASE NotifyFirst(w)
  BY <1>1, <1>4, <1>8, <1>13 DEF NotifyFirst, pairRest
<1>14. CASE NotifySecond(w)
  BY <1>1, <1>5, <1>8, <1>14 DEF NotifySecond, pairRest
<1>15. CASE ApplySunriseSunsetTimes(w)
  <2>1. sun.pair[1] \in Numbers /\ sun.pair[2] \in Numbers
    BY PairOfSun
  <2>2. ASSUME NEW canRollback \in BOOLEAN, Begin(w, sun.pair[1], sun.pair[2], canRollback)
        PROVE  writer' \in [Writers -> PairCalls]
    <3>1. [pc |-> "first", first |-> sun.pair[1], second |-> sun.pair[2], old |-> table[FirstKey],
           canRollback |-> canRollback] \in PairCalls
      BY <1>1, <2>1, SunConstants DEF PairCalls
    <3> QED
      BY <1>1, <2>2, <3>1 DEF Begin
  <2>3. Readable(table[FirstKey]) \in BOOLEAN
    BY DEF Readable
  <2>4. ReadFirst(w, sun.pair[1], sun.pair[2])
    BY <1>15 DEF ApplySunriseSunsetTimes
  <2>5. UNCHANGED << isInitialized, observers, heard, subscribed, pending, table >>
    BY <2>4 DEF ReadFirst, pairRest
  <2>6. writer' \in [Writers -> PairCalls]
    BY <1>1, <2>2, <2>3, <2>4 DEF ReadFirst
  <2>7. faults' \in 0 .. FAULTS /\ faults' >= faults
    <3>1. faults' = faults \/ Fails
      BY <2>4, Zenon DEF ReadFirst
    <3> QED
      BY <1>1, <1>3, <3>1
  <2> QED
    BY <1>1, <2>5, <2>6, <2>7
<1> QED
  BY <1>10, <1>11, <1>12, <1>13, <1>14, <1>15 DEF PairStep

\* What observers read and make of it are numbers, and in order.
LEMMA TimesType ==
    ASSUME Typed, NEW key \in Keys, NEW value \in Int
    PROVE  /\ TimesAfter(key, value)[1] \in Int /\ TimesAfter(key, value)[2] \in Int
           /\ TimesAfter(key, value)[1] < TimesAfter(key, value)[2]
<1>1. state.sunset \in Int /\ state.sunrise \in Int
  BY DEF Typed, States
<1> QED
  BY <1>1, SunConstants, DefaultsInOrder DEF TimesAfter

\* The settings are loaded in this order.
LEMMA LoadOrderType ==
    /\ Len(LoadOrder) = 3
    /\ LoadOrder[1] = ModeKey /\ LoadOrder[2] = FirstKey /\ LoadOrder[3] = SecondKey
BY DEF LoadOrder

\* A sequence of three numbers, and a sequence that grows, which keeps its first element.
LEMMA ThreeType ==
    ASSUME NEW q \in Seq(Int), Len(q) = 3
    PROVE  q[1] \in Int /\ q[2] \in Int /\ q[3] \in Int
<1>1. \A i \in 1 .. Len(q) : q[i] \in Int
  BY SMTT(30)
<1>2. 1 \in 1 .. 3 /\ 2 \in 1 .. 3 /\ 3 \in 1 .. 3
  OBVIOUS
<1> QED
  BY <1>1, <1>2

LEMMA AppendType ==
    ASSUME NEW q \in Seq(Int), NEW n \in Int
    PROVE  /\ Append(q, n) \in Seq(Int) /\ Len(Append(q, n)) = Len(q) + 1
           /\ Len(q) = 0 => Append(q, n)[1] = n
           /\ Len(q) > 0 => Append(q, n)[1] = q[1]
OBVIOUS

\* Loading the settings: each reading leaves the mode alone, ...
LEMMA LoadSettingInv == SunInv /\ LoadSetting => SunInv'
<1> SUFFICES ASSUME SunInv, LoadSetting PROVE SunInv'
  OBVIOUS
<1> DEFINE key == LoadOrder[Len(loaded) + 1]
<1>1. /\ loaded \in Seq(Int) /\ Len(loaded) \in Nat /\ Len(loaded) < 3
      /\ Len(loaded) > 0 => loaded[1] \in AnyMode
  BY LoadOrderType DEF SunInv, Typed, LoadedTyped, LoadSetting
<1>2. /\ key \in Observed /\ (Len(loaded) = 0 => key = ModeKey)
  <2>1. CASE Len(loaded) = 0
    <3>1. key = LoadOrder[1]
      BY <2>1
    <3> QED
      BY <3>1, LoadOrderType DEF Observed
  <2>2. CASE Len(loaded) = 1
    <3>1. key = LoadOrder[2]
      BY <2>2
    <3> QED
      BY <2>2, <3>1, LoadOrderType DEF Observed
  <2>3. CASE Len(loaded) = 2
    <3>1. key = LoadOrder[3]
      BY <2>3
    <3> QED
      BY <2>3, <3>1, LoadOrderType DEF Observed
  <2>4. \A n \in Nat : n < 3 => n = 0 \/ n = 1 \/ n = 2
    OBVIOUS
  <2>5. Len(loaded) = 0 \/ Len(loaded) = 1 \/ Len(loaded) = 2
    BY <1>1, <2>4, Zenon
  <2> HIDE DEF key
  <2> QED
    BY <2>1, <2>2, <2>3, <2>5, Zenon
<1>3. PICK value \in Readings(key) : Read(key, value) /\ loaded' = Append(loaded, value)
  BY Zenon DEF LoadSetting
<1> HIDE DEF key
<1>4. value \in Int /\ faults' \in 0 .. FAULTS /\ faults' >= faults /\ (key = ModeKey => value \in AnyMode)
  BY <1>2, <1>3, ReadType DEF SunInv
<1>5. LoadedTyped'
  <2>1. /\ loaded' \in Seq(Int) /\ Len(loaded') = Len(loaded) + 1
        /\ Len(loaded) = 0 => loaded'[1] = value
        /\ Len(loaded) > 0 => loaded'[1] = loaded[1]
    BY <1>1, <1>3, <1>4, AppendType
  <2>2. loaded'[1] \in AnyMode
    BY <1>1, <1>2, <1>4, <2>1
  <2> QED
    BY <1>1, <2>1, <2>2 DEF LoadedTyped
<1>6. /\ UNCHANGED << isInitialized, observers, heard, subscribed, pending, table, writer, sun, located,
                      state, armed, recalculation, seen, thread, changes >>
  BY DEF LoadSetting, settingsRead, environment, memory
<1>7. SettingsTyped' /\ ArmedTyped' /\ SeenTyped'
  BY <1>4, <1>6 DEF SunInv, Typed, SettingsTyped, ArmedTyped, SeenTyped
<1>8. Typed'
  BY <1>5, <1>6, <1>7 DEF SunInv, Typed
<1> QED
  BY <1>4, <1>6, <1>8, ModeKept

\* ... and then the mode and the times are taken as they were read.
LEMMA LoadInv == SunInv /\ LoadUserSettingData => SunInv'
<1> SUFFICES ASSUME SunInv, LoadUserSettingData PROVE SunInv'
  OBVIOUS
<1>1. UNCHANGED << isInitialized, observers, heard, subscribed, pending, table, writer, sun, located,
                   seen, changes >>
  BY DEF LoadUserSettingData, settingsRead, environment
<1>2. state' \in States
  <2>1. /\ loaded \in Seq(Int) /\ Len(loaded) = 3 /\ loaded[1] \in AnyMode
    BY LoadOrderType DEF SunInv, Typed, LoadedTyped, LoadUserSettingData
  <2>2. loaded[2] \in Int /\ loaded[3] \in Int
    BY <2>1, ThreeType
  <2> QED
    BY <2>1, <2>2 DEF LoadUserSettingData, States
<1>3. /\ ArmedTyped'
      /\ faults' \in 0 .. FAULTS /\ faults' >= faults
      /\ recalculation' \in {"on", "off", "lost"}
      /\ recalculation' = "on" => recalculation = "on" /\ state'.mode \notin AllDay
  BY <1>2, StateChange DEF LoadUserSettingData, SunInv
<1>4. /\ thread' \in [Threads -> ThreadStates]
      /\ thread'["observer"] = thread["observer"] /\ thread["load"] = "start"
      /\ thread'["load"] \in {"calculate", "idle"}
      /\ Sunny' => thread'["load"] = "calculate"
  BY SunConstants DEF LoadUserSettingData, SunInv, Typed, Sunny, ThreadStates
<1>5. LoadedTyped'
  <2>1. loaded' = << >>
    BY DEF LoadUserSettingData
  <2> QED
    BY <2>1 DEF LoadedTyped
<1>6. SettingsTyped' /\ SeenTyped'
  BY <1>1, <1>3 DEF SunInv, Typed, SettingsTyped, SeenTyped
<1>7. Typed'
  BY <1>1, <1>2, <1>3, <1>4, <1>5, <1>6 DEF SunInv, Typed
<1>8. MayChange' = MayChange /\ ModeInTable' = ModeInTable
  BY <1>1 DEF MayChange, ModeInTable
<1>9. faults \in Nat /\ faults' \in Nat /\ (faults' = 0 => faults = 0) /\ (faults > 0 => faults' > 0)
  BY <1>3, SunConstants DEF SunInv, Typed, SettingsTyped
<1>10. recalculation' = "on" /\ ~Sunny' =>
           thread'["observer"] = "clear" \/ MayChange' \/ ModeInTable' # state'.mode
  BY <1>3, <1>4, <1>8 DEF SunInv, ModeInv, Sunny
<1>11. thread'["load"] # "start" /\ (Sunny' => thread'["load"] \in {"calculate", "after"})
  BY <1>4
<1>12. pending'[ModeKey] = pending[ModeKey] /\ seen'[ModeKey] = seen[ModeKey]
  BY <1>1
<1>13. ModeInv'
  BY <1>3, <1>4, <1>8, <1>9, <1>10, <1>11, <1>12 DEF SunInv, ModeInv
<1> QED
  BY <1>7, <1>13 DEF SunInv

\* An observer reads its setting; that of the mode is told by what it reads.
LEMMA ReadChangeInv == ASSUME SunInv, NEW key \in Observed, ReadChange(key) PROVE SunInv'
<1>1. PICK value \in Readings(key) : Read(key, value) /\ seen' = [seen EXCEPT ![key] = << value >>]
  BY DEF ReadChange
<1>2. /\ value \in Int /\ faults' \in 0 .. FAULTS /\ faults' >= faults
      /\ key = ModeKey => value \in AnyMode
      /\ key = ModeKey => value = ModeInTable \/ (value = DARK_MODE_INVALID /\ faults' > 0)
  BY <1>1, ReadType DEF SunInv
<1>3. /\ UNCHANGED << isInitialized, observers, heard, subscribed, table, writer, sun, located,
                      state, armed, recalculation, loaded, thread, changes >>
      /\ pending' = [pending EXCEPT ![key] = @ - 1] /\ pending[key] > 0
      /\ seen[key] = << >> /\ (key = ModeKey => thread["observer"] = "idle")
  BY DEF ReadChange, CallBack, environment, memory
<1>4. key \in Keys /\ pending \in [Keys -> Nat] /\ faults \in 0 .. FAULTS
      /\ seen \in [Observed -> Seq(Int)] /\ ModeKey \in Observed /\ ModeKey \in Keys
  BY SunConstants DEF SunInv, Typed, SettingsTyped, SeenTyped, Observed
<1>5. pending' \in [Keys -> Nat] /\ \A k \in Keys \ {key} : pending'[k] = pending[k]
  BY <1>3, <1>4
<1>6. /\ << value >> \in Seq(Int) /\ Len(<< value >>) = 1 /\ << value >>[1] = value /\ << value >> # << >>
  BY <1>2
<1>7. /\ seen' \in [Observed -> Seq(Int)] /\ seen'[key] = << value >>
      /\ \A k \in Observed \ {key} : seen'[k] = seen[k]
  BY <1>1, <1>4, <1>6
<1>8. SeenTyped'
  <2>1. ASSUME NEW k \in Observed PROVE Len(seen'[k]) <= 1
    <3>1. CASE k = key
      <4>1. seen'[k] = << value >> /\ Len(<< value >>) = 1
        BY <1>6, <1>7, <3>1
      <4>2. Len(seen'[k]) = 1
        BY <4>1
      <4> QED
        BY <4>2
    <3>2. CASE k # key
      BY <1>7, <3>2 DEF SunInv, Typed, SeenTyped
    <3> QED
      BY <3>1, <3>2
  <2>2. seen'[ModeKey] # << >> => seen'[ModeKey][1] \in AnyMode
    <3>1. CASE key = ModeKey
      BY <1>2, <1>6, <1>7, <3>1
    <3>2. CASE key # ModeKey
      BY <1>4, <1>7, <3>2 DEF SunInv, Typed, SeenTyped
    <3> QED
      BY <3>1, <3>2
  <2> QED
    BY <1>7, <2>1, <2>2 DEF SeenTyped
<1>9. Typed'
  <2>1. SettingsTyped' /\ ArmedTyped' /\ LoadedTyped'
    BY <1>2, <1>3, <1>5 DEF SunInv, Typed, SettingsTyped, ArmedTyped, LoadedTyped
  <2> QED
    BY <1>3, <1>8, <2>1 DEF SunInv, Typed
<1>10. CASE key # ModeKey
  <2>1. pending'[ModeKey] = pending[ModeKey] /\ seen'[ModeKey] = seen[ModeKey]
    BY <1>4, <1>5, <1>7, <1>10
  <2> QED
    BY <1>2, <1>3, <1>9, <2>1, ModeKept
<1>11. CASE key = ModeKey
  <2>1. MayChange /\ MayChange' /\ seen'[ModeKey] # << >>
    BY <1>3, <1>6, <1>7, <1>11 DEF MayChange
  <2>2. seen'[ModeKey][1] = value /\ thread'["observer"] = "idle" /\ ModeInTable' = ModeInTable
    BY <1>3, <1>6, <1>7, <1>11 DEF ModeInTable
  <2>3. seen'[ModeKey][1] = ModeInTable' \/ (seen'[ModeKey][1] = DARK_MODE_INVALID /\ faults' > 0)
    BY <1>2, <1>11, <2>2
  <2>4. ModeInv'
    BY <1>3, <2>1, <2>2, <2>3 DEF SunInv, ModeInv
  <2> QED
    BY <1>9, <2>4 DEF SunInv
<1> QED
  BY <1>10, <1>11

\* The observer of the mode takes what it has read, and goes on to calculate or
\* to clear the timer.
LEMMA ModeObserverInv == SunInv /\ SettingDataDarkModeModeUpdateFunc => SunInv'
<1> SUFFICES ASSUME SunInv, SettingDataDarkModeModeUpdateFunc PROVE SunInv'
  OBVIOUS
<1> DEFINE value == seen[ModeKey][1]
<1>1. ModeKey \in Observed /\ Taken(ModeKey) /\ seen[ModeKey] # << >> /\ SeenTyped
  BY DEF SettingDataDarkModeModeUpdateFunc, Observed, SunInv, Typed
<1>2. value \in AnyMode
  BY <1>1 DEF SeenTyped
<1>3. SeenTyped' /\ seen'[ModeKey] = << >>
  BY <1>1, TakenType
<1>4. UNCHANGED << isInitialized, observers, heard, subscribed, pending, table, writer, sun, located,
                   loaded, changes >>
  BY DEF SettingDataDarkModeModeUpdateFunc, settingsRead, environment
<1>5. state' \in States /\ state'.mode = value
  <2>1. state \in States
    BY DEF SunInv, Typed
  <2> QED
    BY <1>2, <2>1 DEF SettingDataDarkModeModeUpdateFunc, States
<1> HIDE DEF value
<1>6. /\ ArmedTyped'
      /\ faults' \in 0 .. FAULTS /\ faults' >= faults
      /\ recalculation' \in {"on", "off", "lost"}
      /\ recalculation' = "on" => recalculation = "on" /\ state'.mode \notin AllDay
  BY <1>5, StateChange DEF SettingDataDarkModeModeUpdateFunc, SunInv
<1>7. /\ thread' \in [Threads -> ThreadStates]
      /\ thread'["load"] = thread["load"]
      /\ thread'["observer"] = IF Sunny' THEN "calculate" ELSE "clear"
  BY SunConstants DEF SettingDataDarkModeModeUpdateFunc, SunInv, Typed, Sunny, ThreadStates
<1>8. Typed'
  <2>1. SettingsTyped' /\ LoadedTyped'
    BY <1>4, <1>6 DEF SunInv, Typed, SettingsTyped, LoadedTyped
  <2> QED
    BY <1>3, <1>4, <1>5, <1>6, <1>7, <2>1 DEF SunInv, Typed
<1>9. /\ ModeInTable' = ModeInTable /\ pending'[ModeKey] = pending[ModeKey]
      /\ faults \in Nat /\ faults' \in Nat /\ (faults' = 0 => faults = 0)
  BY <1>4, <1>6, SunConstants DEF ModeInTable, SunInv, Typed, SettingsTyped
<1>10. pending[ModeKey] = 0 => value = ModeInTable \/ (value = DARK_MODE_INVALID /\ faults > 0)
  BY <1>1 DEF SunInv, ModeInv, value
<1>11. pending[ModeKey] \in Nat /\ (MayChange' <=> pending[ModeKey] > 0)
  BY <1>3, <1>9, SunConstants DEF MayChange, SunInv, Typed, SettingsTyped
<1>12. Sunny' => MayChange' \/ ModeInTable' = DARK_MODE_SUNRISE_SUNSET
  BY <1>5, <1>9, <1>10, <1>11, Modes DEF Sunny
<1>13. ~Sunny' /\ faults' = 0 => pending'[ModeKey] > 0 \/ ModeInTable' # DARK_MODE_SUNRISE_SUNSET
  BY <1>5, <1>9, <1>10, <1>11 DEF Sunny
<1>14. ModeInv'
  BY <1>3, <1>6, <1>7, <1>12, <1>13 DEF ModeInv
<1> QED
  BY <1>8, <1>14 DEF SunInv

\* The observers of the two times, which leave the mode alone.
LEMMA TimeObserverInv ==
    ASSUME SunInv, NEW key \in {FirstKey, SecondKey}, SettingDataTimeUpdateFunc(key)
    PROVE  SunInv' /\ state' \in States /\ state'.sunset < state'.sunrise
<1> DEFINE value == seen[key][1]
<1>1. key \in Keys /\ key \in Observed /\ ModeKey \in Observed \ {key} /\ SeenTyped /\ Taken(key)
      /\ seen[key] # << >>
  BY SunConstants DEF SettingDataTimeUpdateFunc, Observed, SunInv, Typed
<1>2. value \in Int
  BY <1>1, ReadingType
<1>3. SeenTyped' /\ seen'[ModeKey] = seen[ModeKey]
  BY <1>1, TakenType
<1>4. UNCHANGED << isInitialized, observers, heard, subscribed, pending, table, writer, sun, located,
                   loaded, thread, changes >>
  BY DEF SettingDataTimeUpdateFunc, settingsRead, environment
<1>5. /\ state' \in States /\ state'.mode = state.mode /\ state'.sunset < state'.sunrise
  <2>1. state \in States
    BY DEF SunInv, Typed
  <2>2. state' = [state EXCEPT !.sunset = TimesAfter(key, value)[1], !.sunrise = TimesAfter(key, value)[2]]
    BY DEF SettingDataTimeUpdateFunc
  <2> HIDE DEF value
  <2> QED
    BY <1>1, <1>2, <2>1, <2>2, TimesType DEF States, SunInv
<1>6. /\ ArmedTyped'
      /\ faults' \in 0 .. FAULTS /\ faults' >= faults
      /\ recalculation' \in {"on", "off", "lost"}
      /\ recalculation' = "on" => recalculation = "on"
      /\ recalculation' = "off" => state'.mode # DARK_MODE_SUNRISE_SUNSET \/ recalculation = "off"
  BY <1>5, StateChange DEF SettingDataTimeUpdateFunc, SunInv
<1>7. Typed'
  <2>1. SettingsTyped' /\ LoadedTyped'
    BY <1>4, <1>6 DEF SunInv, Typed, SettingsTyped, LoadedTyped
  <2> QED
    BY <1>3, <1>4, <1>5, <1>6, <2>1 DEF SunInv, Typed
<1>8. recalculation' = "off" => ~Sunny \/ recalculation = "off"
  BY <1>5, <1>6 DEF Sunny
<1> QED
  BY <1>3, <1>4, <1>5, <1>6, <1>7, <1>8, ModeKept

\* The environment changes a bounded number of times.
LEMMA ChangesType == Typed /\ Changes => changes' \in 0 .. EVENTS
BY SunConstants DEF Typed, Changes

\* A change of the sky or of the location.
LEMMA EnvironmentInv == SunInv /\ (SkyChange \/ LocationChange) => SunInv'
<1> SUFFICES ASSUME SunInv, SkyChange \/ LocationChange PROVE SunInv'
  OBVIOUS
<1>1. /\ UNCHANGED << isInitialized, observers, heard, subscribed, pending, table, writer, faults,
                      state, armed, recalculation, loaded, seen, thread >>
      /\ changes' \in 0 .. EVENTS
  BY ChangesType DEF SkyChange, LocationChange, settingVars, dataShare, memory, SunInv
<1>2. (\E sky \in SkyChoices : sun' = SunOf[sky]) /\ located' \in BOOLEAN
  BY DEF SkyChange, LocationChange, SunInv, Typed
<1>3. Typed'
  <2>1. SettingsTyped' /\ ArmedTyped' /\ LoadedTyped' /\ SeenTyped'
    BY <1>1 DEF SunInv, Typed, SettingsTyped, ArmedTyped, LoadedTyped, SeenTyped
  <2> QED
    BY <1>1, <1>2, <2>1 DEF SunInv, Typed
<1>4. faults \in Nat
  BY SunConstants DEF SunInv, Typed, SettingsTyped
<1> QED
  BY <1>1, <1>3, <1>4, ModeKept

\* The user chooses a mode, of which the observer is to be told.
LEMMA ChooseModeInv == ASSUME SunInv, NEW mode \in ModeChoices, ChooseMode(mode) PROVE SunInv'
<1>1. /\ UNCHANGED << isInitialized, observers, heard, subscribed, writer, faults, sun, located,
                      state, armed, recalculation, loaded, seen, thread >>
      /\ changes' \in 0 .. EVENTS
      /\ table' = [table EXCEPT ![ModeKey] = Strict(mode)]
      /\ NotifyChange(ModeKey, subscribed)
  BY ChangesType DEF ChooseMode, memory, SunInv
<1>2. Strict(mode) \in Text
  BY ModeType
<1>3. /\ pending \in [Keys -> Nat] /\ subscribed \in [Keys -> Nat] /\ subscribed[ModeKey] > 0
      /\ table \in [Keys -> Text] /\ ModeKey \in Keys
  BY SunConstants DEF SunInv, Typed, SettingsTyped
<1>4. table' \in [Keys -> Text] /\ table'[ModeKey] = Strict(mode)
  BY <1>1, <1>2, <1>3
<1>5. pending' \in [Keys -> Nat] /\ pending'[ModeKey] > 0
  BY <1>1, <1>3 DEF NotifyChange
<1>6. Typed'
  <2>1. SettingsTyped' /\ ArmedTyped' /\ LoadedTyped' /\ SeenTyped'
    BY <1>1, <1>4, <1>5 DEF SunInv, Typed, SettingsTyped, ArmedTyped, LoadedTyped, SeenTyped
  <2> QED
    BY <1>1, <2>1 DEF SunInv, Typed
<1>7. MayChange' /\ pending'[ModeKey] # 0
  BY <1>3, <1>5 DEF MayChange
<1>8. ModeInv'
  BY <1>1, <1>5, <1>7 DEF SunInv, ModeInv, Sunny
<1> QED
  BY <1>6, <1>8 DEF SunInv

\* The observer of the mode ends the recalculation timer.
LEMMA ClearInv == SunInv /\ ClearRecalculationTimer => SunInv'
<1> SUFFICES ASSUME SunInv, ClearRecalculationTimer PROVE SunInv'
  OBVIOUS
<1>1. /\ UNCHANGED << isInitialized, observers, heard, subscribed, pending, table, writer, faults, sun,
                      located, state, armed, loaded, seen, changes >>
      /\ recalculation' = "off" /\ thread["observer"] = "clear"
  BY DEF ClearRecalculationTimer, settingVars, dataShare, environment
<1>2. /\ thread' \in [Threads -> ThreadStates]
      /\ thread'["observer"] = "idle" /\ thread'["load"] = thread["load"]
  BY SunConstants DEF ClearRecalculationTimer, SunInv, Typed, ThreadStates
<1>3. Typed'
  <2>1. SettingsTyped' /\ ArmedTyped' /\ LoadedTyped' /\ SeenTyped'
    BY <1>1 DEF SunInv, Typed, SettingsTyped, ArmedTyped, LoadedTyped, SeenTyped
  <2> QED
    BY <1>1, <1>2, <2>1 DEF SunInv, Typed
<1>4. pending[ModeKey] \in Nat /\ MayChange' = MayChange /\ ModeInTable' = ModeInTable
  BY <1>1, SunConstants DEF SunInv, Typed, SettingsTyped, MayChange, ModeInTable
<1>5. ModeInv'
  BY <1>1, <1>2, <1>4 DEF SunInv, ModeInv, Sunny, MayChange
<1> QED
  BY <1>3, <1>5 DEF SunInv

\* A thread calculates, and may begin to write the pair.
LEMMA CalculateInv == ASSUME SunInv, NEW w \in Threads, InitSunriseSunsetMode(w) PROVE SunInv'
<1>1. w \in Writers
  BY SunConstants
<1>2. /\ UNCHANGED << sun, located, state, armed, recalculation, loaded, seen, changes >>
      /\ thread[w] = "calculate" /\ thread' = [thread EXCEPT ![w] = "after"]
  BY DEF InitSunriseSunsetMode, environment, memory
<1>3. /\ SettingsTyped' /\ faults' >= faults
      /\ pending'[ModeKey] = pending[ModeKey] /\ table'[ModeKey] = table[ModeKey]
  <2>1. CASE ApplySunriseSunsetTimes(w)
    BY <1>1, <2>1, WriterInv DEF SunInv
  <2>2. CASE UNCHANGED settingVars
    BY <2>2, SunConstants DEF settingVars, dataShare, SunInv, Typed, SettingsTyped
  <2> QED
    BY <2>1, <2>2 DEF InitSunriseSunsetMode
<1>4. /\ thread' \in [Threads -> ThreadStates]
      /\ thread'["observer"] = "clear" <=> thread["observer"] = "clear"
      /\ thread'["observer"] = "idle" <=> thread["observer"] = "idle"
      /\ thread'["load"] = "start" <=> thread["load"] = "start"
      /\ \A t \in Threads : thread[t] \in {"calculate", "after"} => thread'[t] \in {"calculate", "after"}
  BY <1>2, SunConstants DEF SunInv, Typed, ThreadStates
<1>5. Typed'
  <2>1. ArmedTyped' /\ LoadedTyped' /\ SeenTyped'
    BY <1>2 DEF SunInv, Typed, ArmedTyped, LoadedTyped, SeenTyped
  <2> QED
    BY <1>2, <1>3, <1>4, <2>1 DEF SunInv, Typed
<1>6. /\ MayChange' = MayChange /\ ModeInTable' = ModeInTable /\ Sunny' = Sunny
      /\ state'.mode = state.mode
  BY <1>2, <1>3 DEF MayChange, ModeInTable, Sunny
<1>7. faults \in Nat /\ faults' \in Nat /\ (faults' = 0 => faults = 0) /\ (faults > 0 => faults' > 0)
  BY <1>3, SunConstants DEF SunInv, Typed, SettingsTyped
<1>8. ModeInv'
  BY <1>2, <1>3, <1>4, <1>6, <1>7, SunConstants DEF SunInv, ModeInv
<1> QED
  BY <1>5, <1>8 DEF SunInv

\* Having written or not, it sets the recalculation timer if the mode is still
\* the same.
LEMMA RecalculationInv == ASSUME SunInv, NEW w \in Threads, SetRecalculationTimer(w) PROVE SunInv'
<1>1. /\ UNCHANGED << isInitialized, observers, heard, subscribed, pending, table, writer, sun, located,
                      state, armed, loaded, seen, changes >>
      /\ thread[w] = "after" /\ thread' = [thread EXCEPT ![w] = "idle"]
  BY DEF SetRecalculationTimer, settingsRead, environment
<1>2. /\ thread' \in [Threads -> ThreadStates]
      /\ thread'["observer"] = "clear" <=> thread["observer"] = "clear"
      /\ thread["observer"] = "idle" => thread'["observer"] = "idle"
      /\ thread'["load"] = "start" <=> thread["load"] = "start"
      /\ \A t \in Threads : thread'[t] # thread[t] => t = w
  BY <1>1, SunConstants DEF SunInv, Typed, ThreadStates
<1>3. faults \in 0 .. FAULTS /\ FAULTS \in Nat /\ recalculation \in {"on", "off", "lost"}
  BY SunConstants DEF SunInv, Typed, SettingsTyped
<1>4. \/ Sunny /\ recalculation' = "on" /\ faults' = faults
      \/ recalculation' = recalculation /\ faults' \in 1 .. FAULTS /\ faults' > faults
      \/ (~Sunny \/ recalculation = "on") /\ recalculation' = recalculation /\ faults' = faults
  BY <1>3 DEF SetRecalculationTimer, Sunny, Fails
<1>5. Typed'
  <2>1. faults' \in 0 .. FAULTS /\ recalculation' \in {"on", "off", "lost"}
    BY <1>3, <1>4
  <2>2. SettingsTyped' /\ ArmedTyped' /\ LoadedTyped' /\ SeenTyped'
    BY <1>1, <2>1 DEF SunInv, Typed, SettingsTyped, ArmedTyped, LoadedTyped, SeenTyped
  <2> QED
    BY <1>1, <1>2, <2>1, <2>2 DEF SunInv, Typed
<1>6. /\ MayChange' = MayChange /\ ModeInTable' = ModeInTable /\ Sunny' = Sunny
      /\ state'.mode = state.mode
      /\ pending'[ModeKey] = pending[ModeKey] /\ seen'[ModeKey] = seen[ModeKey]
  BY <1>1 DEF MayChange, ModeInTable, Sunny
<1>7. Sunny => state.mode \notin AllDay
  BY Modes DEF Sunny
<1>8. CASE Sunny /\ recalculation' = "on" /\ faults' = faults
  <2>1. ModeInv'
    BY <1>2, <1>6, <1>7, <1>8 DEF SunInv, ModeInv
  <2> QED
    BY <1>5, <2>1 DEF SunInv
<1>9. CASE recalculation' = recalculation /\ faults' \in 1 .. FAULTS /\ faults' > faults
  <2>1. faults' # 0 /\ faults' > 0
    BY <1>3, <1>9
  <2>2. ModeInv'
    BY <1>2, <1>6, <1>9, <2>1 DEF SunInv, ModeInv
  <2> QED
    BY <1>5, <2>2 DEF SunInv
<1>10. CASE (~Sunny \/ recalculation = "on") /\ recalculation' = recalculation /\ faults' = faults
  <2>1. ModeInv'
    BY <1>2, <1>6, <1>10 DEF SunInv, ModeInv
  <2> QED
    BY <1>5, <2>1 DEF SunInv
<1> QED
  BY <1>4, <1>8, <1>9, <1>10

\* A step of whoever writes the pair, or the callback that begins to.
LEMMA WritePairInv ==
    ASSUME SunInv, NEW w \in Writers, SetInt32ValuePair(w) \/ RecalculationCallback
    PROVE  SunInv'
<1>1. /\ UNCHANGED << sun, located, state, armed, recalculation, loaded, seen, thread, changes >>
  BY DEF SetInt32ValuePair, RecalculationCallback, modeVars, environment, memory
<1>2. /\ SettingsTyped' /\ faults' >= faults
      /\ pending'[ModeKey] = pending[ModeKey] /\ table'[ModeKey] = table[ModeKey]
  <2>1. CASE SetInt32ValuePair(w)
    BY <2>1, WriterInv DEF SetInt32ValuePair, SunInv
  <2>2. CASE RecalculationCallback
    <3>1. "recalculation" \in Writers /\ ApplySunriseSunsetTimes("recalculation")
      BY <2>2, SunConstants DEF RecalculationCallback
    <3> QED
      BY <3>1, WriterInv DEF SunInv
  <2> QED
    BY <2>1, <2>2
<1>3. Typed'
  <2>1. ArmedTyped' /\ LoadedTyped' /\ SeenTyped'
    BY <1>1 DEF SunInv, Typed, ArmedTyped, LoadedTyped, SeenTyped
  <2> QED
    BY <1>1, <1>2, <2>1 DEF SunInv, Typed
<1> QED
  BY <1>1, <1>2, <1>3, ModeKept

\* Every step.
LEMMA NextSunInv == SunInv /\ [Next]_vars => SunInv'
<1> SUFFICES ASSUME SunInv, [Next]_vars PROVE SunInv'
  OBVIOUS
<1>1. CASE UNCHANGED vars
  <2>1. UNCHANGED << isInitialized, observers, heard, subscribed, pending, table, writer, faults, sun,
                     located, state, armed, recalculation, loaded, seen, thread, changes >>
    BY <1>1 DEF vars, settingVars, dataShare, modeVars, environment, memory
  <2>2. SettingsTyped' /\ ArmedTyped' /\ LoadedTyped' /\ SeenTyped'
    BY <2>1 DEF SunInv, Typed, SettingsTyped, ArmedTyped, LoadedTyped, SeenTyped
  <2>3. Typed'
    BY <2>1, <2>2 DEF SunInv, Typed
  <2>4. faults \in Nat
    BY SunConstants DEF SunInv, Typed, SettingsTyped
  <2> QED
    BY <2>1, <2>3, <2>4, ModeKept
<1>2. CASE Step
  <2>1. {FirstKey, SecondKey} \subseteq Observed /\ ModeKey \in Observed
    BY DEF Observed
  <2>2. ASSUME NEW key \in {FirstKey, SecondKey}, TimeObserver(key) PROVE SunInv'
    BY <2>1, <2>2, ReadChangeInv, TimeObserverInv DEF TimeObserver
  <2>3. ASSUME NEW w \in Writers, ThreadStep(w) PROVE SunInv'
    <3>1. CASE Starting(w)
      BY <2>1, <3>1, LoadSettingInv, LoadInv, ReadChangeInv, ModeObserverInv, ClearInv, WritePairInv DEF Starting
    <3>2. CASE w \in Threads /\ (InitSunriseSunsetMode(w) \/ SetRecalculationTimer(w))
      BY <3>2, CalculateInv, RecalculationInv
    <3>3. CASE SetInt32ValuePair(w)
      BY <3>3, WritePairInv
    <3> QED
      BY <2>3, <3>1, <3>2, <3>3 DEF ThreadStep
  <2> QED
    BY <1>2, <2>2, <2>3, EnvironmentInv, ChooseModeInv DEF Step
<1> QED
  BY <1>1, <1>2 DEF Next

LEMMA SpecSunInv == Spec => []SunInv
BY InitSunInv, NextSunInv, PTL DEF Spec

\* The mode and the times in memory, in the settings and under way between them
\* keep their ranges, and the timers are set for valid schedules only, whatever
\* was in the settings.
THEOREM SunriseTypeOKHolds == Spec => []TypeOK
<1>1. SunInv => TypeOK
  <2> SUFFICES ASSUME SunInv PROVE TypeOK
    OBVIOUS
  <2>1. SettingTypeOK
    <3>1. writer \in [Writers -> PairCalls]
      BY DEF SunInv, Typed, SettingsTyped
    <3>2. \A w \in Writers : writer[w] \in
              [pc : {"idle", "first", "second", "rollback", "notifyFirst", "notifySecond"},
               first : Numbers \cup {0}, second : Numbers \cup {0}, old : Text, canRollback : BOOLEAN]
      BY <3>1 DEF PairCalls
    <3> QED
      BY <3>1, <3>2 DEF SunInv, Typed, SettingsTyped, SettingTypeOK
  <2>2. sun \in [condition : {"NORMAL", "POLAR_DAY", "POLAR_NIGHT"}, pair : Int \X Int]
    <3>1. PICK sky \in SkyChoices : sun = SunOf[sky]
      BY DEF SunInv, Typed
    <3>2. GetSunset(sky) \in Int /\ GetSunrise(sky) \in Int
      <4>1. GetSunset(sky) \in Numbers /\ GetSunrise(sky) \in Numbers
        BY SunriseModeAssumption
      <4>2. \A n \in Numbers : n \in Int
        BY SettingDataManagerAssumption
      <4> QED
        BY <4>1, <4>2
    <3>3. Condition(sky) \in {"NORMAL", "POLAR_DAY", "POLAR_NIGHT"}
      BY DEF Condition
    <3> QED
      BY <3>1, <3>2, <3>3 DEF SunOf
  <2>3. armed \notin {NoTimers, CustomTimers, RefusedTimers} =>
            armed \in Int \X Int /\ IsValidScheduleTime(armed[1], armed[2])
    BY DEF SunInv, Typed, ArmedTyped
  <2>4. Len(loaded) <= Len(LoadOrder) /\ \A i \in 1 .. Len(loaded) : loaded[i] \in Int
    BY LoadOrderType DEF SunInv, Typed, LoadedTyped
  <2>5. \A key \in Observed : seen[key] # << >> => Len(seen[key]) = 1 /\ seen[key][1] \in Int
    BY ReadingType DEF SunInv, Typed
  <2> QED
    BY <2>1, <2>2, <2>3, <2>4, <2>5 DEF SunInv, Typed, TypeOK, States, AnyMode, ThreadStates
<1> QED
  BY <1>1, SpecSunInv, PTL

\* Once whoever changes the mode has come to an end, with the mode of the table
\* in memory, the recalculation timer does not run outside the sunrise mode, and
\* runs in it unless a pair of timers was refused or a call failed; it never
\* runs in an all-day mode (LoadUserSettingData,
\* SettingDataDarkModeModeUpdateFunc, InitSunriseSunsetMode, OnStateChangeLocked).
THEOREM RecalculatesInSunriseModeHolds == Spec => []RecalculatesInSunriseMode
<1>1. SunInv => RecalculatesInSunriseMode
  <2> SUFFICES ASSUME SunInv PROVE RecalculatesInSunriseMode
    OBVIOUS
  <2>1. recalculation = "on" => state.mode \notin {DARK_MODE_ALWAYS_LIGHT, DARK_MODE_ALWAYS_DARK}
    BY DEF SunInv, ModeInv, AllDay
  <2>2. ASSUME Quiet, MemoryIsCurrent
        PROVE  /\ recalculation = "on" => state.mode = DARK_MODE_SUNRISE_SUNSET
               /\ state.mode = DARK_MODE_SUNRISE_SUNSET => recalculation # "off" \/ faults > 0
    <3>1. ~MayChange /\ thread["load"] = "idle" /\ thread["observer"] = "idle" /\ ModeInTable = state.mode
      BY <2>2, SunConstants DEF Quiet, MemoryIsCurrent, MayChange, ModeInTable
    <3>2. faults \in Nat
      BY SunConstants DEF SunInv, Typed, SettingsTyped
    <3>3. faults = 0 \/ faults > 0
      BY <3>2
    <3> QED
      BY <3>1, <3>3 DEF SunInv, ModeInv, Sunny
  <2> QED
    BY <2>1, <2>2 DEF RecalculatesInSunriseMode
<1> QED
  BY <1>1, SpecSunInv, PTL

\* Timers set for the sun of the day are dark at night, in every state and for
\* every choice of skies (GetSunset, GetSunrise, IsWithinTimeInterval).
THEOREM SunNightIsDarkHolds == Spec => []SunNightIsDark
<1>1. SunNightIsDark
  <2> SUFFICES ASSUME armed = sun.pair, NEW sky \in SkyChoices, sun = SunOf[sky]
               PROVE  NightIsDark(sky, armed[1], armed[2])
    BY DEF SunNightIsDark
  <2>1. armed[1] = GetSunset(sky) /\ armed[2] = GetSunrise(sky)
    BY DEF SunOf
  <2>2. sky \in Skies
    BY SunriseModeAssumption
  <2> QED
    BY <2>1, <2>2, NightIsDarkHolds
<1> QED
  BY <1>1, PTL

\* The observers of the two times never leave them in the wrong order, whatever
\* they read and whenever they run (SettingDataSunsetTimeUpdateFunc,
\* SettingDataSunriseTimeUpdateFunc).
THEOREM ObserversKeepOrderHolds == Spec => ObserversKeepOrder
<1> DEFINE Kept == state.sunset < state.sunrise /\ state'.sunset >= state'.sunrise => LoadUserSettingData
<1>1. SunInv /\ [Next]_vars => [Kept]_vars
  <2> SUFFICES ASSUME SunInv, Step, state.sunset < state.sunrise, state'.sunset >= state'.sunrise
               PROVE  LoadUserSettingData
    BY DEF Next
  <2>1. state \in States /\ state.sunset \in Int /\ state.sunrise \in Int
    BY DEF SunInv, Typed, States
  <2>2. ASSUME UNCHANGED << state.sunset, state.sunrise >> PROVE FALSE
    BY <2>1, <2>2
  <2>3. ASSUME NEW key \in {FirstKey, SecondKey}, SettingDataTimeUpdateFunc(key) PROVE FALSE
    <3>1. state' \in States /\ state'.sunset < state'.sunrise
      BY <2>3, TimeObserverInv
    <3>2. state'.sunset \in Int /\ state'.sunrise \in Int
      BY <3>1 DEF States
    <3> QED
      BY <3>1, <3>2
  <2>4. ASSUME SettingDataDarkModeModeUpdateFunc PROVE FALSE
    BY <2>1, <2>2, <2>4 DEF SettingDataDarkModeModeUpdateFunc, States
  <2>5. ASSUME UNCHANGED state PROVE FALSE
    BY <2>2, <2>5
  <2>6. ASSUME NEW w \in Writers, ThreadStep(w) PROVE LoadUserSettingData
    BY <2>4, <2>5, <2>6
       DEF ThreadStep, Starting, LoadSetting, ReadChange, ClearRecalculationTimer, RecalculationCallback,
           InitSunriseSunsetMode, SetRecalculationTimer, SetInt32ValuePair, modeVars, memory
  <2>7. ASSUME NEW key \in {FirstKey, SecondKey}, TimeObserver(key) PROVE FALSE
    BY <2>3, <2>5, <2>7 DEF TimeObserver, ReadChange, memory
  <2> QED
    BY <2>5, <2>6, <2>7 DEF Step, SkyChange, LocationChange, ChooseMode, memory
<1> QED
  BY <1>1, SpecSunInv, PTL DEF Spec, ObserversKeepOrder
=============================================================================
