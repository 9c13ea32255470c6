----------------------- MODULE AppearanceClientProofs -----------------------
(***************************************************************************)
(* What holds of the client for any number of calls, workers and deaths of *)
(* the service: its proxy is watched if it can be, its answers are true,   *)
(* and a null proxy is used only in the window between the two looks of    *)
(* one call.                                                               *)
(***************************************************************************)
EXTENDS AppearanceClient, TLAPS

Proper(item) == IF item = "darkMode" THEN Modes ELSE Scales

\* A call that has passed its own checks asks for something that exists.
Accepted(c) ==
    phase[c] \notin {"new", "thrown"} =>
        /\ request[c] \in Requests
        /\ request[c].op = "set" => request[c].arg \in Proper(request[c].item)

\* Only a request that reached the service has an effect, and what the service
\* said of it is what the call is about to answer.
Effect(c) ==
    /\ applied[c] \in {0, 1}
    /\ phase[c] \in {"new", "thrown", "queued", "check", "checking", "fetch", "fetching", "transact"} =>
           applied[c] = 0
    /\ phase[c] \in {"reply", "complete", "answered"} /\ request[c].op = "set" =>
           /\ status[c] = "SUCCEEDED" => applied[c] = 1
           /\ status[c] \in {"PERMISSION_ERR", "NOT_SYSTEM_APP", "INVALID_ARG"} => applied[c] = 0

\* Between its two looks a call has a proxy, unless a death was reported.
Window(c) == phase[c] = "fetch" /\ ~reported[c] => proxy # NoProxy

\* serviceProxyLock_: who has found a service, a call or the report of a death, is the
\* only one to have done so.
Holds(c) == phase[c] \in {"checking", "fetching"}
LockInv ==
    /\ \A c \in Calls : Holds(c) =>
           found # NoProxy /\ dying = NoProxy /\ \A d \in Calls : Holds(d) => d = c
    /\ dying # NoProxy => found # NoProxy

\* A proxy, dead or alive, is one whose death is to be reported, or could not be.
WatchInv == proxy # NoProxy => proxy \in watched \cup missed

IInv ==
    /\ TypeOK
    /\ ~up => incarnation <= DEATHS
    /\ LockInv /\ WatchInv
    /\ \A c \in Calls : Accepted(c) /\ Effect(c) /\ Window(c)
    /\ NullProxyOnlyInWindow

\* What is asked, what the call then does and how it ended, if it has.
Started(c, r, p, s) ==
    /\ request' = [request EXCEPT ![c] = r] /\ r \in Requests
    /\ phase' = [phase EXCEPT ![c] = p] /\ p \in {"thrown", "queued", "check", "complete"}
    /\ status' = [status EXCEPT ![c] = s] /\ s \in Statuses
    /\ p # "thrown" /\ r.op = "set" => r.arg \in Proper(r.item)
    /\ p = "complete" => s # "SUCCEEDED"

\* Who holds the lock has found a service; making it the proxy leaves a proxy that is
\* watched, or could not be.
LEMMA Found ==
    ASSUME IInv, NEW others \in SUBSET watched, AddDeathRecipient(others),
           dying # NoProxy \/ \E c \in Calls : Holds(c)
    PROVE  /\ proxy' \in 1 .. incarnation /\ found' = NoProxy /\ watched' \cup missed' \subseteq 1 .. incarnation
           /\ proxy' \in watched' \cup missed' /\ others \subseteq watched' /\ proxy' # NoProxy
<1>1. incarnation \in Nat /\ found \in 0 .. incarnation /\ watched \cup missed \subseteq 1 .. incarnation
  BY AppearanceClientAssumption DEF IInv, TypeOK
<1>2. found # NoProxy
  BY DEF IInv, LockInv
<1>3. found \in 1 .. incarnation
  BY <1>1, <1>2 DEF NoProxy
<1> QED
  BY <1>1, <1>2, <1>3 DEF AddDeathRecipient

\* What looking the proxy up does: there is one that is watched or could not be, or
\* none, and the lock is free again.
LEMMA LookUp ==
    ASSUME IInv, NEW c \in Calls, NEW look, NEW looking \in {"checking", "fetching"},
           GetUiAppearanceServiceProxy(c, look, looking)
    PROVE  /\ proxy' \in 0 .. incarnation /\ watched' \cup missed' \subseteq 1 .. incarnation
           /\ proxy' # NoProxy => proxy' \in watched' \cup missed'
           /\ proxy # NoProxy => proxy' # NoProxy
           /\ found' = NoProxy /\ dying = NoProxy /\ dying' = NoProxy
           /\ \A d \in Calls \ {c} : ~Holds(d)
           /\ proxy' = NoProxy => phase[c] = look /\ proxy = NoProxy
<1>1. incarnation \in Nat /\ incarnation >= 1 /\ proxy \in 0 .. incarnation
      /\ watched \cup missed \subseteq 1 .. incarnation
  BY AppearanceClientAssumption DEF IInv, TypeOK
<1>2. CASE phase[c] = look /\ found = NoProxy /\ UNCHANGED << proxy, found, watched, missed >>
  <2>1. dying = NoProxy /\ \A d \in Calls : ~Holds(d)
    BY <1>2 DEF IInv, LockInv
  <2> QED
    BY <1>1, <1>2, <2>1 DEF GetUiAppearanceServiceProxy, IInv, WatchInv
<1>3. CASE phase[c] = looking /\ AddDeathRecipient(watched)
  <2>1. Holds(c)
    BY <1>3 DEF Holds
  <2>2. dying = NoProxy /\ \A d \in Calls \ {c} : ~Holds(d)
    BY <2>1 DEF IInv, LockInv
  <2>3. /\ proxy' \in 1 .. incarnation /\ found' = NoProxy /\ watched' \cup missed' \subseteq 1 .. incarnation
        /\ proxy' \in watched' \cup missed' /\ proxy' # NoProxy
    BY <1>3, <2>1, Found
  <2> QED
    BY <1>1, <2>2, <2>3 DEF GetUiAppearanceServiceProxy
<1> QED
  BY <1>2, <1>3 DEF GetUiAppearanceServiceProxy

\* Before anything is asked.
LEMMA InitIInv == Init => IInv
<1> SUFFICES ASSUME Init PROVE IInv
  OBVIOUS
<1>1. DEATHS \in Nat /\ DEATHS >= 1
  BY AppearanceClientAssumption
<1>2. TypeOK
  <2>1. {systemApp, granted, up, crashed} \subseteq BOOLEAN
    BY AppearanceClientAssumption DEF Init
  <2>2. /\ {proxy, found} \subseteq 0 .. incarnation /\ watched \cup missed \subseteq 1 .. incarnation
        /\ incarnation \in 1 .. DEATHS + 1
    BY <1>1 DEF Init, NoProxy
  <2>3. mode \in Modes
    BY DEF Init, Modes
  <2> QED
    BY <2>1, <2>2, <2>3 DEF Init, TypeOK, NoProxy, Phases, Statuses
<1>3. LockInv /\ WatchInv /\ NullProxyOnlyInWindow
  BY DEF Init, LockInv, Holds, WatchInv, NullProxyOnlyInWindow, NoProxy
<1>4. \A c \in Calls : Accepted(c) /\ Effect(c) /\ Window(c)
  BY DEF Init, Accepted, Effect, Window
<1> QED
  BY <1>1, <1>2, <1>3, <1>4 DEF IInv, Init

\* Every way for a call to begin is one of those that Started describes.
LEMMA BeginStarts ==
    ASSUME IInv, NEW c \in Calls, Begin(c)
    PROVE  /\ phase[c] = "new" /\ main' \in {c, main}
           /\ \E r, p, s : Started(c, r, p, s)
           /\ UNCHANGED << application, via, connection, service, crashed, applied, reported >>
<1>0. status[c] \in Statuses /\ status = [status EXCEPT ![c] = status[c]]
  BY DEF IInv, TypeOK
<1>1. ASSUME NEW valid, NEW item \in Items, NEW arg \in Modes \cup Scales \cup {NotANumber},
             valid => arg \in Proper(item), Unless(valid, c, item, arg)
      PROVE  /\ phase[c] = "new" /\ main' \in {c, main}
             /\ \E r, p, s : Started(c, r, p, s)
             /\ UNCHANGED << application, via, connection, service, crashed, applied, reported >>
  <2> DEFINE r == [op |-> "set", async |-> TRUE, item |-> item, arg |-> arg]
             p == IF valid THEN "queued" ELSE "thrown"
  <2>1. r \in Requests /\ (p # "thrown" => r.arg \in Proper(r.item))
    BY <1>1 DEF Requests
  <2>2. Started(c, r, p, status[c])
    BY <1>0, <1>1, <2>1 DEF Started, Unless, Accept, Goto
  <2> QED
    BY <1>1, <2>2 DEF Unless, Accept
<1>2. ASSUME NEW op \in {"set", "get"}, NEW item \in Items,
             NEW arg \in Modes \cup Scales \cup {NotANumber},
             op = "set" => arg \in Proper(item),
             NEW p \in {"check", "complete"}, NEW s \in Statuses,
             Blocking(c, op, item, arg), Goto(c, p), status' = [status EXCEPT ![c] = s],
             p = "complete" => s # "SUCCEEDED"
      PROVE  /\ phase[c] = "new" /\ main' \in {c, main}
             /\ \E r, q, t : Started(c, r, q, t)
             /\ UNCHANGED << application, via, connection, service, crashed, applied, reported >>
  <2> DEFINE r == [op |-> op, async |-> FALSE, item |-> item, arg |-> arg]
  <2>1. r \in Requests /\ (r.op = "set" => r.arg \in Proper(r.item))
    BY <1>2 DEF Requests
  <2>2. Started(c, r, p, s)
    BY <1>2, <2>1 DEF Started, Blocking, Accept, Goto
  <2> QED
    BY <1>2, <2>2 DEF Blocking, Accept
<1>3. \A jsVal : ConvertJsDarkMode2Enum(jsVal) \in Modes
  BY DEF ConvertJsDarkMode2Enum, Modes
<1>4. /\ Proper("darkMode") = Modes
      /\ \A item \in {"fontScale", "fontWeightScale"} : Proper(item) = Scales
  BY DEF Proper
<1>9. NotANumber \notin Scales
  BY DEF NotANumber, Scales
<1>5. ASSUME NEW jsMode, JSSetDarkMode(c, jsMode) \/ SetDarkMode(c, jsMode)
      PROVE  /\ phase[c] = "new" /\ main' \in {c, main}
             /\ \E r, p, s : Started(c, r, p, s)
             /\ UNCHANGED << application, via, connection, service, crashed, applied, reported >>
  <2>1. CASE JSSetDarkMode(c, jsMode)
    BY <2>1, <1>1, <1>3, <1>4 DEF JSSetDarkMode, Items
  <2>2. CASE SetDarkMode(c, jsMode)
    <3>1. Goto(c, "check") /\ status' = [status EXCEPT ![c] = status[c]]
          /\ Blocking(c, "set", "darkMode", ConvertJsDarkMode2Enum(jsMode))
      BY <2>2, <1>0 DEF SetDarkMode
    <3> QED
      BY <3>1, <1>0, <1>2, <1>3, <1>4, ZenonT(30) DEF Items
  <2> QED
    BY <1>5, <2>1, <2>2
<1>6. ASSUME NEW scale \in Scales \cup {NotANumber},
             JSSetFontScale(c, scale) \/ JSSetFontWeightScale(c, scale)
      PROVE  /\ phase[c] = "new" /\ main' \in {c, main}
             /\ \E r, p, s : Started(c, r, p, s)
             /\ UNCHANGED << application, via, connection, service, crashed, applied, reported >>
  BY <1>1, <1>4, <1>6, <1>9 DEF JSSetFontScale, JSSetFontWeightScale, CheckFontScaleArgs, Items
<1>7. ASSUME NEW scale \in Scales, SetFontScale(c, scale) \/ SetFontWeightScale(c, scale)
      PROVE  /\ phase[c] = "new" /\ main' \in {c, main}
             /\ \E r, p, s : Started(c, r, p, s)
             /\ UNCHANGED << application, via, connection, service, crashed, applied, reported >>
  <2>1. PICK item \in {"fontScale", "fontWeightScale"} : Blocking(c, "set", item, scale)
                              /\ IF OutOfRange(scale) THEN Complete(c, "INVALID_ARG")
                                 ELSE Goto(c, "check") /\ UNCHANGED status
    BY <1>7 DEF SetFontScale, SetFontWeightScale
  <2>2. CASE OutOfRange(scale)
    <3>1. Goto(c, "complete") /\ status' = [status EXCEPT ![c] = "INVALID_ARG"]
      BY <2>1, <2>2 DEF Complete
    <3> QED
      BY <2>1, <3>1, <1>2, <1>4 DEF Statuses, Items
  <2>3. CASE ~OutOfRange(scale)
    <3>1. Goto(c, "check") /\ status' = [status EXCEPT ![c] = status[c]]
      BY <2>1, <2>3, <1>0
    <3> QED
      BY <2>1, <3>1, <1>0, <1>2, <1>4 DEF Items
  <2> QED
    BY <2>2, <2>3
<1>8. ASSUME JSGetDarkMode(c) \/ JSGetFontScale(c) \/ JSGetFontWeightScale(c)
      PROVE  /\ phase[c] = "new" /\ main' \in {c, main}
             /\ \E r, p, s : Started(c, r, p, s)
             /\ UNCHANGED << application, via, connection, service, crashed, applied, reported >>
  <2>1. PICK item \in Items : Get(c, item)
    BY <1>8 DEF JSGetDarkMode, JSGetFontScale, JSGetFontWeightScale, Items
  <2>2. Blocking(c, "get", item, NotANumber) /\ Goto(c, "check")
        /\ status' = [status EXCEPT ![c] = status[c]]
    BY <2>1, <1>0 DEF Get
  <2> QED
    BY <2>2, <1>0, <1>2
<1> QED
  BY <1>5, <1>6, <1>7, <1>8 DEF Begin

\* A call that begins has no effect yet.
LEMMA BeginIInv ==
    ASSUME IInv, ~crashed, NEW c \in Calls, Begin(c)
    PROVE  IInv'
<1>1. PICK r, p, s : Started(c, r, p, s)
  BY BeginStarts
<1>2. phase[c] = "new" /\ main' \in {c, main}
      /\ UNCHANGED << application, via, connection, service, crashed, applied, reported >>
  BY BeginStarts
<1>3. TypeOK'
  BY <1>1, <1>2 DEF IInv, TypeOK, Started, application, connection, service, Phases
<1>4. ASSUME NEW d \in Calls PROVE (Accepted(d) /\ Effect(d) /\ Window(d))'
  <2>1. CASE d = c
    BY <1>1, <1>2, <2>1 DEF IInv, TypeOK, Started, Accepted, Effect, Window, connection
  <2>2. CASE d # c
    BY <1>1, <1>2, <2>2 DEF IInv, TypeOK, Started, Accepted, Effect, Window, connection
  <2> QED
    BY <2>1, <2>2
<1>5. LockInv'
  BY <1>1, <1>2 DEF IInv, TypeOK, Started, LockInv, Holds, connection
<1> QED
  BY <1>2, <1>3, <1>4, <1>5 DEF IInv, WatchInv, NullProxyOnlyInWindow, connection, service

\* A step of a call from the worker's first look to the answer.
LEMMA StepIInv ==
    ASSUME IInv, ~crashed, NEW c \in Calls, Step(c)
    PROVE  IInv'
<1> USE DEF IInv
<1>1. CASE Execute(c)
  <2>1. PICK s \in Statuses, p \in {"check", "complete"} :
            /\ phase[c] = "queued" /\ phase' = [phase EXCEPT ![c] = p]
            /\ status' = [status EXCEPT ![c] = s] /\ (p = "complete" => s # "SUCCEEDED")
            /\ UNCHANGED << application, request, via, main, connection, service, crashed, applied,
                            reported >>
    <3>1. status[c] \in Statuses /\ status = [status EXCEPT ![c] = status[c]]
      BY DEF TypeOK
    <3>2. "NOT_SYSTEM_APP" \in Statuses /\ "INVALID_ARG" \in Statuses
      BY DEF Statuses
    <3> QED
      BY <1>1, <3>1, <3>2 DEF Execute, OnExecute, OnSetFontScale, OnSetFontWeightScale, Worker, Goto, Complete
  <2>2. TypeOK'
    BY <2>1 DEF TypeOK, application, connection, service, Phases
  <2>3. \A d \in Calls : (Accepted(d) /\ Effect(d) /\ Window(d))'
    BY <2>1 DEF TypeOK, Accepted, Effect, Window, connection
  <2> QED
    BY <2>1, <2>2, <2>3 DEF TypeOK, WatchInv, LockInv, Holds, NullProxyOnlyInWindow, connection, service
<1>2. CASE CreateUiAppearanceServiceProxy(c)
  <2>1. PICK p \in {"checking", "fetching"} :
            /\ phase[c] \in {"check", "fetch"} /\ phase' = [phase EXCEPT ![c] = p]
            /\ found = NoProxy /\ found' = incarnation /\ up
            /\ UNCHANGED << application, request, status, via, main, proxy, watched, dying, missed, service,
                            crashed, applied, reported >>
    BY <1>2 DEF CreateUiAppearanceServiceProxy, GetSystemAbility, Goto
  <2>2. incarnation \in Nat /\ incarnation >= 1
    BY AppearanceClientAssumption DEF TypeOK
  <2>3. incarnation # NoProxy /\ incarnation \in 0 .. incarnation
    BY <2>2 DEF NoProxy
  <2>4. dying = NoProxy /\ \A d \in Calls : ~Holds(d)
    BY <2>1 DEF LockInv
  <2>5. TypeOK'
    BY <2>1, <2>3 DEF TypeOK, application, service, Phases
  <2>6. LockInv'
    BY <2>1, <2>3, <2>4 DEF TypeOK, LockInv, Holds
  <2>7. \A d \in Calls : (Accepted(d) /\ Effect(d) /\ Window(d))'
    BY <2>1 DEF TypeOK, Accepted, Effect, Window, connection
  <2> QED
    BY <2>1, <2>5, <2>6, <2>7 DEF WatchInv, NullProxyOnlyInWindow, service
<1>3. CASE Check(c)
  <2>1. PICK s \in Statuses, p \in {"fetch", "complete"} :
            /\ phase' = [phase EXCEPT ![c] = p] /\ status' = [status EXCEPT ![c] = s]
            /\ p = "complete" => s # "SUCCEEDED" /\ s \notin {"PERMISSION_ERR", "NOT_SYSTEM_APP", "INVALID_ARG"}
            /\ p = "fetch" => proxy' # NoProxy
    <3>1. status[c] \in Statuses /\ status = [status EXCEPT ![c] = status[c]] /\ "SYS_ERR" \in Statuses
      BY DEF TypeOK, Statuses
    <3> QED
      BY <1>3, <3>1 DEF Check, Goto, Complete
  <2>2. /\ phase[c] \in {"check", "checking"}
        /\ UNCHANGED << application, request, via, main, service, crashed, applied, reported >>
    BY <1>3 DEF Check, GetUiAppearanceServiceProxy
  <2>3. /\ proxy' \in 0 .. incarnation /\ watched' \cup missed' \subseteq 1 .. incarnation
        /\ proxy' # NoProxy => proxy' \in watched' \cup missed'
        /\ proxy # NoProxy => proxy' # NoProxy
        /\ found' = NoProxy /\ dying' = NoProxy /\ \A d \in Calls \ {c} : ~Holds(d)
    BY <1>3, LookUp DEF Check
  <2>4. TypeOK'
    <3>1. found' \in 0 .. incarnation
      BY <2>3, AppearanceClientAssumption DEF TypeOK, NoProxy
    <3> QED
      BY <2>1, <2>2, <2>3, <3>1 DEF TypeOK, application, service, Phases
  <2>5. \A d \in Calls : (Accepted(d) /\ Effect(d) /\ Window(d))'
    BY <2>1, <2>2, <2>3 DEF TypeOK, Accepted, Effect, Window
  <2>6. LockInv'
    BY <2>1, <2>3 DEF TypeOK, LockInv, Holds
  <2> QED
    BY <2>2, <2>3, <2>4, <2>5, <2>6 DEF WatchInv, NullProxyOnlyInWindow, service
<1>7. CASE Fetch(c)
  <2>1. /\ phase[c] \in {"fetch", "fetching"} /\ phase' = [phase EXCEPT ![c] = "transact"]
        /\ via' = [via EXCEPT ![c] = proxy'] /\ crashed' = (proxy' = NoProxy)
        /\ UNCHANGED << application, request, status, main, service, applied, reported >>
    BY <1>7 DEF Fetch, GetUiAppearanceServiceProxy, Goto
  <2>2. /\ proxy' \in 0 .. incarnation /\ watched' \cup missed' \subseteq 1 .. incarnation
        /\ proxy' # NoProxy => proxy' \in watched' \cup missed'
        /\ proxy # NoProxy => proxy' # NoProxy
        /\ found' = NoProxy /\ dying' = NoProxy /\ \A d \in Calls \ {c} : ~Holds(d)
        /\ proxy' = NoProxy => phase[c] = "fetch" /\ proxy = NoProxy
    BY <1>7, LookUp DEF Fetch
  <2>3. TypeOK'
    <3>1. found' \in 0 .. incarnation
      BY <2>2, AppearanceClientAssumption DEF TypeOK, NoProxy
    <3> QED
      BY <2>1, <2>2, <3>1 DEF TypeOK, application, service, Phases
  <2>4. \A d \in Calls : (Accepted(d) /\ Effect(d) /\ Window(d))'
    BY <2>1, <2>2 DEF TypeOK, Accepted, Effect, Window, connection
  <2>5. NullProxyOnlyInWindow'
    <3>1. ASSUME proxy' = NoProxy PROVE reported[c] /\ phase'[c] = "transact"
      BY <2>1, <2>2, <3>1 DEF Window, TypeOK
    <3> QED
      BY <2>1, <3>1 DEF NullProxyOnlyInWindow
  <2>6. LockInv'
    BY <2>1, <2>2 DEF TypeOK, LockInv, Holds
  <2> QED
    BY <2>1, <2>2, <2>3, <2>4, <2>5, <2>6 DEF WatchInv, service
<1>4. CASE Transact(c)
  <2>1. PICK s \in Statuses, p \in {"reply", "complete"}, n \in {0, 1} :
            /\ phase' = [phase EXCEPT ![c] = p] /\ status' = [status EXCEPT ![c] = s]
            /\ applied' = [applied EXCEPT ![c] = n]
            /\ request[c].op = "set" /\ s = "SUCCEEDED" => n = 1
            /\ request[c].op = "set" /\ s \in {"PERMISSION_ERR", "NOT_SYSTEM_APP", "INVALID_ARG"} => n = 0
    <3>1. phase[c] = "transact" /\ applied[c] = 0
      BY <1>4 DEF Transact, Effect
    <3>2. applied = [applied EXCEPT ![c] = 0] /\ applied \in [Calls -> Nat]
      BY <3>1 DEF TypeOK
    <3>3. CASE up /\ via[c] = incarnation
      <4>1. PICK verdict \in Verdicts(request[c]) :
                /\ status' = [status EXCEPT ![c] = verdict] /\ Goto(c, "reply")
                /\ \/ /\ request[c].op = "set" /\ verdict \in {"SUCCEEDED", "SYS_ERR"}
                      /\ applied' = [applied EXCEPT ![c] = @ + 1]
                   \/ /\ request[c].op = "get" \/ verdict # "SUCCEEDED"
                      /\ UNCHANGED applied
        BY <1>4, <3>3 DEF Transact
      <4>2. verdict \in {"SUCCEEDED", "PERMISSION_ERR", "INVALID_ARG", "SYS_ERR"}
        BY <4>1 DEF Verdicts
      <4>3. verdict \in Statuses
        BY <4>2 DEF Statuses
      <4>4. CASE /\ request[c].op = "set" /\ verdict \in {"SUCCEEDED", "SYS_ERR"}
                 /\ applied' = [applied EXCEPT ![c] = @ + 1]
        <5>1. applied' = [applied EXCEPT ![c] = 1]
          BY <3>1, <3>2, <4>4
        <5> QED
          BY <4>1, <4>3, <4>4, <5>1 DEF Goto
      <4>5. CASE (request[c].op = "get" \/ verdict # "SUCCEEDED") /\ UNCHANGED applied
        BY <3>2, <4>1, <4>3, <4>5 DEF Goto
      <4> QED
        BY <4>1, <4>4, <4>5
    <3>4. CASE ~(up /\ via[c] = incarnation)
      BY <1>4, <3>2, <3>4 DEF Transact, Complete, Goto, Statuses
    <3> QED
      BY <3>3, <3>4
  <2>2. /\ phase[c] = "transact"
        /\ UNCHANGED << application, request, via, main, connection, incarnation, up, crashed, reported >>
    BY <1>4 DEF Transact
  <2>3. mode' \in Modes
    <3>1. request[c] \in Requests /\ (request[c].op = "set" => request[c].arg \in Proper(request[c].item))
      BY <2>2 DEF Accepted
    <3>2. mode' = mode \/ (request[c].op = "set" /\ request[c].item = "darkMode" /\ mode' = request[c].arg)
      BY <1>4 DEF Transact
    <3> QED
      BY <3>1, <3>2 DEF TypeOK, Proper
  <2>4. TypeOK'
    BY <2>1, <2>2, <2>3 DEF TypeOK, application, connection, Phases
  <2>5. \A d \in Calls : (Accepted(d) /\ Effect(d) /\ Window(d))'
    BY <2>1, <2>2 DEF TypeOK, Accepted, Effect, Window, connection
  <2> QED
    BY <2>1, <2>2, <2>4, <2>5 DEF TypeOK, WatchInv, LockInv, Holds, NullProxyOnlyInWindow, connection
<1>5. CASE Reply(c)
  <2>1. PICK s \in Statuses :
            /\ phase[c] = "reply" /\ phase' = [phase EXCEPT ![c] = "complete"]
            /\ status' = [status EXCEPT ![c] = s] /\ s \in {status[c], "SYS_ERR"}
            /\ UNCHANGED << application, request, via, main, connection, service, crashed, applied,
                            reported >>
    <3>1. status[c] \in Statuses /\ status = [status EXCEPT ![c] = status[c]] /\ "SYS_ERR" \in Statuses
      BY DEF TypeOK, Statuses
    <3> QED
      BY <1>5, <3>1 DEF Reply, Goto, Complete
  <2>2. TypeOK'
    BY <2>1 DEF TypeOK, application, connection, service, Phases
  <2>3. \A d \in Calls : (Accepted(d) /\ Effect(d) /\ Window(d))'
    BY <2>1 DEF TypeOK, Accepted, Effect, Window, connection
  <2> QED
    BY <2>1, <2>2, <2>3 DEF TypeOK, WatchInv, LockInv, Holds, NullProxyOnlyInWindow, connection, service
<1>6. CASE OnComplete(c)
  <2>1. /\ phase[c] = "complete" /\ phase' = [phase EXCEPT ![c] = "answered"] /\ main' = NoCall
        /\ UNCHANGED << application, request, status, via, connection, service, crashed, applied, reported >>
    BY <1>6 DEF OnComplete, Goto
  <2>2. TypeOK'
    BY <2>1 DEF TypeOK, application, connection, service, Phases
  <2>3. \A d \in Calls : (Accepted(d) /\ Effect(d) /\ Window(d))'
    BY <2>1 DEF TypeOK, Accepted, Effect, Window, connection
  <2> QED
    BY <2>1, <2>2, <2>3 DEF TypeOK, WatchInv, LockInv, Holds, NullProxyOnlyInWindow, connection, service
<1> QED
  BY <1>1, <1>2, <1>3, <1>4, <1>5, <1>6, <1>7 DEF Step

\* The report of a death finds another service, or none: then the calls between
\* their two looks are the ones it is history for.
LEMMA OnRemoteSaDiedIInv ==
    ASSUME IInv, NEW i \in watched, OnRemoteSaDied(i)
    PROVE  IInv'
<1> USE DEF IInv
<1>1. ~crashed /\ found = NoProxy /\ UNCHANGED << application, calls, missed, service, crashed, applied >>
  BY DEF OnRemoteSaDied
<1>2. incarnation \in Nat /\ incarnation >= 1 /\ incarnation # NoProxy /\ watched \subseteq 1 .. incarnation
      /\ {0, incarnation} \subseteq 0 .. incarnation
  BY AppearanceClientAssumption DEF TypeOK, NoProxy
<1>3. dying = NoProxy /\ \A c \in Calls : ~Holds(c)
  BY <1>1 DEF LockInv
<1>4. CASE found' = incarnation /\ dying' = i /\ UNCHANGED << proxy, watched, reported >>
  <2>1. TypeOK'
    BY <1>1, <1>2, <1>4 DEF TypeOK, application, calls, service
  <2>2. LockInv'
    BY <1>1, <1>2, <1>3, <1>4 DEF LockInv, Holds, calls
  <2> QED
    BY <1>1, <1>4, <2>1, <2>2 DEF WatchInv, NullProxyOnlyInWindow, Accepted, Effect, Window, calls, service
<1>5. CASE proxy' = NoProxy /\ watched' = watched \ {i} /\ Reported /\ UNCHANGED << found, dying >>
  <2>1. TypeOK'
    BY <1>1, <1>2, <1>3, <1>5 DEF TypeOK, application, calls, service, Reported, NoProxy
  <2>2. LockInv'
    BY <1>1, <1>3, <1>5 DEF LockInv, Holds, calls
  <2>3. \A c \in Calls : (Accepted(c) /\ Effect(c) /\ Window(c))'
    BY <1>1, <1>5 DEF TypeOK, Accepted, Effect, Window, calls, Reported
  <2> QED
    BY <1>1, <1>5, <2>1, <2>2, <2>3 DEF WatchInv, NullProxyOnlyInWindow, service
<1> QED
  BY <1>4, <1>5 DEF OnRemoteSaDied, GetSystemAbility

\* The service that was found becomes the proxy, and nothing else holds the lock.
LEMMA ReplaceIInv ==
    ASSUME IInv, Replace
    PROVE  IInv'
<1> USE DEF IInv
<1>1. /\ ~crashed /\ dying # NoProxy /\ dying' = NoProxy /\ Reported
      /\ AddDeathRecipient(watched \ {dying})
      /\ UNCHANGED << application, calls, service, crashed, applied >>
  BY DEF Replace
<1>2. /\ proxy' \in 1 .. incarnation /\ found' = NoProxy /\ watched' \cup missed' \subseteq 1 .. incarnation
      /\ proxy' \in watched' \cup missed' /\ proxy' # NoProxy
  <2>1. watched \ {dying} \in SUBSET watched
    OBVIOUS
  <2> QED
    BY <1>1, <2>1, Found
<1>3. \A c \in Calls : ~Holds(c)
  BY <1>1 DEF LockInv
<1>4. TypeOK'
  <2>1. {proxy', found'} \subseteq 0 .. incarnation
    BY <1>2, AppearanceClientAssumption DEF TypeOK, NoProxy
  <2> QED
    BY <1>1, <1>2, <2>1 DEF TypeOK, application, calls, service, Reported
<1>5. LockInv'
  BY <1>1, <1>2, <1>3 DEF LockInv, Holds, calls
<1>6. \A c \in Calls : (Accepted(c) /\ Effect(c) /\ Window(c))'
  BY <1>1 DEF TypeOK, Accepted, Effect, Window, calls, Reported
<1> QED
  BY <1>1, <1>2, <1>4, <1>5, <1>6 DEF WatchInv, NullProxyOnlyInWindow, service

\* Every step keeps the invariant.
LEMMA NextIInv == IInv /\ [Next]_vars => IInv'
<1> SUFFICES ASSUME IInv, [Next]_vars PROVE IInv'
  OBVIOUS
<1>1. ASSUME NEW c \in Calls, ~crashed /\ Begin(c) PROVE IInv'
  BY <1>1, BeginIInv
<1>2. ASSUME NEW c \in Calls, CallStep(c) PROVE IInv'
  BY <1>2, StepIInv DEF CallStep
<1>3. ASSUME NEW i \in watched, OnRemoteSaDied(i) PROVE IInv'
  BY <1>3, OnRemoteSaDiedIInv
<1>4. CASE ServiceDies
  BY <1>4, AppearanceClientAssumption
     DEF ServiceDies, IInv, TypeOK, LockInv, Holds, WatchInv, NullProxyOnlyInWindow, Accepted, Effect, Window,
         application, calls, connection
<1>5. CASE ServiceStarts
  <2>1. DEATHS \in Nat /\ incarnation \in 1 .. DEATHS /\ incarnation' = incarnation + 1 /\ up' = TRUE
        /\ UNCHANGED << application, calls, connection, mode, crashed, applied, reported >>
    BY <1>5, AppearanceClientAssumption DEF ServiceStarts, IInv, TypeOK
  <2>2. {proxy, found} \subseteq 0 .. incarnation' /\ via \in [Calls -> 0 .. incarnation']
        /\ watched \cup missed \subseteq 1 .. incarnation' /\ incarnation' \in 1 .. DEATHS + 1
    <3>1. 0 .. incarnation \subseteq 0 .. incarnation' /\ 1 .. incarnation \subseteq 1 .. incarnation'
      BY <2>1
    <3>2. /\ {proxy, found} \subseteq 0 .. incarnation /\ via \in [Calls -> 0 .. incarnation]
          /\ watched \cup missed \subseteq 1 .. incarnation
      BY DEF IInv, TypeOK
    <3> QED
      BY <2>1, <3>1, <3>2
  <2>3. TypeOK'
    BY <2>1, <2>2 DEF IInv, TypeOK, application, calls, connection
  <2> QED
    BY <2>1, <2>3 DEF IInv, LockInv, Holds, WatchInv, NullProxyOnlyInWindow, Accepted, Effect, Window,
                      calls, connection
<1>6. CASE UNCHANGED vars
  BY <1>6 DEF vars, application, calls, connection, service, IInv, TypeOK, LockInv, Holds, WatchInv,
              NullProxyOnlyInWindow, Accepted, Effect, Window
<1>7. CASE Replace
  BY <1>7, ReplaceIInv
<1> QED
  BY <1>1, <1>2, <1>3, <1>4, <1>5, <1>6, <1>7 DEF Next

LEMMA SpecIInv == Spec => []IInv
BY InitIInv, NextIInv, PTL DEF Spec

\* Variables have their types, whatever is asked and however often the service dies.
THEOREM TypeOKHolds == Spec => []TypeOK
<1>1. IInv => TypeOK
  BY DEF IInv
<1> QED
  BY <1>1, SpecIInv, PTL

\* A proxy of a dead service is kept only as long as its death is still to be reported
\* or dealt with, for any number of deaths between any two steps of any look-ups, if
\* the registration that nobody checks took place (CreateUiAppearanceServiceProxy).
THEOREM StaleIsReportedHolds == Spec => []StaleIsReported
<1>1. IInv => StaleIsReported
  BY DEF IInv, WatchInv, StaleIsReported, Stale
<1> QED
  BY <1>1, SpecIInv, PTL

\* No answer of a setter is a lie, for any number of concurrent calls and deaths.
THEOREM AnswerIsTrueHolds == Spec => []AnswerIsTrue
<1>1. IInv => AnswerIsTrue
  BY DEF IInv, AnswerIsTrue, Effect
<1> QED
  BY <1>1, SpecIInv, PTL

\* A null proxy is used only if a death was reported between the two looks.
THEOREM NullProxyOnlyInWindowHolds == Spec => []NullProxyOnlyInWindow
<1>1. IInv => NullProxyOnlyInWindow
  BY DEF IInv
<1> QED
  BY <1>1, SpecIInv, PTL
=============================================================================
