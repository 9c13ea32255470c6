-------------------------- MODULE AppearanceClient --------------------------
(***************************************************************************)
(* The side of an application: the JavaScript (napi) and the ANI interface *)
(* over UiAppearanceAbilityClient, which keeps one proxy of the service.   *)
(* The setters of napi run on a pool of workers and are answered by the    *)
(* JavaScript thread; every other call runs on the thread that makes it.   *)
(* The service is external here: it may die and be started again at any    *)
(* time.  Looking it up takes two steps, in between of which it may die,   *)
(* and who has been registered is told of a death, once, some time later.  *)
(***************************************************************************)
EXTENDS Integers, FiniteSets

CONSTANTS
    Calls,          \* what the application asks, each at most once
    NoCall,
    Callers,        \* what an application may be: systemApp, and granted the permission
    WORKERS,        \* how many setters of napi run at once
    DEATHS          \* a bound on the deaths of the service

Items == {"darkMode", "fontScale", "fontWeightScale"}
\* Numbers of JavaScript, and the classes of numbers that are told apart.
JsModes == {"0", "1", "2"}
Modes == {"dark", "light", "unknown"}
Scales == {"accepted", "outOfRange"}
NotANumber == "text"

ASSUME AppearanceClientAssumption ==
    /\ NoCall \notin Calls
    /\ Callers \subseteq [systemApp : BOOLEAN, granted : BOOLEAN]
    /\ WORKERS \in Nat \ {0} /\ DEATHS \in Nat \ {0}

VARIABLES
    systemApp, granted,         \* what the application is, and may do
    phase, request, status,     \* of each call
    via,                        \* the proxy a call uses
    main,                       \* the call that the application's thread is in
    proxy,                      \* uiAppearanceServiceProxy_: an incarnation of the service
    found,                      \* what the holder of serviceProxyLock_ has found, if anything
    watched,                    \* incarnations whose death is still to be reported, or dealt with
    dying,                      \* the one of them that is being dealt with
    incarnation, up, mode,      \* of the service; the mode it keeps
    crashed,
    missed, applied, reported   \* history: incarnations that could not be watched, ...

calls == << phase, request, status, via, main >>
connection == << proxy, found, watched, dying, missed >>
service == << incarnation, up, mode >>
application == << systemApp, granted >>
vars == << application, calls, connection, service, crashed, applied, reported >>

NoProxy == 0
Phases == {"new", "thrown", "queued", "check", "checking", "fetch", "fetching", "transact", "reply",
           "complete", "answered"}
Statuses == {"none", "SUCCEEDED", "PERMISSION_ERR", "NOT_SYSTEM_APP", "INVALID_ARG", "SYS_ERR"}
Requests == [op : {"set", "get"}, async : BOOLEAN, item : Items, arg : Modes \cup Scales \cup {NotANumber}]
NoRequest == [op |-> "none"]

\* The constructor has looked for the service.  It may have found none, or one
\* that it could not register for.
Init ==
    /\ \E caller \in Callers : systemApp = caller.systemApp /\ granted = caller.granted
    /\ phase = [c \in Calls |-> "new"] /\ request = [c \in Calls |-> NoRequest]
    /\ status = [c \in Calls |-> "none"] /\ via = [c \in Calls |-> NoProxy]
    /\ main = NoCall
    /\ up \in BOOLEAN /\ incarnation = 1
    /\ proxy \in {NoProxy, IF up THEN incarnation ELSE NoProxy} /\ found = NoProxy /\ dying = NoProxy
    /\ watched \in {{}, {proxy} \ {NoProxy}} /\ missed = {proxy} \ ({NoProxy} \cup watched)
    /\ mode = "light"
    /\ crashed = FALSE
    /\ applied = [c \in Calls |-> 0] /\ reported = [c \in Calls |-> FALSE]

-----------------------------------------------------------------------------
(* The proxy.                                                              *)

\* CreateUiAppearanceServiceProxy, under serviceProxyLock_: the service that is
\* there now is found, ...
GetSystemAbility == found = NoProxy /\ up /\ found' = incarnation

\* A mutant: nobody asked to be told of the service's death.
AddDeathRecipient_Unwatched(others) ==
    /\ proxy' = found /\ found' = NoProxy
    /\ watched' = others /\ UNCHANGED missed

\* ... and becomes the proxy, dead or alive, whether or not it could be arranged
\* that its death is reported.
AddDeathRecipient(others) ==
    /\ proxy' = found /\ found' = NoProxy
    /\ \/ watched' = others \cup {found} /\ UNCHANGED missed
       \/ watched' = others /\ missed' = missed \cup {found}

Goto(c, p) == phase' = [phase EXCEPT ![c] = p]

\* A call that has no proxy looks for one, ...
CreateUiAppearanceServiceProxy(c) ==
    /\ proxy = NoProxy /\ GetSystemAbility
    /\ \/ phase[c] = "check" /\ Goto(c, "checking")
       \/ phase[c] = "fetch" /\ Goto(c, "fetching")
    /\ UNCHANGED << application, request, status, via, main, proxy, watched, dying, missed, service,
                    crashed, applied, reported >>

\* ... and goes on with what it has found, which is nothing if the service, or who
\* knows it, is not there.  A proxy is kept until its death is reported.
GetUiAppearanceServiceProxy(c, look, looking) ==
    /\ \/ phase[c] = look /\ found = NoProxy /\ UNCHANGED << proxy, found, watched, missed >>
       \/ phase[c] = looking /\ AddDeathRecipient(watched)
    /\ UNCHANGED dying

\* A mutant: the death is dealt with when there is a service again.
OnRemoteSaDied_Waits(i) ==
    /\ ~crashed /\ i \in watched /\ i # incarnation
    /\ GetSystemAbility /\ dying' = i
    /\ UNCHANGED << application, calls, proxy, watched, missed, service, crashed, applied, reported >>

\* History: calls in the window between their two looks.
Reported == reported' = [c \in Calls |-> reported[c] \/ phase[c] = "fetch"]

\* OnRemoteDied, on a thread of its own, looks for another service; there may be
\* none, or nobody who knows it.
OnRemoteSaDied(i) ==
    /\ ~crashed /\ i \in watched /\ (i # incarnation \/ ~up) /\ found = NoProxy
    /\ \/ /\ GetSystemAbility /\ dying' = i
          /\ UNCHANGED << proxy, watched, reported >>
       \/ /\ proxy' = NoProxy /\ watched' = watched \ {i} /\ Reported
          /\ UNCHANGED << found, dying >>
    /\ UNCHANGED << application, calls, missed, service, crashed, applied >>

\* The proxy is replaced.
Replace ==
    /\ ~crashed /\ dying # NoProxy
    /\ AddDeathRecipient(watched \ {dying}) /\ dying' = NoProxy /\ Reported
    /\ UNCHANGED << application, calls, service, crashed, applied >>

-----------------------------------------------------------------------------
(* Calls begin.                                                            *)

\* The comparisons that refuse a scale; NaN passes them and is accepted.
OutOfRange(arg) == arg = "outOfRange"
Complete(c, s) == Goto(c, "complete") /\ status' = [status EXCEPT ![c] = s]
Accept(c, r) == phase[c] = "new" /\ main = NoCall /\ request' = [request EXCEPT ![c] = r]

Unless(valid, c, item, arg) ==
    /\ Accept(c, [op |-> "set", async |-> TRUE, item |-> item, arg |-> arg])
    /\ Goto(c, IF valid THEN "queued" ELSE "thrown")
    /\ UNCHANGED << application, status, via, main, connection, service, crashed, applied, reported >>

CheckArgs(arg) == arg # NotANumber
CheckFontScaleArgs(arg) == arg # NotANumber
ConvertJsDarkMode2Enum(jsVal) ==
    CASE jsVal = "0" -> "dark" [] jsVal = "1" -> "light" [] OTHER -> "unknown"

\* What is not a number throws; the rest is left to a worker.
JSSetDarkMode(c, arg) == Unless(CheckArgs(arg), c, "darkMode", ConvertJsDarkMode2Enum(arg))
JSSetFontScale(c, arg) == Unless(CheckFontScaleArgs(arg), c, "fontScale", arg)
JSSetFontWeightScale(c, arg) == Unless(CheckFontScaleArgs(arg), c, "fontWeightScale", arg)

Running(c) == request[c] # NoRequest /\ request[c].async
              /\ phase[c] \in {"check", "checking", "fetch", "fetching", "transact", "reply"}
Worker(c, item) ==
    /\ phase[c] = "queued" /\ request[c].item = item
    /\ Cardinality({d \in Calls : Running(d)}) < WORKERS
    /\ UNCHANGED << application, request, via, main, connection, service, crashed, applied, reported >>

\* A mutant: a scale out of range is forgotten instead of being refused.
OnSetFontScale_Forgets(c) ==
    /\ Worker(c, "fontScale")
    /\ IF ~systemApp THEN Complete(c, "NOT_SYSTEM_APP")
       ELSE ~OutOfRange(request[c].arg) /\ Goto(c, "check") /\ UNCHANGED status

\* A worker takes the call.
OnExecute(c) == Worker(c, "darkMode") /\ Goto(c, "check") /\ UNCHANGED status
OnSetFontScale(c) ==
    /\ Worker(c, "fontScale")
    /\ IF ~systemApp THEN Complete(c, "NOT_SYSTEM_APP")
       ELSE IF OutOfRange(request[c].arg) THEN Complete(c, "INVALID_ARG")
       ELSE Goto(c, "check") /\ UNCHANGED status
OnSetFontWeightScale(c) ==
    /\ Worker(c, "fontWeightScale")
    /\ IF ~systemApp THEN Complete(c, "NOT_SYSTEM_APP")
       ELSE IF OutOfRange(request[c].arg) THEN Complete(c, "INVALID_ARG")
       ELSE Goto(c, "check") /\ UNCHANGED status

\* The setters of ANI, with a callback or a promise, run on the caller's thread.
Blocking(c, op, item, arg) ==
    /\ Accept(c, [op |-> op, async |-> FALSE, item |-> item, arg |-> arg]) /\ main' = c
    /\ UNCHANGED << application, via, connection, service, crashed, applied, reported >>

SetDarkMode(c, arg) ==
    Blocking(c, "set", "darkMode", ConvertJsDarkMode2Enum(arg)) /\ Goto(c, "check") /\ UNCHANGED status
SetFontScale(c, arg) ==
    /\ Blocking(c, "set", "fontScale", arg)
    /\ IF OutOfRange(arg) THEN Complete(c, "INVALID_ARG") ELSE Goto(c, "check") /\ UNCHANGED status
SetFontWeightScale(c, arg) ==
    /\ Blocking(c, "set", "fontWeightScale", arg)
    /\ IF OutOfRange(arg) THEN Complete(c, "INVALID_ARG") ELSE Goto(c, "check") /\ UNCHANGED status

\* The getters of both interfaces do, too.
Get(c, item) == Blocking(c, "get", item, NotANumber) /\ Goto(c, "check") /\ UNCHANGED status
JSGetDarkMode(c) == Get(c, "darkMode")
JSGetFontScale(c) == Get(c, "fontScale")
JSGetFontWeightScale(c) == Get(c, "fontWeightScale")

-----------------------------------------------------------------------------
(* UiAppearanceAbilityClient's functions, all alike.                       *)

\* A mutant: the first look does not matter.
Check_Unchecked(c) ==
    /\ GetUiAppearanceServiceProxy(c, "check", "checking")
    /\ Goto(c, "fetch") /\ UNCHANGED status
    /\ UNCHANGED << application, request, via, main, service, crashed, applied, reported >>

\* Is there a service?
Check(c) ==
    /\ GetUiAppearanceServiceProxy(c, "check", "checking")
    /\ IF proxy' = NoProxy THEN Complete(c, "SYS_ERR") ELSE Goto(c, "fetch") /\ UNCHANGED status
    /\ UNCHANGED << application, request, via, main, service, crashed, applied, reported >>

\* The proxy is looked up again, and used whatever it is.
Fetch(c) ==
    /\ GetUiAppearanceServiceProxy(c, "fetch", "fetching")
    /\ Goto(c, "transact")
    /\ via' = [via EXCEPT ![c] = proxy']
    /\ crashed' = (proxy' = NoProxy)
    /\ UNCHANGED << application, request, status, main, service, applied, reported >>

\* What the service says to a request; it may have taken a value, but not saved
\* it, when it says SYS_ERR.
Verdicts(r) ==
    IF r.op = "get" THEN {"SUCCEEDED"}
    ELSE IF ~granted THEN {"PERMISSION_ERR"}
    ELSE IF r.item = "darkMode" /\ r.arg = mode THEN {"SYS_ERR"}
    ELSE IF r.item = "darkMode" /\ r.arg = "unknown" THEN {"INVALID_ARG"}
    ELSE {"SUCCEEDED", "SYS_ERR"}

\* The request reaches the service, or a proxy that is dead.
Transact(c) ==
    LET r == request[c]
    IN  /\ phase[c] = "transact"
        /\ IF up /\ via[c] = incarnation
           THEN \E verdict \in Verdicts(r) :
                /\ status' = [status EXCEPT ![c] = verdict] /\ Goto(c, "reply")
                /\ \/ /\ r.op = "set" /\ verdict \in {"SUCCEEDED", "SYS_ERR"}
                      /\ mode' = IF r.item = "darkMode" THEN r.arg ELSE mode
                      /\ applied' = [applied EXCEPT ![c] = @ + 1]
                   \/ /\ r.op = "get" \/ verdict # "SUCCEEDED"
                      /\ UNCHANGED << mode, applied >>
           ELSE Complete(c, "SYS_ERR") /\ UNCHANGED << mode, applied >>
        /\ UNCHANGED << application, request, via, main, connection, incarnation, up, crashed, reported >>

\* A mutant: a call that failed returns what it was initialized with.
Reply_Unchecked(c) ==
    /\ phase[c] = "reply"
    /\ \/ Goto(c, "complete") /\ UNCHANGED status
       \/ (via[c] # incarnation \/ ~up) /\ Complete(c, "-1")
    /\ UNCHANGED << application, request, via, main, connection, service, crashed, applied, reported >>

\* A mutant: a call whose service died is tried again.
Reply_Retries(c) ==
    /\ phase[c] = "reply"
    /\ \/ Goto(c, "complete")
       \/ (via[c] # incarnation \/ ~up) /\ Goto(c, "check")
    /\ UNCHANGED << application, request, status, via, main, connection, service, crashed, applied,
                    reported >>

\* The answer comes back, unless the service died before it was sent.
Reply(c) ==
    /\ phase[c] = "reply"
    /\ \/ Goto(c, "complete") /\ UNCHANGED status
       \/ (via[c] # incarnation \/ ~up) /\ Complete(c, "SYS_ERR")
    /\ UNCHANGED << application, request, via, main, connection, service, crashed, applied, reported >>

\* OnComplete, or the return of a call that ran on the application's thread.
OnComplete(c) ==
    /\ phase[c] = "complete" /\ main \in {NoCall, c}
    /\ Goto(c, "answered") /\ main' = NoCall
    /\ UNCHANGED << application, request, status, via, connection, service, crashed, applied, reported >>

-----------------------------------------------------------------------------
ServiceDies ==
    /\ up /\ incarnation <= DEATHS /\ up' = FALSE
    /\ UNCHANGED << application, calls, connection, incarnation, mode, crashed, applied, reported >>

ServiceStarts ==
    /\ ~up /\ up' = TRUE /\ incarnation' = incarnation + 1
    /\ UNCHANGED << application, calls, connection, mode, crashed, applied, reported >>

Begin(c) ==
    \/ \E jsVal \in JsModes \cup {NotANumber} : JSSetDarkMode(c, jsVal)
    \/ \E jsVal \in JsModes : SetDarkMode(c, jsVal)
    \/ \E scale \in Scales \cup {NotANumber} : JSSetFontScale(c, scale) \/ JSSetFontWeightScale(c, scale)
    \/ \E scale \in Scales : SetFontScale(c, scale) \/ SetFontWeightScale(c, scale)
    \/ JSGetDarkMode(c) \/ JSGetFontScale(c) \/ JSGetFontWeightScale(c)
Execute(c) == OnExecute(c) \/ OnSetFontScale(c) \/ OnSetFontWeightScale(c)
Step(c) ==
    \/ Execute(c) \/ CreateUiAppearanceServiceProxy(c) \/ Check(c) \/ Fetch(c) \/ Transact(c) \/ Reply(c)
    \/ OnComplete(c)
CallStep(c) == ~crashed /\ Step(c)

Next ==
    \/ \E c \in Calls : (~crashed /\ Begin(c)) \/ CallStep(c)
    \/ \E i \in watched : OnRemoteSaDied(i)
    \/ Replace \/ ServiceDies \/ ServiceStarts

\* Threads run and deaths are reported; nothing has to be asked, or to be started.
Fairness ==
    /\ \A c \in Calls : WF_vars(CallStep(c))
    /\ \A i \in 1 .. DEATHS + 1 : WF_vars(OnRemoteSaDied(i))
    /\ WF_vars(Replace)
Spec == Init /\ [][Next]_vars /\ Fairness

-----------------------------------------------------------------------------
TypeOK ==
    /\ {systemApp, granted, up, crashed} \subseteq BOOLEAN
    /\ phase \in [Calls -> Phases] /\ status \in [Calls -> Statuses]
    /\ request \in [Calls -> Requests \cup {NoRequest}]
    /\ main \in Calls \cup {NoCall}
    /\ incarnation \in 1 .. DEATHS + 1
    /\ {proxy, found} \subseteq 0 .. incarnation /\ via \in [Calls -> 0 .. incarnation]
    /\ watched \cup missed \subseteq 1 .. incarnation /\ dying \in watched \cup {NoProxy}
    /\ mode \in Modes
    /\ applied \in [Calls -> Nat] /\ reported \in [Calls -> BOOLEAN]

Stale == proxy # NoProxy /\ (proxy # incarnation \/ ~up)

\* A proxy of a service that has died is never kept without its death being still
\* to be reported or dealt with, whatever deaths, restarts and look-ups came in
\* which order, unless it could not be registered for: the service had died before,
\* or the system refused, and nobody looks (CreateUiAppearanceServiceProxy,
\* OnRemoteSaDied).
StaleIsReported == Stale => proxy \in watched \cup missed

\* Success is told only to a setter whose value the service took, once, during the
\* call, and a refusal only to one whose value it did not take, also when the
\* service dies, or is replaced, anywhere in between (SetDarkMode, OnSetFontScale).
AnswerIsTrue ==
    \A c \in Calls :
        /\ applied[c] <= 1
        /\ phase[c] = "answered" /\ request[c].op = "set" =>
               /\ status[c] = "SUCCEEDED" => applied[c] = 1
               /\ status[c] \in {"PERMISSION_ERR", "NOT_SYSTEM_APP", "INVALID_ARG"} => applied[c] = 0

\* A call that finds no service says so.  The application is lost only if a death
\* was reported between the two looks of one call (client lines 52 and 57).
NullProxyOnlyInWindow == crashed => \E c \in Calls : phase[c] = "transact" /\ reported[c]

\* Every call that was accepted is answered, with more setters than workers, with
\* calls that block the thread that answers, and with deaths of the service.
EveryCallAnswered ==
    \A c \in Calls : phase[c] \notin {"new", "thrown"} ~> (phase[c] = "answered" \/ crashed)

\* A proxy of a dead service is replaced, though nothing is asked meanwhile, unless
\* it could not be registered for its death; then every call fails for good.
StaleProxyReplaced ==
    \A i \in 1 .. DEATHS + 1 : (Stale /\ proxy = i /\ i \notin missed) ~> (proxy # i \/ crashed)
=============================================================================
