------------------------- MODULE AppearanceService -------------------------
(***************************************************************************)
(* UiAppearanceAbility: the appearance of several accounts, each with its  *)
(* sub-profiles, in five places: the configuration that the application    *)
(* manager (external) shows to a user's applications, usersParam_, a       *)
(* parameter per account, the base parameters without an account, and the  *)
(* flags of the first start after an upgrade.                              *)
(*                                                                         *)
(* A handler is a sequence of calls and lock sections, its todo list; one  *)
(* step does the first of them, fails at it, or replaces it by others.     *)
(* Handlers on different threads interleave and the process may die        *)
(* between any two steps.  DarkModeManager is seen from outside: it calls  *)
(* UpdateDarkModeCallback and says which colour a loaded account is to     *)
(* have.  An "item" is darkMode, fontScale or fontWeightScale.             *)
(***************************************************************************)
EXTENDS Integers, FiniteSets, Sequences, SequencesExt

CONSTANTS
    Users,
    USER100,            \* the user in the middle, when several are in front
    INVALID_SUB_PROFILE_ID,
    InitialForeground,  \* the account in front of each user at the start
    Contexts,           \* the accounts: for each user a base one, or sub-profiles
    STANDARD_FONT_WEIGHT,   \* the device's default, or Unset
    InitialCases,       \* which users are in front at the start, and is it the first after an upgrade?
    ParamChoices,           \* which accounts may have parameters
    ScaleChoices,           \* the scales that applications set
    CHANGES             \* a bound on failing calls and on what the environment does, together

Items == {"darkMode", "fontScale", "fontWeightScale"}
\* LIGHT and "1" are 0; DARK and another scale are 1; 2 is a device's own weight.
Values == 0 .. 2
Unset == -1
Lost == -2
Base(user) == [userId |-> user, subProfileId |-> INVALID_SUB_PROFILE_ID]
IsSubProfileContext(context) == context.subProfileId # INVALID_SUB_PROFILE_ID

ASSUME AppearanceServiceAssumption ==
    /\ USER100 \in Users /\ Users \subseteq Nat /\ IsFiniteSet(Users) /\ IsFiniteSet(Contexts)
    /\ Contexts \subseteq [userId : Users, subProfileId : Int]
    /\ InitialForeground \in [Users -> Contexts]
    /\ \A user \in Users : InitialForeground[user].userId = user
    /\ \A c \in Contexts : Base(c.userId) \in Contexts => c = Base(c.userId)
    /\ STANDARD_FONT_WEIGHT \in Values \cup {Unset}
    /\ InitialCases \subseteq [active : (SUBSET Users) \ {{}}, first : BOOLEAN]
    /\ ScaleChoices \subseteq Values
    /\ \A set \in ParamChoices : set \subseteq Contexts \cup {Base(user) : user \in Users}
    /\ CHANGES \in Nat

VARIABLES
    active, foreground,     \* users in front, and each user's context in front
    configuration,          \* of the application manager, for each user
    param, baseParam, firstInitialization,      \* persistent parameters
    usersParam, isNeedDoCompatibleProcess, isInitializationFinished, onceFlag,
    appMgr,                 \* the application manager is there
    phase,                  \* "published", "serving", or "removed" with appMgr
    events, thread,
    faults, changes,
    \* history:
    behind,         \* a request has come for a user in the background since the last switch
    accepted,       \* what an account was last promised, or None
    shown           \* the account whose configuration was sent last, Nobody or Doubtful

environment == << active, foreground, behind >>
persistent == << param, baseParam, firstInitialization >>
flags == << isNeedDoCompatibleProcess, isInitializationFinished, onceFlag, appMgr, phase >>
history == << accepted, shown >>
vars == << environment, configuration, persistent, usersParam, flags, events, thread,
           faults, changes, history >>

None == -3
Nobody == [userId |-> -1, subProfileId |-> -1]
Doubtful == [userId |-> -2, subProfileId |-> -2]
NothingShown == [user \in Users |-> Nobody]
InDoubt == [user \in Users |-> Doubtful]
Threads == {"sa", "event", "ipc", "timer"}
Idle == [todo |-> << >>, items |-> {}, inDoubt |-> FALSE]
ParamContexts == Contexts \cup {Base(user) : user \in Users}

\* GetDefaultFontWeightScaleValue: the device's standard weight comes before
\* the caller's default.
GetDefaultFontWeightScaleValue(default) ==
    IF STANDARD_FONT_WEIGHT = Unset THEN default ELSE STANDARD_FONT_WEIGHT
Default(item) == IF item = "fontWeightScale" THEN GetDefaultFontWeightScaleValue(0) ELSE 0
UiAppearanceParam == [item \in Items |-> Default(item)]
Entry(context) ==
    IF context \in DOMAIN usersParam THEN usersParam[context] ELSE UiAppearanceParam
EntrySet(context, entry) ==
    usersParam' = [c \in DOMAIN usersParam \cup {context} |->
                       IF c = context THEN entry ELSE usersParam[c]]

\* Some of the items of a parameter are given new values.
Updated(old, values, items) ==
    [item \in Items |-> IF item \in items THEN values[item] ELSE old[item]]

\* What loading finds for an account: a sub-profile falls back on its user.
LoadContextParam(context, item) ==
    LET own == param[context][item]
        base == param[Base(context.userId)][item]
    IN  IF own # Unset THEN own
        ELSE IF IsSubProfileContext(context) /\ base # Unset THEN base ELSE Default(item)

\* What the first start after an upgrade gives to an account that has nothing.
OldParam(item) ==
    IF item = "fontWeightScale" THEN GetDefaultFontWeightScaleValue(baseParam[item])
    ELSE baseParam[item]

NothingToCarry(c, item) == ~firstInitialization \/ param[c][item] # Unset

\* The device starts, for the first time after an upgrade or not.
Init ==
    /\ \E case \in InitialCases : active = case.active /\ firstInitialization = case.first
    /\ foreground = InitialForeground /\ behind = FALSE
    /\ configuration = [user \in Users |-> [item \in Items |-> Lost]]
    /\ baseParam = [item \in Items |-> IF item = "fontWeightScale" THEN 0 ELSE 1]
    /\ \E set \in ParamChoices :
        param = [c \in ParamContexts |-> [item \in Items |-> IF c \in set THEN 1 ELSE Unset]]
    /\ usersParam = [c \in {} |-> UiAppearanceParam] /\ phase = "published" /\ appMgr = FALSE
    /\ isNeedDoCompatibleProcess = FALSE /\ isInitializationFinished = FALSE /\ onceFlag = {}
    /\ events = << >> /\ thread = [t \in Threads |-> Idle]
    /\ faults = 0 /\ changes = 0
    /\ accepted = [c \in Contexts |-> [item \in Items |->
                      IF firstInitialization /\ param[c][item] = Unset THEN OldParam(item)
                      ELSE LoadContextParam(c, item)]]
    /\ shown = NothingShown

-----------------------------------------------------------------------------
Busy(t) == thread[t].todo # << >>
Doing(t, op) == Busy(t) /\ Head(thread[t].todo).op = op
Effect(t) == Head(thread[t].todo)

Continue(t, more) ==
    LET todo == more \o Tail(thread[t].todo)
    IN  thread' = [thread EXCEPT ![t] = IF todo = << >> THEN Idle ELSE [@ EXCEPT !.todo = todo]]
Return(t) == thread' = [thread EXCEPT ![t] = Idle]

Fails == faults + changes < CHANGES /\ faults' = faults + 1
AppMgrFails == Fails \/ (~appMgr /\ UNCHANGED faults)
Change == faults + changes < CHANGES /\ changes' = changes + 1

\* A handler starts.  History: handlers that run at the same time and deal with
\* the same item give no promise, and what is shown is in doubt.
Begin(t, items, todo) ==
    LET others == {u \in Threads \ {t} : Busy(u) /\ thread[u].items \cap items # {}}
    IN  /\ ~Busy(t)
        /\ thread' = [u \in Threads |->
               IF u = t THEN [todo |-> todo, items |-> items, inDoubt |-> others # {}]
               ELSE IF u \in others THEN [thread[u] EXCEPT !.inDoubt = TRUE] ELSE thread[u]]
        /\ shown' = IF others = {} THEN shown ELSE InDoubt

ForEach(set, Op(_)) == LET s == SetToSeq(set) IN [i \in DOMAIN s |-> Op(s[i])]

-----------------------------------------------------------------------------
(* Calls that several handlers make.                                       *)

\* UpdateConfiguration and UpdateConfigurationByUserIds.  An error counts only
\* if the configuration is not the wanted one already.
UpdateConfiguration(t) ==
    LET e == Effect(t)
    IN  /\ Doing(t, "configuration")
        /\ \/ /\ appMgr
              /\ configuration' = [user \in Users |->
                     IF user \in e.users THEN [configuration[user] EXCEPT ![e.item] = e.value]
                     ELSE configuration[user]]
              /\ Continue(t, << >>) /\ UNCHANGED faults
           \/ /\ AppMgrFails /\ UNCHANGED configuration
              /\ IF appMgr /\ \A user \in e.users : configuration[user][e.item] = e.value
                 THEN Continue(t, << >>) ELSE Return(t)
        /\ UNCHANGED << environment, persistent, usersParam, flags, events, changes, history >>

\* Base parameters; whether one could be set is not looked at.  History: an
\* account that is yet to be given the old version's value has no promise.
SetBaseParam(t) ==
    LET values == Effect(t).values
    IN  /\ Doing(t, "base")
        /\ \/ baseParam' = Updated(baseParam, values, DOMAIN values) /\ UNCHANGED faults
           \/ \E failed \in DOMAIN values :
                Fails /\ baseParam' = Updated(baseParam, values, DOMAIN values \ {failed})
        /\ accepted' = [c \in Contexts |-> [item \in Items |->
                            IF item \in DOMAIN values /\ ~NothingToCarry(c, item) THEN None
                            ELSE accepted[c][item]]]
        /\ Continue(t, << >>)
        /\ UNCHANGED << environment, configuration, param, firstInitialization, usersParam, flags,
                        events, changes, shown >>

\* Parameters of an account; "must" tells if the handler minds a failure.
\* History: where it does not, an initialization that is still to come brings
\* the old value back, and what is shown is in doubt.
SetContextParam(t) ==
    LET e == Effect(t)
        Written(items) == param' = [param EXCEPT ![e.context] = Updated(@, e.values, items)]
    IN  /\ Doing(t, "param")
        /\ \/ /\ Written(DOMAIN e.values)
              /\ Continue(t, << >>) /\ UNCHANGED << faults, history >>
           \/ \E failed \in DOMAIN e.values :
              /\ Fails /\ Written(DOMAIN e.values \ {failed})
              /\ accepted' = [accepted EXCEPT ![e.context][failed] = None]
              /\ IF e.must THEN Return(t) /\ shown' = InDoubt
                 ELSE /\ thread' = [thread EXCEPT ![t] =
                                   [todo |-> Tail(@.todo), items |-> @.items, inDoubt |-> TRUE]]
                      /\ shown' = IF isInitializationFinished THEN shown ELSE InDoubt
        /\ UNCHANGED << environment, configuration, baseParam, firstInitialization, usersParam, flags,
                        events, changes >>

Withdrawn(context, items) ==
    [accepted EXCEPT ![context] = [item \in Items |-> IF item \in items THEN None ELSE @[item]]]

\* A mutant: the parameter is left to the next start.
ConfigurePersistence_MemoryOnly(t) ==
    LET e == Effect(t)
        context == IF "user" \in DOMAIN e THEN foreground[e.user] ELSE e.context
    IN  /\ Doing(t, "persist")
        /\ EntrySet(context, Updated(Entry(context), e.values, DOMAIN e.values))
        /\ accepted' = Withdrawn(context, DOMAIN e.values)
        /\ Continue(t, << [op |-> "promise", context |-> context, values |-> e.values] >>)
        /\ UNCHANGED << environment, configuration, persistent, flags, events, faults, changes, shown >>

\* ConfigurePersistence, ConfigureFontScalePersistence and the one for weights:
\* memory first, then the parameter.  With several users in front the account
\* is the one in front when its turn comes.
ConfigurePersistence(t) ==
    LET e == Effect(t)
        context == IF "user" \in DOMAIN e THEN foreground[e.user] ELSE e.context
    IN  /\ Doing(t, "persist")
        /\ EntrySet(context, Updated(Entry(context), e.values, DOMAIN e.values))
        /\ accepted' = Withdrawn(context, DOMAIN e.values)
        /\ Continue(t, << [op |-> "param", context |-> context, values |-> e.values, must |-> e.must],
                          [op |-> "promise", context |-> context, values |-> e.values] >>)
        /\ UNCHANGED << environment, configuration, persistent, flags, events, faults, changes, shown >>

\* History: the caller is told that the account has the values now.
Promise(t) ==
    LET e == Effect(t)
    IN  /\ Doing(t, "promise")
        /\ accepted' = [accepted EXCEPT ![e.context] = [item \in Items |->
                            IF item \notin DOMAIN e.values THEN @[item]
                            ELSE IF thread[t].inDoubt THEN None ELSE e.values[item]]]
        /\ Continue(t, << >>)
        /\ UNCHANGED << environment, configuration, persistent, usersParam, flags, events, faults,
                        changes, shown >>

-----------------------------------------------------------------------------
(* Upgrade and initialization.                                             *)

\* History: accounts that are passed over have no promise.
PassedOver == accepted' = [c \in Contexts |-> [item \in Items |->
                  IF NothingToCarry(c, item) THEN accepted[c][item] ELSE None]]

\* OnAddSystemAbility upgrades, and then initializes, if that is still to be done
\* and there are accounts.
UpgradeIfNeeded(t) ==
    /\ Doing(t, "upgradeIfNeeded")
    /\ \/ /\ Continue(t, IF isNeedDoCompatibleProcess THEN << [op |-> "compatible"] >> ELSE << >>)
          /\ UNCHANGED << faults, accepted >>
       \/ isNeedDoCompatibleProcess /\ Fails /\ PassedOver /\ Continue(t, << >>)
    /\ UNCHANGED << environment, configuration, persistent, usersParam, flags, events, changes, shown >>

InitializeIfNeeded(t) ==
    /\ Doing(t, "initializeIfNeeded")
    /\ \/ /\ Continue(t, IF isInitializationFinished THEN << >>
                          ELSE << [op |-> "initialize"], [op |-> "updateForeground"] >>)
          /\ UNCHANGED << faults, accepted >>
       \/ ~isInitializationFinished /\ Fails /\ PassedOver /\ Continue(t, << >>)
    /\ UNCHANGED << environment, configuration, persistent, usersParam, flags, events, changes, shown >>

\* DoCompatibleProcess: what the old version kept for all users goes to each
\* account that has nothing of its own; GetUserIds may find no account.
DoCompatibleProcess(t) ==
    /\ Doing(t, "compatible")
    /\ \E contexts \in {Contexts, {}} :
        /\ IF contexts = {} THEN Fails /\ PassedOver ELSE UNCHANGED << faults, accepted >>
        /\ Continue(t, [i \in 1 .. 3 |->
               [op |-> "carry", item |-> << "darkMode", "fontScale", "fontWeightScale" >>[i],
                contexts |-> contexts]] \o << [op |-> "carried"] >>)
    /\ UNCHANGED << environment, configuration, persistent, usersParam, flags, events, changes, shown >>

GetOldParam(t) ==
    LET e == Effect(t)
    IN  /\ Doing(t, "carry")
        /\ Continue(t, ForEach(e.contexts, LAMBDA c :
               [op |-> "carryTo", context |-> c, item |-> e.item, value |-> OldParam(e.item)]))
        /\ UNCHANGED << environment, configuration, persistent, usersParam, flags, events, faults,
                        changes, history >>

\* The account is looked up and, if it has nothing, given the old value.
CarryTo(t) ==
    LET e == Effect(t)
    IN  /\ Doing(t, "carryTo")
        /\ \/ /\ param' = IF param[e.context][e.item] # Unset THEN param
                         ELSE [param EXCEPT ![e.context][e.item] = e.value]
              /\ UNCHANGED << faults, accepted >>
           \/ /\ Fails /\ param[e.context][e.item] = Unset /\ UNCHANGED param
              /\ accepted' = [accepted EXCEPT ![e.context][e.item] = None]
        /\ Continue(t, << >>)
        /\ UNCHANGED << environment, configuration, baseParam, firstInitialization, usersParam, flags,
                        events, changes, shown >>

Carried(t) ==
    /\ Doing(t, "carried")
    /\ isNeedDoCompatibleProcess' = FALSE
    /\ \/ firstInitialization' = FALSE /\ UNCHANGED faults
       \/ Fails /\ UNCHANGED firstInitialization
    /\ Continue(t, << >>)
    /\ UNCHANGED << environment, configuration, param, baseParam, usersParam, isInitializationFinished,
                    onceFlag, appMgr, phase, events, changes, history >>

\* DoInitProcess; without accounts it has nothing to do and is finished.
DoInitProcess(t) ==
    /\ Doing(t, "initialize")
    /\ \E contexts \in {Contexts, {}} :
        /\ IF contexts = {}
           THEN Fails /\ accepted' = [c \in Contexts |-> [item \in Items |-> None]]
           ELSE UNCHANGED << faults, accepted >>
        /\ Continue(t, ForEach(contexts, LAMBDA c : [op |-> "initContext", context |-> c])
                           \o << [op |-> "initialized"] >>)
    /\ UNCHANGED << environment, configuration, persistent, usersParam, flags, events, changes, shown >>

\* A mutant: an account without parameters gets no default.
InitContext_NoDefault(t) ==
    LET c == Effect(t).context
        loaded == [item \in Items |-> param[c][item]]
        unset == {item \in Items : param[c][item] = Unset}
    IN  /\ Doing(t, "initContext")
        /\ EntrySet(c, loaded)
        /\ \E failed \in {{}} \cup {{item} : item \in unset} :
            /\ IF failed = {} THEN UNCHANGED faults ELSE IsSubProfileContext(c) /\ Fails
            /\ param' = IF IsSubProfileContext(c)
                        THEN [param EXCEPT ![c] = [item \in Items |->
                                 IF item \in unset \ failed THEN loaded[item] ELSE @[item]]]
                        ELSE param
        /\ Continue(t, << >>)
        /\ UNCHANGED << environment, configuration, baseParam, firstInitialization, flags, events,
                        changes, history >>

\* The parameters of one account; those that a sub-profile takes from its user
\* or by default become its own, if they can be set.
InitContext(t) ==
    LET c == Effect(t).context
        loaded == [item \in Items |-> LoadContextParam(c, item)]
        unset == {item \in Items : param[c][item] = Unset}
    IN  /\ Doing(t, "initContext")
        /\ EntrySet(c, loaded)
        /\ \E failed \in {{}} \cup {{item} : item \in unset} :
            /\ IF failed = {} THEN UNCHANGED faults ELSE IsSubProfileContext(c) /\ Fails
            /\ param' = IF IsSubProfileContext(c)
                        THEN [param EXCEPT ![c] = [item \in Items |->
                                 IF item \in unset \ failed THEN loaded[item] ELSE @[item]]]
                        ELSE param
        /\ Continue(t, << >>)
        /\ UNCHANGED << environment, configuration, baseParam, firstInitialization, flags, events,
                        changes, history >>

Initialized(t) ==
    /\ Doing(t, "initialized")
    /\ isInitializationFinished' = TRUE
    /\ Continue(t, << >>)
    /\ UNCHANGED << environment, configuration, persistent, usersParam, isNeedDoCompatibleProcess,
                    onceFlag, appMgr, phase, events, faults, changes, history >>

-----------------------------------------------------------------------------
(* UpdateCurrentUserConfiguration and the switch of accounts.              *)

\* A mutant: the base parameters stay those of the user before.
UpdateCurrentUserConfiguration_NoBase(t) ==
    LET e == Effect(t)
        c == e.context
        entry == Entry(c)
    IN  /\ Doing(t, "update")
        /\ EntrySet(c, entry)
        /\ \/ /\ appMgr
              /\ Continue(t, << [op |-> "send", context |-> c, force |-> e.force, entry |-> entry] >>)
              /\ UNCHANGED << faults, shown >>
           \/ AppMgrFails /\ shown' = [shown EXCEPT ![c.userId] = Doubtful] /\ Continue(t, << >>)
        /\ UNCHANGED << environment, configuration, persistent, flags, events, changes, accepted >>

\* The configuration of an account is sent and becomes the base; nothing is done
\* if there is no application manager.
UpdateCurrentUserConfiguration(t) ==
    LET e == Effect(t)
        c == e.context
        entry == Entry(c)
    IN  /\ Doing(t, "update")
        /\ EntrySet(c, entry)
        /\ \/ /\ appMgr
              /\ Continue(t, << [op |-> "send", context |-> c, force |-> e.force, entry |-> entry],
                                [op |-> "base", values |-> entry] >>)
              /\ UNCHANGED << faults, shown >>
           \/ AppMgrFails /\ shown' = [shown EXCEPT ![c.userId] = Doubtful] /\ Continue(t, << >>)
        /\ UNCHANGED << environment, configuration, persistent, flags, events, changes, accepted >>

\* The user's configuration is sent the first time, or if it has to be; after
\* that USER0's.  The flag is set whatever the application manager says.
SendOnce(t) ==
    LET e == Effect(t)
        c == e.context
        own == e.force \/ c \notin onceFlag
    IN  /\ Doing(t, "send")
        /\ \/ /\ own => appMgr
              /\ configuration' = IF own THEN [configuration EXCEPT ![c.userId] = e.entry] ELSE configuration
              /\ shown' = [shown EXCEPT ![c.userId] =
                      IF thread[t].inDoubt \/ (~own /\ @ = Doubtful) THEN Doubtful ELSE c]
              /\ UNCHANGED faults
           \/ AppMgrFails /\ own /\ shown' = [shown EXCEPT ![c.userId] = Doubtful] /\ UNCHANGED configuration
        /\ onceFlag' = IF own THEN onceFlag \cup {c} ELSE onceFlag
        /\ Continue(t, << >>)
        /\ UNCHANGED << environment, persistent, usersParam, isNeedDoCompatibleProcess,
                        isInitializationFinished, appMgr, phase, events, changes, accepted >>

\* AccountContextSwitchFunc: whoever comes first upgrades and initializes, ...
AccountContextSwitchFunc(c) ==
    (IF isNeedDoCompatibleProcess THEN << [op |-> "compatible"] >> ELSE << >>)
    \o (IF isInitializationFinished THEN << >> ELSE << [op |-> "initialize"] >>)
    \o << [op |-> "loaded", context |-> c] >>

\* A mutant: a sub-profile is configured once, as an account of its own is.
LoadedDarkMode_OnceEach(t) ==
    LET c == Effect(t).context
    IN  /\ Doing(t, "loaded")
        /\ \E darkMode \in {Entry(c)["darkMode"], 0, 1} :
            /\ EntrySet(c, [Entry(c) EXCEPT !["darkMode"] = darkMode])
            /\ accepted' = IF darkMode = Entry(c)["darkMode"] THEN accepted
                           ELSE [accepted EXCEPT ![c]["darkMode"] = None]
            /\ Continue(t, << [op |-> "update", context |-> c,
                               force |-> darkMode # Entry(c)["darkMode"]] >>)
        /\ UNCHANGED << environment, configuration, persistent, flags, events, faults, changes, shown >>

\* ... and what DarkModeManager loaded goes to memory, if it loaded a colour
\* and no manual choice is in force.
LoadedDarkMode(t) ==
    LET c == Effect(t).context
    IN  /\ Doing(t, "loaded")
        /\ \E darkMode \in {Entry(c)["darkMode"], 0, 1} :
            /\ EntrySet(c, [Entry(c) EXCEPT !["darkMode"] = darkMode])
            /\ accepted' = IF darkMode = Entry(c)["darkMode"] THEN accepted
                           ELSE [accepted EXCEPT ![c]["darkMode"] = None]
            /\ Continue(t, << [op |-> "update", context |-> c,
                               force |-> darkMode # Entry(c)["darkMode"] \/ IsSubProfileContext(c)] >>)
        /\ UNCHANGED << environment, configuration, persistent, flags, events, faults, changes, shown >>

\* An account is given what another has; parameters that cannot be set stay.
\* Where the other is not known, the account's own configuration is not sent either.
ApplyAppearanceContextToUser(t) ==
    LET source == Effect(t).source
        target == Effect(t).target
        values == usersParam[source]
    IN  /\ Doing(t, "apply")
        /\ IF source \notin DOMAIN usersParam
           THEN /\ shown' = [shown EXCEPT ![target.userId] = Doubtful]
                /\ Continue(t, << >>) /\ UNCHANGED << usersParam, accepted >>
           ELSE /\ EntrySet(target, values)
                /\ accepted' = Withdrawn(target, Items)
                /\ Continue(t, << [op |-> "param", context |-> target, values |-> values, must |-> FALSE],
                                  [op |-> "update", context |-> target, force |-> TRUE],
                                  [op |-> "promise", context |-> target, values |-> values] >>)
                /\ UNCHANGED shown
        /\ UNCHANGED << environment, configuration, persistent, flags, events, faults, changes >>

\* The other users in front follow the one in the middle.
GetMultipleUsers(t) ==
    /\ Doing(t, "spread")
    /\ Continue(t, ForEach(active \ {USER100}, LAMBDA user :
           [op |-> "apply", source |-> Effect(t).context, target |-> foreground[user]]))
    /\ UNCHANGED << environment, configuration, persistent, usersParam, flags, events, faults,
                    changes, history >>

HandleSubProfileSwitched(c) ==
    IF c.userId = USER100
    THEN AccountContextSwitchFunc(c) \o << [op |-> "spread", context |-> c] >>
    ELSE << [op |-> "apply", source |-> foreground[USER100], target |-> c] >>

-----------------------------------------------------------------------------
(* What starts handlers.                                                   *)

\* An IPC thread takes the requests of applications, of whichever user they are.
OnSet(item, context, value, must) ==
    LET several == Cardinality(active) > 1
        values == [i \in {item} |-> value]
    IN  << [op |-> "configuration", users |-> IF several THEN active ELSE {context.userId},
            item |-> item, value |-> value],
           [op |-> "base", values |-> values] >>
        \o IF several
           THEN ForEach(active, LAMBDA user : [op |-> "persist", user |-> user, values |-> values, must |-> must])
           ELSE << [op |-> "persist", context |-> context, values |-> values, must |-> must] >>

\* The colour that is set already is refused.
SetDarkMode(context, mode) ==
    /\ mode # Entry(context)["darkMode"]
    /\ Begin("ipc", {"darkMode"}, OnSet("darkMode", context, mode, TRUE))

SetFontScale(context, scale) == Begin("ipc", {"fontScale"}, OnSet("fontScale", context, scale, TRUE))

SetFontWeightScale(context, scale) ==
    Begin("ipc", {"fontWeightScale"}, OnSet("fontWeightScale", context, scale, TRUE))

\* From a timer, an observer or a screen event of DarkModeManager, for the user
\* that it observes, who need not be in front, or has just left.
UpdateDarkModeCallback(user, mode) ==
    Begin("timer", {"darkMode"}, OnSet("darkMode", foreground[user], mode, FALSE))

Request ==
    /\ Change
    /\ \E user \in Users :
        /\ \/ \E mode \in {0, 1} :
               \/ SetDarkMode(foreground[user], mode)
               \/ phase = "serving" /\ UpdateDarkModeCallback(user, mode)
           \/ \E scale \in ScaleChoices :
               SetFontScale(foreground[user], scale) \/ SetFontWeightScale(foreground[user], scale)
        /\ behind' = (behind \/ user \notin active)
    /\ UNCHANGED << active, foreground, configuration, persistent, usersParam, flags, events, faults,
                    accepted >>

\* The application manager is there.  Later calls find everything initialized.
OnAddSystemAbility ==
    /\ phase # "serving" /\ appMgr
    /\ phase' = "serving"
    /\ isNeedDoCompatibleProcess' = firstInitialization
    /\ Begin("sa", Items, << [op |-> "upgradeIfNeeded"], [op |-> "initializeIfNeeded"] >>)
    /\ UNCHANGED << environment, configuration, persistent, usersParam, isInitializationFinished, onceFlag,
                    appMgr, events, faults, changes, accepted >>

UpdateForeground(t) ==
    /\ Doing(t, "updateForeground")
    /\ \/ \E user \in active :
            Continue(t, << [op |-> "update", context |-> foreground[user], force |-> FALSE] >>) /\ UNCHANGED faults
       \/ Fails /\ Continue(t, << [op |-> "update", context |-> foreground[USER100], force |-> FALSE] >>)
    /\ UNCHANGED << environment, configuration, persistent, usersParam, flags, events, changes, history >>

\* The application manager dies, and with it what it showed.
OnRemoveSystemAbility ==
    /\ Change /\ phase = "serving" /\ ~Busy("sa")
    /\ appMgr' = FALSE /\ phase' = "removed" /\ onceFlag' = {}
    /\ configuration' = [user \in Users |-> [item \in Items |-> Lost]] /\ shown' = NothingShown
    /\ UNCHANGED << environment, persistent, usersParam, isNeedDoCompatibleProcess,
                    isInitializationFinished, events, thread, faults, accepted >>

AppMgrStarts ==
    /\ ~appMgr /\ appMgr' = TRUE
    /\ UNCHANGED << environment, configuration, persistent, usersParam, isNeedDoCompatibleProcess,
                    isInitializationFinished, onceFlag, phase, events, thread, faults, changes, history >>

\* Common events come one by one; before the subscription there are none.
Publish(event) == events' = IF phase = "published" THEN events ELSE Append(events, event)

SwitchUser(user) ==
    /\ Change /\ Cardinality(active) = 1 /\ user \notin active
    /\ active' = {user}
    /\ Publish([action |-> "USER_SWITCHED", context |-> foreground[user]])
    /\ UNCHANGED << foreground, behind, configuration, persistent, usersParam, flags, thread, faults,
                    history >>

SwitchSubProfile(context) ==
    /\ Change /\ foreground[context.userId] # context
    /\ foreground' = [foreground EXCEPT ![context.userId] = context]
    /\ Publish([action |-> "SUB_PROFILE_SWITCHED", context |-> context])
    /\ UNCHANGED << active, behind, configuration, persistent, usersParam, flags, thread, faults, history >>

\* UserSwitchFunc asks which sub-profile of the user is in front now.
OnReceiveEvent ==
    /\ events # << >> /\ events' = Tail(events)
    /\ LET event == Head(events)
       IN  Begin("event", Items,
               IF event.action = "USER_SWITCHED"
               THEN AccountContextSwitchFunc(foreground[event.context.userId])
               ELSE HandleSubProfileSwitched(event.context))
    /\ behind' = FALSE
    /\ UNCHANGED << active, foreground, configuration, persistent, usersParam, flags, faults, changes,
                    accepted >>

\* The process dies: parameters and the application manager stay.
Crash ==
    /\ Change
    /\ usersParam' = [c \in {} |-> UiAppearanceParam]
    /\ isNeedDoCompatibleProcess' = FALSE /\ isInitializationFinished' = FALSE
    /\ onceFlag' = {} /\ phase' = "published" /\ events' = << >>
    /\ thread' = [t \in Threads |-> Idle]
    /\ shown' = NothingShown
    /\ UNCHANGED << environment, configuration, persistent, appMgr, faults, accepted >>

-----------------------------------------------------------------------------
Step(t) ==
    \/ UpdateConfiguration(t) \/ SetBaseParam(t) \/ SetContextParam(t) \/ ConfigurePersistence(t)
    \/ Promise(t) \/ UpgradeIfNeeded(t) \/ InitializeIfNeeded(t) \/ DoCompatibleProcess(t) \/ GetOldParam(t)
    \/ CarryTo(t) \/ Carried(t) \/ DoInitProcess(t) \/ InitContext(t) \/ Initialized(t)
    \/ UpdateCurrentUserConfiguration(t) \/ SendOnce(t) \/ LoadedDarkMode(t)
    \/ ApplyAppearanceContextToUser(t) \/ GetMultipleUsers(t) \/ UpdateForeground(t)

Next ==
    \/ Request \/ OnAddSystemAbility \/ OnRemoveSystemAbility \/ AppMgrStarts \/ OnReceiveEvent \/ Crash
    \/ \E user \in Users : SwitchUser(user)
    \/ \E context \in Contexts : SwitchSubProfile(context)
    \/ \E t \in Threads : Step(t)

Spec == Init /\ [][Next]_vars

-----------------------------------------------------------------------------
TypeOK ==
    /\ active \in (SUBSET Users) \ {{}} /\ behind \in BOOLEAN
    /\ \A user \in Users : foreground[user] \in Contexts /\ foreground[user].userId = user
    /\ configuration \in [Users -> [Items -> Values \cup {Lost}]]
    /\ param \in [ParamContexts -> [Items -> Values \cup {Unset}]]
    /\ baseParam \in [Items -> Values]
    /\ DOMAIN usersParam \subseteq Contexts
    /\ \A c \in DOMAIN usersParam : usersParam[c] \in [Items -> Values]
    /\ {firstInitialization, isNeedDoCompatibleProcess, isInitializationFinished, appMgr} \subseteq BOOLEAN
    /\ onceFlag \subseteq DOMAIN usersParam
    /\ phase \in {"published", "serving", "removed"}
    /\ accepted \in [Contexts -> [Items -> Values \cup {None}]]
    /\ shown \in [Users -> Contexts \cup {Nobody, Doubtful}]

\* What an account had at the start, or was last told that it has now, is what
\* its parameters stand for, also half-way through an upgrade, and what is in
\* memory: no crash, no other account's change, no switch of accounts and no
\* handler for another item running at the same time takes it away.  Only a
\* failing call, or a handler for the same item, does (ConfigurePersistence,
\* DoCompatibleProcess, DoInitProcess, ApplyAppearanceContextToUser).
AcceptedIsApplied ==
    \A c \in Contexts, item \in Items :
        LET promised == accepted[c][item]
        IN  promised # None =>
                /\ promised = IF NothingToCarry(c, item) THEN LoadContextParam(c, item) ELSE OldParam(item)
                /\ isInitializationFinished => Entry(c)[item] = promised

Quiet == phase = "serving" /\ events = << >> /\ \A t \in Threads : ~Busy(t)

\* The configuration that a user sees is that of the account that was switched
\* to last, however often the user comes back (the flag of configurations sent
\* once), while it is in the background, and after the application manager has
\* been restarted, unless two handlers dealt with an item at the same time.
ConfigurationFollowsMemory ==
    Quiet => \A user \in Users : shown[user] \in Contexts => configuration[user] = Entry(shown[user])

\* The base parameters, from which the device shows its next start, are those
\* of the user in front, after switches, crashes and changes by timers, with two
\* exceptions.  What DarkModeManager or an application sets for a user in the
\* background becomes the base all the same, until the next switch (the manager
\* observes USER100 when its sub-profile is switched, also in the background).
\* And a switch between sub-profiles of another user in the background makes
\* its account the base; nobody else has sub-profiles here.
BaseFollowsForeground ==
    Quiet /\ faults = 0 /\ ~behind =>
        \A user \in Users :
            /\ active = {user} /\ shown[user] = foreground[user]
            /\ \A c \in Contexts : IsSubProfileContext(c) => c.userId \in {USER100, user}
            => baseParam = Entry(foreground[user])
=============================================================================
