---------------------- MODULE AppearanceServiceProofs ----------------------
(***************************************************************************)
(* For any users, accounts, parameters and failing calls, and however the  *)
(* handlers interleave, fail and crash: what an account was promised is    *)
(* what its parameters and the memory of the service give it, and what a   *)
(* user sees when the service is at rest is the account in front, as it is *)
(* in memory.                                                              *)
(***************************************************************************)
EXTENDS AppearanceService, SequenceTheorems, FiniteSetTheorems, TLAPS

-----------------------------------------------------------------------------
(* Types: what a handler can still have to do.                             *)

PartialParams == UNION {[items -> Values] : items \in SUBSET Items}

Effects ==
    [op : {"configuration"}, users : SUBSET Users, item : Items, value : Values]
    \cup [op : {"base"}, values : PartialParams]
    \cup [op : {"persist"}, user : Users, values : PartialParams, must : BOOLEAN]
    \cup [op : {"persist"}, context : Contexts, values : PartialParams, must : BOOLEAN]
    \cup [op : {"param"}, context : Contexts, values : PartialParams, must : BOOLEAN]
    \cup [op : {"promise"}, context : Contexts, values : PartialParams]
    \cup [op : {"upgradeIfNeeded", "initializeIfNeeded", "compatible", "carried", "initialize",
                "initialized", "updateForeground"}]
    \cup [op : {"carry"}, item : Items, contexts : SUBSET Contexts]
    \cup [op : {"carryTo"}, context : Contexts, item : Items, value : Values]
    \cup [op : {"initContext", "loaded", "spread"}, context : Contexts]
    \cup [op : {"update"}, context : Contexts, force : BOOLEAN]
    \cup [op : {"send"}, context : Contexts, force : BOOLEAN, entry : [Items -> Values]]
    \cup [op : {"apply"}, source : Contexts, target : Contexts]

Handlers == [todo : Seq(Effects), items : SUBSET Items, inDoubt : BOOLEAN]

\* What is known of an effect in a todo list: what it is about is there already.
TypeFits(e) ==
    /\ e.op = "send" => e.context \in DOMAIN usersParam
    /\ e.op = "upgradeIfNeeded" => phase # "published"

TypeInv ==
    /\ TypeOK
    /\ foreground \in [Users -> Contexts]
    /\ events \in Seq([action : {"USER_SWITCHED", "SUB_PROFILE_SWITCHED"}, context : Contexts])
    /\ events # << >> => phase # "published"
    /\ thread \in [Threads -> Handlers]
    /\ \A t \in Threads : \A i \in DOMAIN thread[t].todo : TypeFits(thread[t].todo[i])

-----------------------------------------------------------------------------
(* Who deals with what.                                                    *)

\* What a handler does before the i-th of its effects.
Before(todo, i) == {todo[j] : j \in 1 .. i - 1}

\* The items that an effect is about.
ItemsOf(e) ==
    IF e.op = "configuration" THEN {e.item}
    ELSE IF e.op \in {"base", "persist", "param", "promise"} THEN DOMAIN e.values
    ELSE Items

\* A handler keeps to its items, and handlers that share an item are in doubt.
ApartInv ==
    /\ \A t \in Threads : \A i \in DOMAIN thread[t].todo :
          ItemsOf(thread[t].todo[i]) \subseteq thread[t].items
    /\ \A t, u \in Threads :
          t # u /\ Busy(t) /\ Busy(u) /\ thread[t].items \cap thread[u].items # {} => thread[t].inDoubt

-----------------------------------------------------------------------------
(* Promises under way.                                                     *)

Sending == {"update", "send", "base"}

\* From the writing of a parameter to the promise the handler writes nothing else
\* of an account.  What is going to be promised is in memory and, once it was
\* written, in the parameter; there is no other promise.
PromiseFits(e, before, inDoubt) ==
    /\ e.op = "param" => before = {}
    /\ e.op = "promise" => \A b \in before :
          \/ b.op \in Sending
          \/ b.op = "param" /\ b.context = e.context /\ b.values = e.values
    /\ e.op \in {"param", "promise"} =>
          \A item \in DOMAIN e.values : accepted[e.context][item] = None
    /\ e.op = "promise" /\ ~inDoubt => \A item \in DOMAIN e.values :
          /\ Entry(e.context)[item] = e.values[item]
          /\ param[e.context][item] = e.values[item] \/ \E b \in before : b.op = "param"

PromiseInv ==
    \A t \in Threads : \A i \in DOMAIN thread[t].todo :
        PromiseFits(thread[t].todo[i], Before(thread[t].todo, i), thread[t].inDoubt)

-----------------------------------------------------------------------------
(* The upgrade and the initialization.                                     *)

CarriedOver(c, item) == accepted[c][item] # None => NothingToCarry(c, item)
Upgraded == \A c \in Contexts, item \in Items : CarriedOver(c, item)

\* In an upgrade every account with a promise gets a parameter.
NeverUnset ==
    \A c \in Contexts, item \in Items :
        accepted[c][item] # None /\ ~firstInitialization => param[c][item] # Unset

AcceptedInParam(c, item) ==
    accepted[c][item] # None =>
        accepted[c][item] = IF NothingToCarry(c, item) THEN LoadContextParam(c, item) ELSE OldParam(item)
AcceptedInMemory(c, item) == accepted[c][item] # None => Entry(c)[item] = accepted[c][item]

Upgrading == {"upgradeIfNeeded", "compatible", "carried"}
Initializing == {"initializeIfNeeded", "initialize", "initContext", "initialized"}

Carries(b, c, item) ==
    \/ b.op = "carry" /\ b.item = item /\ c \in b.contexts
    \/ b.op = "carryTo" /\ b.item = item /\ c = b.context
Loads(b, c) == b.op = "initialize" \/ (b.op = "initContext" /\ c = b.context)

\* Nobody initializes before the upgrade, and the upgrade is over only when every
\* account was given what there is to carry; so is the initialization.
UpgradeFits(e, before) ==
    /\ e.op \in Initializing => Upgraded \/ \E b \in before : b.op \in Upgrading
    /\ e.op \in {"compatible", "carry", "carryTo", "carried"} => NeverUnset
    /\ e.op = "carried" => \A c \in Contexts, item \in Items :
          CarriedOver(c, item) \/ \E b \in before : Carries(b, c, item)
    /\ e.op = "carryTo" => CarriedOver(e.context, e.item) \/ e.value = OldParam(e.item)
    /\ e.op = "initialized" => \A c \in Contexts :
          (\A item \in Items : AcceptedInMemory(c, item)) \/ \E b \in before : Loads(b, c)

UpgradeInv ==
    /\ phase # "published" /\ ~isNeedDoCompatibleProcess => Upgraded
    /\ isNeedDoCompatibleProcess => NeverUnset
    /\ \A t \in Threads : \A i \in DOMAIN thread[t].todo :
          UpgradeFits(thread[t].todo[i], Before(thread[t].todo, i))

AcceptedInv ==
    \A c \in Contexts, item \in Items :
        AcceptedInParam(c, item) /\ (isInitializationFinished => AcceptedInMemory(c, item))

IInv == TypeInv /\ ApartInv /\ PromiseInv /\ UpgradeInv /\ AcceptedInv

-----------------------------------------------------------------------------
(* Sequences.                                                              *)

\* A set as a sequence: all of its elements and nothing else.
LEMMA SeqOfSet ==
    ASSUME NEW S, IsFiniteSet(S)
    PROVE  /\ SetToSeq(S) \in Seq(S)
           /\ \A x \in S : \E i \in DOMAIN SetToSeq(S) : SetToSeq(S)[i] = x
<1> DEFINE n == Cardinality(S)
<1>1. n \in Nat /\ ExistsBijection(1 .. n, S)
  BY FS_CardinalityType
<1>2. \E f \in [1 .. n -> S] : IsInjective(f)
  BY <1>1 DEF ExistsBijection, Bijection, Injection, Surjection, IsInjective
<1>3. SetToSeq(S) \in [1 .. n -> S] /\ IsInjective(SetToSeq(S))
  BY <1>2 DEF SetToSeq
<1>4. SetToSeq(S) \in Injection(1 .. n, S)
  BY <1>3 DEF Injection, IsInjective
<1>5. Cardinality(1 .. n) = n
  BY <1>1, FS_Interval
<1>6. SetToSeq(S) \in Surjection(1 .. n, S)
  BY <1>4, <1>5, FS_Injection
<1>7. SetToSeq(S) \in Seq(S) /\ DOMAIN SetToSeq(S) = 1 .. n
  BY <1>1, <1>3
<1> QED
  BY <1>6, <1>7 DEF Surjection

\* What is left of a list whose head is replaced by others.
LEMMA Replaced ==
    ASSUME NEW E, NEW more \in Seq(E), NEW s \in Seq(E), s # << >>
    PROVE  /\ more \o Tail(s) \in Seq(E)
           /\ Len(more) \in Nat /\ Len(s) \in Nat /\ Len(s) >= 1
           /\ DOMAIN (more \o Tail(s)) = 1 .. (Len(more) + Len(s) - 1)
           /\ \A i \in 1 .. Len(more) : (more \o Tail(s))[i] = more[i]
           /\ \A i \in 2 .. Len(s) : (more \o Tail(s))[Len(more) + i - 1] = s[i]
<1>1. Tail(s) \in Seq(E) /\ Len(Tail(s)) = Len(s) - 1 /\ Len(s) \in Nat /\ Len(s) >= 1
  BY HeadTailProperties, LenProperties, EmptySeq
<1>2. \A i \in 1 .. Len(Tail(s)) : Tail(s)[i] = s[i + 1]
  BY <1>1, HeadTailProperties
<1>3. /\ more \o Tail(s) \in Seq(E)
      /\ Len(more \o Tail(s)) = Len(more) + Len(Tail(s))
      /\ \A i \in 1 .. Len(more) + Len(Tail(s)) :
            (more \o Tail(s))[i] = IF i <= Len(more) THEN more[i] ELSE Tail(s)[i - Len(more)]
  BY <1>1, ConcatProperties
<1>4. Len(more) \in Nat
  OBVIOUS
<1>5. ASSUME NEW i \in 2 .. Len(s) PROVE (more \o Tail(s))[Len(more) + i - 1] = s[i]
  <2>1. /\ Len(more) + i - 1 \in 1 .. Len(more) + Len(Tail(s)) /\ ~(Len(more) + i - 1 <= Len(more))
        /\ (Len(more) + i - 1) - Len(more) = i - 1 /\ i - 1 \in 1 .. Len(Tail(s)) /\ (i - 1) + 1 = i
    BY <1>1, <1>4
  <2> QED
    BY <1>2, <1>3, <2>1
<1>6. DOMAIN (more \o Tail(s)) = 1 .. (Len(more) + Len(s) - 1)
  <2>1. DOMAIN (more \o Tail(s)) = 1 .. Len(more \o Tail(s))
    BY <1>3
  <2> QED
    BY <1>1, <1>3, <1>4, <2>1
<1>7. \A i \in 1 .. Len(more) : i \in 1 .. Len(more) + Len(Tail(s)) /\ i <= Len(more)
  BY <1>1, <1>4
<1> QED
  BY <1>1, <1>3, <1>4, <1>5, <1>6, <1>7

\* What is known of an effect by its name.
LEMMA EffectFields ==
    ASSUME NEW e \in Effects
    PROVE  /\ e.op = "configuration" => e.users \subseteq Users /\ e.item \in Items /\ e.value \in Values
           /\ e.op \in {"base", "persist", "param", "promise"} => e.values \in PartialParams
           /\ e.op \in {"persist", "param"} => e.must \in BOOLEAN
           /\ e.op = "persist" => IF "user" \in DOMAIN e THEN e.user \in Users ELSE e.context \in Contexts
           /\ e.op \in {"param", "promise", "carryTo", "initContext", "loaded", "spread", "update", "send"}
                  => e.context \in Contexts
           /\ e.op = "carry" => e.item \in Items /\ e.contexts \subseteq Contexts
           /\ e.op = "carryTo" => e.item \in Items /\ e.value \in Values
           /\ e.op = "send" => e.entry \in [Items -> Values]
           /\ e.op \in {"update", "send"} => e.force \in BOOLEAN
           /\ e.op = "apply" => e.source \in Contexts /\ e.target \in Contexts
<1>1. CASE e \in [op : {"configuration"}, users : SUBSET Users, item : Items, value : Values]
  BY <1>1
<1>2. CASE e \in [op : {"base"}, values : PartialParams]
  BY <1>2
<1>3. CASE e \in [op : {"persist"}, user : Users, values : PartialParams, must : BOOLEAN]
  BY <1>3
<1>4. CASE e \in [op : {"persist"}, context : Contexts, values : PartialParams, must : BOOLEAN]
  BY <1>4
<1>5. CASE e \in [op : {"param"}, context : Contexts, values : PartialParams, must : BOOLEAN]
  BY <1>5
<1>6. CASE e \in [op : {"promise"}, context : Contexts, values : PartialParams]
  BY <1>6
<1>7. CASE e \in [op : {"upgradeIfNeeded", "initializeIfNeeded", "compatible", "carried", "initialize",
                        "initialized", "updateForeground"}]
  BY <1>7
<1>8. CASE e \in [op : {"carry"}, item : Items, contexts : SUBSET Contexts]
  BY <1>8
<1>9. CASE e \in [op : {"carryTo"}, context : Contexts, item : Items, value : Values]
  BY <1>9
<1>10. CASE e \in [op : {"initContext", "loaded", "spread"}, context : Contexts]
  BY <1>10
<1>11. CASE e \in [op : {"update"}, context : Contexts, force : BOOLEAN]
  BY <1>11
<1>12. CASE e \in [op : {"send"}, context : Contexts, force : BOOLEAN, entry : [Items -> Values]]
  BY <1>12
<1>13. CASE e \in [op : {"apply"}, source : Contexts, target : Contexts]
  BY <1>13
<1> QED
  BY <1>1, <1>2, <1>3, <1>4, <1>5, <1>6, <1>7, <1>8, <1>9, <1>10, <1>11, <1>12, <1>13 DEF Effects

-----------------------------------------------------------------------------
(* What a step of a handler does to the todo lists.                        *)

\* The list of a handler: its first effect, and what comes before the others.
LEMMA FirstAndRest ==
    ASSUME NEW E, NEW s \in Seq(E), s # << >>
    PROVE  /\ 1 \in DOMAIN s /\ Head(s) = s[1] /\ Head(s) \in E /\ Before(s, 1) = {}
           /\ Tail(s) \in Seq(E) /\ DOMAIN s = 1 .. Len(s) /\ Len(s) \in Nat
           /\ \A i \in 2 .. Len(s) : Head(s) \in Before(s, i)
<1>1. Len(s) \in Nat /\ Len(s) >= 1 /\ DOMAIN s = 1 .. Len(s) /\ Tail(s) \in Seq(E) /\ Head(s) \in E
  BY HeadTailProperties, LenProperties, EmptySeq
<1>2. Head(s) = s[1]
  OBVIOUS
<1>3. 1 .. 1 - 1 = {}
  OBVIOUS
<1>4. ASSUME NEW i \in 2 .. Len(s) PROVE 1 \in 1 .. i - 1
  BY <1>1
<1> QED
  BY <1>1, <1>2, <1>3, <1>4 DEF Before

\* An effect of the new list is one of those that replace the head, or one that
\* was there: with what was before it and is not done, and with the new ones.
LEMMA NewAndOld ==
    ASSUME NEW E, NEW more \in Seq(E), NEW s \in Seq(E), s # << >>,
           NEW i \in DOMAIN (more \o Tail(s))
    PROVE  \/ /\ i \in DOMAIN more /\ (more \o Tail(s))[i] = more[i]
              /\ Before(more \o Tail(s), i) = Before(more, i)
           \/ \E k \in DOMAIN s :
                 /\ (more \o Tail(s))[i] = s[k] /\ Head(s) \in Before(s, k)
                 /\ \A b \in Before(s, k) : b = Head(s) \/ b \in Before(more \o Tail(s), i)
                 /\ \A b \in Before(more \o Tail(s), i) :
                       b \in Before(s, k) \/ \E j \in DOMAIN more : b = more[j]
                 /\ \A j \in DOMAIN more : more[j] \in Before(more \o Tail(s), i)
<1> DEFINE all == more \o Tail(s)
           m == Len(more)
           n == Len(s)
<1>1. /\ m \in Nat /\ n \in Nat /\ n >= 1 /\ DOMAIN all = 1 .. m + n - 1
      /\ \A j \in 1 .. m : all[j] = more[j]
      /\ \A j \in 2 .. n : all[m + j - 1] = s[j]
  BY Replaced
<1>2. DOMAIN more = 1 .. m /\ DOMAIN s = 1 .. n /\ Head(s) = s[1]
  BY LenProperties, FirstAndRest
<1> HIDE DEF all, m, n
<1>3. CASE i <= m
  <2>1. i \in DOMAIN more /\ all[i] = more[i]
    BY <1>1, <1>2, <1>3 DEF all
  <2>2. \A j \in 1 .. i - 1 : all[j] = more[j]
    BY <1>1, <1>3 DEF all
  <2>3. Before(all, i) = Before(more, i)
    BY <2>2 DEF Before
  <2> QED
    BY <2>1, <2>3 DEF all
<1>4. CASE ~(i <= m)
  <2> DEFINE k == i - m + 1
  <2>0. i \in 1 .. m + n - 1
    <3>1. i \in DOMAIN all
      BY DEF all
    <3> QED
      BY <1>1, <3>1
  <2>1. k \in 2 .. n /\ m + k - 1 = i /\ i \in 1 .. m + n - 1
    BY <1>1, <1>4, <2>0
  <2>2. all[i] = s[k] /\ k \in DOMAIN s /\ Head(s) \in Before(s, k)
    <3>1. all[m + k - 1] = s[k]
      BY <1>1, <2>1 DEF all
    <3>2. \A j \in 2 .. n : Head(s) \in Before(s, j)
      BY FirstAndRest DEF n
    <3>3. k \in 1 .. n
      BY <1>1, <2>1
    <3> QED
      BY <1>2, <2>1, <3>1, <3>2, <3>3
  <2> HIDE DEF k
  <2>3. ASSUME NEW b \in Before(s, k) PROVE b = Head(s) \/ b \in Before(all, i)
    <3>1. PICK j \in 1 .. k - 1 : b = s[j]
      BY DEF Before
    <3>2. CASE j = 1
      BY <1>2, <3>1, <3>2
    <3>3. CASE j # 1
      <4>1. j \in 2 .. n /\ m + j - 1 \in 1 .. i - 1
        BY <1>1, <2>1, <3>3
      <4> QED
        BY <1>1, <3>1, <4>1 DEF Before
    <3> QED
      BY <3>2, <3>3
  <2>4. ASSUME NEW b \in Before(all, i)
        PROVE  b \in Before(s, k) \/ \E j \in DOMAIN more : b = more[j]
    <3>1. PICK j \in 1 .. i - 1 : b = all[j]
      BY DEF Before
    <3>2. CASE j <= m
      BY <1>1, <1>2, <3>1, <3>2
    <3>3. CASE ~(j <= m)
      <4> DEFINE h == j - m + 1
      <4>1. h \in 2 .. n /\ m + h - 1 = j /\ h \in 1 .. k - 1
        BY <1>1, <2>1, <3>3
      <4>2. all[j] = s[h]
        BY <1>1, <4>1
      <4> QED
        BY <3>1, <4>1, <4>2 DEF Before
    <3> QED
      BY <3>2, <3>3
  <2>5. ASSUME NEW j \in DOMAIN more PROVE more[j] \in Before(all, i)
    <3>1. j \in 1 .. i - 1 /\ all[j] = more[j]
      BY <1>1, <1>2, <1>4, <2>1
    <3> QED
      BY <3>1 DEF Before
  <2> QED
    BY <2>2, <2>3, <2>4, <2>5 DEF all
<1> QED
  BY <1>3, <1>4

\* The head of a thread's list is done, or the handler ends.
Proceeds(t, more) ==
    /\ Busy(t) /\ thread' \in [Threads -> Handlers]
    /\ \A u \in Threads : u # t => thread'[u] = thread[u]
    /\ \/ thread'[t] = Idle
       \/ /\ thread'[t].todo = more \o Tail(thread[t].todo)
          /\ thread'[t].items = thread[t].items
          /\ thread[t].inDoubt => thread'[t].inDoubt

LEMMA HandlerFields ==
    ASSUME NEW h \in Handlers
    PROVE  h.todo \in Seq(Effects) /\ h.items \subseteq Items /\ h.inDoubt \in BOOLEAN
BY DEF Handlers

LEMMA IdleIsHandler == Idle \in Handlers
<1>1. << >> \in Seq(Effects)
  BY EmptySeq
<1> QED
  BY <1>1 DEF Idle, Handlers

\* Continue is such a step, ...
LEMMA ContinueProceeds ==
    ASSUME TypeInv, NEW t \in Threads, Busy(t), NEW more \in Seq(Effects), Continue(t, more)
    PROVE  /\ Proceeds(t, more)
           /\ thread'[t].inDoubt = thread[t].inDoubt \/ thread'[t] = Idle
<1> DEFINE todo == more \o Tail(thread[t].todo)
<1>1. thread \in [Threads -> Handlers] /\ thread[t] \in Handlers /\ thread[t].todo \in Seq(Effects)
  BY HandlerFields DEF TypeInv
<1>2. todo \in Seq(Effects)
  BY <1>1, Replaced DEF Busy
<1> HIDE DEF todo
<1>3. thread' = [thread EXCEPT ![t] = IF todo = << >> THEN Idle ELSE [thread[t] EXCEPT !.todo = todo]]
  BY DEF Continue, todo
<1>4. [thread[t] EXCEPT !.todo = todo] \in Handlers
  BY <1>1, <1>2 DEF Handlers
<1>5. thread' \in [Threads -> Handlers]
  BY <1>1, <1>3, <1>4, IdleIsHandler
<1>6. thread'[t] = Idle \/ thread'[t] = [thread[t] EXCEPT !.todo = todo]
  BY <1>1, <1>3
<1>7. /\ [thread[t] EXCEPT !.todo = todo].todo = todo
      /\ [thread[t] EXCEPT !.todo = todo].items = thread[t].items
      /\ [thread[t] EXCEPT !.todo = todo].inDoubt = thread[t].inDoubt
  BY <1>1 DEF Handlers
<1>8. \A u \in Threads : u # t => thread'[u] = thread[u]
  BY <1>1, <1>3
<1> QED
  BY <1>5, <1>6, <1>7, <1>8 DEF Proceeds, todo

\* ... and so is Return.
LEMMA ReturnProceeds ==
    ASSUME TypeInv, NEW t \in Threads, Busy(t), Return(t)
    PROVE  Proceeds(t, << >>) /\ thread'[t] = Idle
BY IdleIsHandler DEF TypeInv, Return, Proceeds

\* The effect that is done.
LEMMA EffectType ==
    ASSUME TypeInv, NEW t \in Threads, Busy(t)
    PROVE  /\ Effect(t) \in Effects /\ thread[t].todo \in Seq(Effects)
           /\ 1 \in DOMAIN thread[t].todo /\ Effect(t) = thread[t].todo[1]
           /\ Before(thread[t].todo, 1) = {}
           /\ thread[t].items \subseteq Items /\ thread[t].inDoubt \in BOOLEAN
<1>1. thread[t] \in Handlers /\ thread[t].todo # << >>
  BY DEF TypeInv, Busy
<1>2. thread[t].todo \in Seq(Effects) /\ thread[t].items \subseteq Items /\ thread[t].inDoubt \in BOOLEAN
  BY <1>1, HandlerFields
<1> QED
  BY <1>1, <1>2, FirstAndRest DEF Effect

\* What a thread can have in its list after a step of some thread.
LEMMA AfterStep ==
    ASSUME TypeInv, NEW t \in Threads, NEW more \in Seq(Effects), Proceeds(t, more),
           NEW u \in Threads, NEW i \in DOMAIN thread'[u].todo
    PROVE  \/ u # t /\ thread'[u] = thread[u]
           \/ /\ u = t /\ thread'[t].items = thread[t].items /\ (thread[t].inDoubt => thread'[t].inDoubt)
              /\ i \in DOMAIN more
              /\ thread'[t].todo[i] = more[i] /\ Before(thread'[t].todo, i) = Before(more, i)
           \/ /\ u = t /\ thread'[t].items = thread[t].items /\ (thread[t].inDoubt => thread'[t].inDoubt)
              /\ \E k \in DOMAIN thread[t].todo :
                 /\ thread'[t].todo[i] = thread[t].todo[k] /\ Effect(t) \in Before(thread[t].todo, k)
                 /\ \A b \in Before(thread[t].todo, k) :
                       b = Effect(t) \/ b \in Before(thread'[t].todo, i)
                 /\ \A b \in Before(thread'[t].todo, i) :
                       b \in Before(thread[t].todo, k) \/ \E j \in DOMAIN more : b = more[j]
                 /\ \A j \in DOMAIN more : more[j] \in Before(thread'[t].todo, i)
<1>1. CASE u # t
  BY <1>1 DEF Proceeds
<1>2. CASE u = t
  <2>1. thread'[t].todo # << >>
    BY <1>2
  <2>2. thread'[t] # Idle
    BY <2>1 DEF Idle
  <2>3. /\ thread'[t].todo = more \o Tail(thread[t].todo) /\ thread'[t].items = thread[t].items
        /\ thread[t].inDoubt => thread'[t].inDoubt
    BY <2>2 DEF Proceeds
  <2>4. thread[t].todo \in Seq(Effects) /\ thread[t].todo # << >>
    BY EffectType DEF Proceeds, Busy
  <2>5. i \in DOMAIN (more \o Tail(thread[t].todo))
    BY <1>2, <2>3
  <2> DEFINE s == thread[t].todo
             all == more \o Tail(s)
  <2>6. \/ i \in DOMAIN more /\ all[i] = more[i] /\ Before(all, i) = Before(more, i)
        \/ \E k \in DOMAIN s :
              /\ all[i] = s[k] /\ Head(s) \in Before(s, k)
              /\ \A b \in Before(s, k) : b = Head(s) \/ b \in Before(all, i)
              /\ \A b \in Before(all, i) : b \in Before(s, k) \/ \E j \in DOMAIN more : b = more[j]
              /\ \A j \in DOMAIN more : more[j] \in Before(all, i)
    BY <2>4, <2>5, NewAndOld
  <2>7. all = thread'[t].todo /\ Head(s) = Effect(t)
    BY <2>3 DEF Effect
  <2> HIDE DEF all, s
  <2> QED
    BY <1>2, <2>3, <2>6, <2>7 DEF s
<1> QED
  BY <1>1, <1>2

-----------------------------------------------------------------------------
(* What a step may do: each lemma says when it keeps a part of IInv.       *)

LEMMA TypesKept ==
    ASSUME TypeInv, NEW t \in Threads, NEW more \in Seq(Effects), Proceeds(t, more),
           DOMAIN usersParam \subseteq DOMAIN usersParam', phase' = phase,
           \A i \in DOMAIN more : /\ more[i].op = "send" => more[i].context \in DOMAIN usersParam'
                                  /\ more[i].op # "upgradeIfNeeded"
    PROVE  \A u \in Threads : \A i \in DOMAIN thread'[u].todo : TypeFits(thread[u].todo[i])'
<1> SUFFICES ASSUME NEW u \in Threads, NEW i \in DOMAIN thread'[u].todo
             PROVE  TypeFits(thread[u].todo[i])'
  OBVIOUS
<1>1. ASSUME NEW v \in Threads, NEW k \in DOMAIN thread[v].todo, thread'[u].todo[i] = thread[v].todo[k]
      PROVE  TypeFits(thread[u].todo[i])'
  BY <1>1 DEF TypeInv, TypeFits
<1>2. ASSUME NEW j \in DOMAIN more, thread'[u].todo[i] = more[j]
      PROVE  TypeFits(thread[u].todo[i])'
  BY <1>2 DEF TypeFits
<1> QED
  BY <1>1, <1>2, AfterStep

LEMMA ApartKept ==
    ASSUME TypeInv, ApartInv, NEW t \in Threads, NEW more \in Seq(Effects), Proceeds(t, more),
           \A i \in DOMAIN more : ItemsOf(more[i]) \subseteq thread[t].items
    PROVE  ApartInv'
<1>1. ASSUME NEW u \in Threads, NEW i \in DOMAIN thread'[u].todo
      PROVE  ItemsOf(thread'[u].todo[i]) \subseteq thread'[u].items
  BY AfterStep DEF ApartInv
<1>2. ASSUME NEW u \in Threads, NEW v \in Threads, u # v, thread'[u].todo # << >>, thread'[v].todo # << >>,
             thread'[u].items \cap thread'[v].items # {}
      PROVE  thread'[u].inDoubt
  <2>1. ASSUME NEW w \in Threads, thread'[w].todo # << >>
        PROVE  /\ Busy(w) /\ thread'[w].items = thread[w].items
               /\ thread[w].inDoubt => thread'[w].inDoubt
    BY <2>1 DEF Proceeds, Idle, Busy
  <2> QED
    BY <1>2, <2>1 DEF ApartInv
<1>3. (\A u \in Threads : \A i \in DOMAIN thread[u].todo : ItemsOf(thread[u].todo[i]) \subseteq thread[u].items)'
  BY <1>1 DEF ItemsOf
<1> QED
  BY <1>2, <1>3 DEF ApartInv, Busy

\* A step writes only the items of its handler, promises only what no other
\* handler deals with, and leaves every promise good.
Calm(t) ==
    /\ \A c \in Contexts, item \in Items :
          /\ item \notin thread[t].items =>
                (Entry(c)[item])' = Entry(c)[item] /\ param'[c][item] = param[c][item]
          /\ \/ accepted'[c][item] \in {None, accepted[c][item]}
             \/ item \in thread[t].items /\ ~thread[t].inDoubt
          /\ AcceptedInParam(c, item)'
          /\ AcceptedInMemory(c, item) => AcceptedInMemory(c, item)'
          /\ CarriedOver(c, item) => CarriedOver(c, item)'
          /\ CarriedOver(c, item)' \/ OldParam(item)' = OldParam(item)
    /\ NeverUnset => NeverUnset'

\* The promise that a handler has under way stays good, and so do new ones.
KeepsPromises(t, more) ==
    LET e == Effect(t)
    IN  /\ \A i \in DOMAIN more : PromiseFits(more[i], Before(more, i), thread[t].inDoubt)'
        /\ e.op \in Sending \cup {"param"} =>
              /\ \A i \in DOMAIN more : more[i].op \in Sending
              /\ \A c \in Contexts : Entry(c)' = Entry(c)
        /\ e.op \in Sending => \A c \in Contexts : param'[c] = param[c]
        /\ e.op = "param" =>
              \/ thread'[t].inDoubt \/ thread'[t] = Idle
              \/ \A item \in DOMAIN e.values : param'[e.context][item] = e.values[item]
        /\ e.op # "promise" => \A c \in Contexts, item \in Items :
              accepted'[c][item] \in {None, accepted[c][item]}

LEMMA PromiseKept ==
    ASSUME TypeInv, ApartInv, PromiseInv, NEW t \in Threads, NEW more \in Seq(Effects),
           Proceeds(t, more), Calm(t), KeepsPromises(t, more)
    PROVE  PromiseInv'
<1> SUFFICES ASSUME NEW u \in Threads, NEW i \in DOMAIN thread'[u].todo
             PROVE  PromiseFits(thread[u].todo[i], Before(thread[u].todo, i), thread[u].inDoubt)'
  BY DEF PromiseInv
<1>1. CASE u # t /\ thread'[u] = thread[u]
  <2> DEFINE before == Before(thread[u].todo, i)
  <2>1. PICK e : e = thread[u].todo[i]
    OBVIOUS
  <2>2. e \in Effects /\ Busy(u) /\ Busy(t)
    <3>1. thread[u] \in Handlers
      BY DEF TypeInv
    <3>2. thread[u].todo \in Seq(Effects) /\ i \in DOMAIN thread[u].todo
      BY <1>1, <3>1, HandlerFields
    <3>3. e \in Effects /\ thread[u].todo # << >>
      BY <2>1, <3>2, LenProperties, ElementOfSeq
    <3> QED
      BY <3>3 DEF Busy, Proceeds
  <2>3. PromiseFits(e, before, thread[u].inDoubt) /\ ItemsOf(e) \subseteq thread[u].items
    BY <1>1, <2>1 DEF PromiseInv, ApartInv
  <2>4. e.op \in {"param", "promise"} =>
           e.context \in Contexts /\ DOMAIN e.values \subseteq thread[u].items /\ DOMAIN e.values \subseteq Items
    <3>1. e.op \in {"param", "promise"} => DOMAIN e.values = ItemsOf(e) /\ e.context \in Contexts
      BY <2>2, EffectFields DEF ItemsOf
    <3>2. thread[u].items \subseteq Items
      BY EffectType, <2>2
    <3> QED
      BY <2>3, <3>1, <3>2
  <2>5. ASSUME NEW c \in Contexts, NEW item \in Items, item \in thread[u].items
        PROVE  /\ accepted[c][item] = None => accepted'[c][item] = None
               /\ ~thread[u].inDoubt =>
                     (Entry(c)[item])' = Entry(c)[item] /\ param'[c][item] = param[c][item]
    <3>1. item \in thread[t].items => thread[t].inDoubt /\ thread[u].inDoubt
      BY <1>1, <2>2, <2>5 DEF ApartInv
    <3>2. thread[u].inDoubt \in BOOLEAN
      BY <2>2, EffectType
    <3> QED
      BY <3>1, <3>2 DEF Calm
  <2>6. \A item \in DOMAIN e.values : e.op \in {"param", "promise"} => accepted'[e.context][item] = None
    BY <2>3, <2>4, <2>5 DEF PromiseFits
  <2>7. ASSUME e.op = "promise", ~thread[u].inDoubt, NEW item \in DOMAIN e.values
        PROVE  /\ (Entry(e.context)[item])' = e.values[item]
               /\ param'[e.context][item] = e.values[item] \/ \E b \in before : b.op = "param"
    <3>1. /\ Entry(e.context)[item] = e.values[item]
          /\ param[e.context][item] = e.values[item] \/ \E b \in before : b.op = "param"
      BY <2>3, <2>7 DEF PromiseFits
    <3>2. (Entry(e.context)[item])' = Entry(e.context)[item] /\ param'[e.context][item] = param[e.context][item]
      BY <2>4, <2>5, <2>7
    <3> QED
      BY <3>1, <3>2
  <2> HIDE DEF before
  <2>8. PromiseFits(e, before, thread[u].inDoubt)' /\ thread'[u].todo[i] = e
    <3>1. e.op = "param" => before = {}
      BY <2>3 DEF PromiseFits
    <3>2. before' = before
      BY <1>1 DEF before, Before
    <3>3. e.op = "promise" => \A b \in before :
             b.op \in Sending \/ (b.op = "param" /\ b.context = e.context /\ b.values = e.values)
      BY <2>3 DEF PromiseFits
    <3>4. thread'[u].todo[i] = e /\ thread'[u].inDoubt = thread[u].inDoubt
      BY <1>1, <2>1
    <3> QED
      BY <2>6, <2>7, <3>1, <3>2, <3>3, <3>4 DEF PromiseFits
  <2> QED
    BY <2>8 DEF before
<1>2. ASSUME u = t, i \in DOMAIN more, thread'[t].todo[i] = more[i],
             Before(thread'[t].todo, i) = Before(more, i)
      PROVE  PromiseFits(thread[u].todo[i], Before(thread[u].todo, i), thread[u].inDoubt)'
  <2>1. PromiseFits(more[i], Before(more, i), thread[t].inDoubt)'
    BY <1>2 DEF KeepsPromises
  <2>2. (thread[u].todo[i])' = more[i] /\ Before(thread[u].todo, i)' = Before(more, i)
    BY <1>2 DEF Before
  <2> QED
    BY <1>2, <2>1, <2>2 DEF PromiseFits, Entry
<1>3. ASSUME u = t, thread[t].inDoubt => thread'[t].inDoubt,
             NEW k \in DOMAIN thread[t].todo, thread'[t].todo[i] = thread[t].todo[k],
             Effect(t) \in Before(thread[t].todo, k),
             \A b \in Before(thread[t].todo, k) : b = Effect(t) \/ b \in Before(thread'[t].todo, i),
             \A b \in Before(thread'[t].todo, i) :
                b \in Before(thread[t].todo, k) \/ \E j \in DOMAIN more : b = more[j]
      PROVE  PromiseFits(thread[u].todo[i], Before(thread[u].todo, i), thread[u].inDoubt)'
  <2>0. PICK after : after = Before(thread'[t].todo, i)
    OBVIOUS
  <2>1. PICK e : e = thread[t].todo[k]
    OBVIOUS
  <2>2. PICK before : before = Before(thread[t].todo, k)
    OBVIOUS
  <2>3. PromiseFits(e, before, thread[t].inDoubt)
    BY <2>1, <2>2 DEF PromiseInv
  <2>4. e.op # "param"
    BY <1>3, <2>2, <2>3 DEF PromiseFits
  <2>5. e \in Effects /\ Busy(t) /\ thread[t].inDoubt \in BOOLEAN /\ thread'[t].inDoubt \in BOOLEAN
    <3>1. Busy(t) /\ thread'[t] \in Handlers /\ thread[t] \in Handlers
      BY DEF Proceeds, TypeInv
    <3>2. thread[t].todo \in Seq(Effects) /\ thread[t].inDoubt \in BOOLEAN /\ thread'[t].inDoubt \in BOOLEAN
      BY <3>1, HandlerFields
    <3> QED
      BY <2>1, <3>1, <3>2, LenProperties, ElementOfSeq
  <2>6. ASSUME e.op = "promise"
        PROVE  /\ \A b \in after :
                     b.op \in Sending \/ (b.op = "param" /\ b.context = e.context /\ b.values = e.values)
               /\ \A item \in DOMAIN e.values : accepted'[e.context][item] = None
               /\ ~thread'[t].inDoubt => \A item \in DOMAIN e.values :
                     /\ (Entry(e.context)[item])' = e.values[item]
                     /\ param'[e.context][item] = e.values[item] \/ \E b \in after : b.op = "param"
    <3>1. /\ \A b \in before :
                b.op \in Sending \/ (b.op = "param" /\ b.context = e.context /\ b.values = e.values)
          /\ \A item \in DOMAIN e.values : accepted[e.context][item] = None
          /\ ~thread[t].inDoubt => \A item \in DOMAIN e.values :
                /\ Entry(e.context)[item] = e.values[item]
                /\ param[e.context][item] = e.values[item] \/ \E b \in before : b.op = "param"
      BY <2>3, <2>6 DEF PromiseFits
    <3>2. /\ Effect(t).op \in Sending \cup {"param"} /\ Effect(t).op # "promise"
          /\ Effect(t).op \in Sending
             \/ (Effect(t).op = "param" /\ Effect(t).context = e.context /\ Effect(t).values = e.values)
      BY <1>3, <2>2, <3>1 DEF Sending
    <3>3. e.context \in Contexts /\ DOMAIN e.values \subseteq Items
      BY <2>5, <2>6, EffectFields DEF PartialParams
    <3>4. \A b \in after :
             b.op \in Sending \/ (b.op = "param" /\ b.context = e.context /\ b.values = e.values)
      BY <1>3, <2>0, <2>2, <3>1, <3>2 DEF KeepsPromises
    <3>5. \A item \in DOMAIN e.values : accepted'[e.context][item] = None
      BY <3>1, <3>2, <3>3 DEF KeepsPromises
    <3>6. ASSUME ~thread'[t].inDoubt, NEW item \in DOMAIN e.values
          PROVE  /\ (Entry(e.context)[item])' = e.values[item]
                 /\ param'[e.context][item] = e.values[item] \/ \E b \in after : b.op = "param"
      <4>1. Entry(e.context)' = Entry(e.context)
        BY <3>2, <3>3 DEF KeepsPromises
      <4>2. Entry(e.context)[item] = e.values[item]
        BY <1>3, <3>1, <3>6
      <4>3. CASE Effect(t).op \in Sending
        <5>1. param'[e.context] = param[e.context]
          BY <3>3, <4>3 DEF KeepsPromises
        <5>2. Effect(t).op # "param"
          BY <4>3 DEF Sending
        <5> QED
          BY <1>3, <2>0, <2>2, <3>1, <3>6, <4>1, <4>2, <5>1, <5>2
      <4>4. CASE Effect(t).op = "param" /\ Effect(t).context = e.context /\ Effect(t).values = e.values
        <5>1. thread'[t] # Idle
          BY <1>3 DEF Idle
        <5>2. param'[e.context][item] = e.values[item]
          BY <3>6, <4>4, <5>1 DEF KeepsPromises
        <5> QED
          BY <4>1, <4>2, <5>2
      <4> QED
        BY <3>2, <4>3, <4>4
    <3> QED
      BY <3>4, <3>5, <3>6
  <2>7. PromiseFits(e, after, thread[t].inDoubt)'
    BY <2>4, <2>6 DEF PromiseFits
  <2>8. (thread[u].todo[i])' = e /\ Before(thread[u].todo, i)' = after
    BY <1>3, <2>0, <2>1 DEF Before
  <2> QED
    BY <1>3, <2>7, <2>8 DEF PromiseFits, Entry
<1> QED
  BY <1>1, <1>2, <1>3, AfterStep

\* What the head has done for the upgrade is done, or the effects in its place
\* are about to do it.
KeepsUpgrade(t, more) ==
    LET e == Effect(t)
    IN  /\ \A i \in DOMAIN more : UpgradeFits(more[i], Before(more, i))'
        /\ e.op \in Upgrading => Upgraded' \/ \E j \in DOMAIN more : more[j].op \in Upgrading
        /\ \A c \in Contexts, item \in Items : Carries(e, c, item) =>
              CarriedOver(c, item)' \/ \E j \in DOMAIN more : Carries(more[j], c, item)
        /\ \A c \in Contexts : Loads(e, c) =>
              (\A item \in Items : AcceptedInMemory(c, item)') \/ \E j \in DOMAIN more : Loads(more[j], c)
        /\ phase' # "published" /\ ~isNeedDoCompatibleProcess' => Upgraded'
        /\ isNeedDoCompatibleProcess' => isNeedDoCompatibleProcess

\* An effect that fits goes on fitting in steps of other handlers.
LEMMA UpgradeFitsKept ==
    ASSUME NEW t, Calm(t), NEW e \in Effects, NEW before, UpgradeFits(e, before)
    PROVE  UpgradeFits(e, before)'
<1>1. e.op \in Initializing => Upgraded' \/ \E b \in before : b.op \in Upgrading
  BY DEF UpgradeFits, Upgraded, Calm
<1>2. e.op \in {"compatible", "carry", "carryTo", "carried"} => NeverUnset'
  BY DEF UpgradeFits, Calm
<1>3. ASSUME e.op = "carried", NEW c \in Contexts, NEW item \in Items
      PROVE  CarriedOver(c, item)' \/ \E b \in before : Carries(b, c, item)
  BY <1>3 DEF UpgradeFits, Calm
<1>4. ASSUME e.op = "carryTo"
      PROVE  CarriedOver(e.context, e.item)' \/ e.value = OldParam(e.item)'
  <2>1. e.context \in Contexts /\ e.item \in Items
    BY <1>4, EffectFields
  <2> QED
    BY <1>4, <2>1 DEF UpgradeFits, Calm
<1>5. ASSUME e.op = "initialized", NEW c \in Contexts
      PROVE  (\A item \in Items : AcceptedInMemory(c, item)') \/ \E b \in before : Loads(b, c)
  BY <1>5 DEF UpgradeFits, Calm
<1> QED
  BY <1>1, <1>2, <1>3, <1>4, <1>5 DEF UpgradeFits, Carries, Loads

LEMMA UpgradeKept ==
    ASSUME TypeInv, UpgradeInv, NEW t \in Threads, NEW more \in Seq(Effects),
           Proceeds(t, more), Calm(t), KeepsUpgrade(t, more)
    PROVE  UpgradeInv'
<1>1. ASSUME NEW u \in Threads, NEW i \in DOMAIN thread'[u].todo
      PROVE  UpgradeFits(thread[u].todo[i], Before(thread[u].todo, i))'
  <2> SUFFICES ASSUME NEW e, NEW after, e = thread'[u].todo[i], after = Before(thread[u].todo, i)'
               PROVE  UpgradeFits(e, after)'
    <3>1. PICK e : e = thread'[u].todo[i]
      OBVIOUS
    <3>2. PICK after : after = Before(thread[u].todo, i)'
      OBVIOUS
    <3>3. UpgradeFits(e, after)'
      BY <3>1, <3>2
    <3> QED
      BY <3>1, <3>2, <3>3, SMTT(30) DEF UpgradeFits, CarriedOver, NothingToCarry, OldParam, Carries, Loads
  <2>0. ASSUME NEW v \in Threads, NEW k \in DOMAIN thread[v].todo
        PROVE  thread[v].todo[k] \in Effects
    <3>1. thread[v] \in Handlers
      BY DEF TypeInv
    <3>2. thread[v].todo \in Seq(Effects)
      BY <3>1, HandlerFields
    <3> QED
      BY <3>2, LenProperties, ElementOfSeq
  <2>1. CASE u # t /\ thread'[u] = thread[u]
    <3>1. e = thread[u].todo[i] /\ after = Before(thread[u].todo, i) /\ i \in DOMAIN thread[u].todo
      BY <2>1 DEF Before
    <3> QED
      BY <2>0, <3>1, UpgradeFitsKept DEF UpgradeInv
  <2>2. CASE u = t /\ i \in DOMAIN more /\ thread'[t].todo[i] = more[i]
             /\ Before(thread'[t].todo, i) = Before(more, i)
    <3>1. e = more[i] /\ after = Before(more, i)
      BY <2>2 DEF Before
    <3> QED
      BY <2>2, <3>1 DEF KeepsUpgrade
  <2>3. ASSUME u = t, NEW k \in DOMAIN thread[t].todo, thread'[t].todo[i] = thread[t].todo[k],
               \A b \in Before(thread[t].todo, k) : b = Effect(t) \/ b \in Before(thread'[t].todo, i),
               \A j \in DOMAIN more : more[j] \in Before(thread'[t].todo, i)
        PROVE  UpgradeFits(e, after)'
    <3>1. PICK before : before = Before(thread[t].todo, k)
      OBVIOUS
    <3>2. /\ after = Before(thread'[t].todo, i) /\ e = thread[t].todo[k] /\ e \in Effects
          /\ \A b \in before : b = Effect(t) \/ b \in after
          /\ \A j \in DOMAIN more : more[j] \in after
      BY <2>0, <2>3, <3>1 DEF Before
    <3>3. UpgradeFits(e, before)'
      BY <2>3, <3>1, <3>2, UpgradeFitsKept DEF UpgradeInv
    <3> PICK head : head = Effect(t)
      OBVIOUS
    <3>4. e.op \in Initializing => Upgraded' \/ \E b \in after : b.op \in Upgrading
      BY <3>2, <3>3 DEF UpgradeFits, KeepsUpgrade
    <3>5. ASSUME e.op = "carried", NEW c \in Contexts, NEW item \in Items
          PROVE  CarriedOver(c, item)' \/ \E b \in after : Carries(b, c, item)
      <4>1. CASE CarriedOver(c, item)'
        BY <4>1
      <4>2. CASE \E b \in before : Carries(b, c, item)
        BY <3>2, <4>2 DEF KeepsUpgrade
      <4>3. CarriedOver(c, item)' \/ \E b \in before : Carries(b, c, item)
        BY <3>3, <3>5 DEF UpgradeFits, Carries
      <4> QED
        BY <4>1, <4>2, <4>3
    <3>6. ASSUME e.op = "initialized", NEW c \in Contexts
          PROVE  (\A item \in Items : AcceptedInMemory(c, item)') \/ \E b \in after : Loads(b, c)
      <4>1. CASE \A item \in Items : AcceptedInMemory(c, item)'
        BY <4>1
      <4>2. CASE \E b \in before : Loads(b, c)
        BY <3>2, <4>2 DEF KeepsUpgrade
      <4>3. (\A item \in Items : AcceptedInMemory(c, item)') \/ \E b \in before : Loads(b, c)
        BY <3>3, <3>6 DEF UpgradeFits, Loads
      <4> QED
        BY <4>1, <4>2, <4>3
    <3> QED
      BY <3>3, <3>4, <3>5, <3>6 DEF UpgradeFits, Carries, Loads
  <2>4. \/ u # t /\ thread'[u] = thread[u]
        \/ /\ u = t /\ i \in DOMAIN more /\ thread'[t].todo[i] = more[i]
           /\ Before(thread'[t].todo, i) = Before(more, i)
        \/ /\ u = t
           /\ \E k \in DOMAIN thread[t].todo :
                 /\ thread'[t].todo[i] = thread[t].todo[k]
                 /\ \A b \in Before(thread[t].todo, k) : b = Effect(t) \/ b \in Before(thread'[t].todo, i)
                 /\ \A j \in DOMAIN more : more[j] \in Before(thread'[t].todo, i)
    BY AfterStep, SMTT(30)
  <2> QED
    BY <2>1, <2>2, <2>3, <2>4
<1>2. phase' # "published" /\ ~isNeedDoCompatibleProcess' => Upgraded'
  BY DEF KeepsUpgrade
<1>3. isNeedDoCompatibleProcess' => NeverUnset'
  BY DEF KeepsUpgrade, Calm, UpgradeInv
<1> QED
  BY <1>1, <1>2, <1>3 DEF UpgradeInv

LEMMA AcceptedKept ==
    ASSUME AcceptedInv, NEW t, Calm(t),
           isInitializationFinished' =>
              isInitializationFinished \/ \A c \in Contexts, item \in Items : AcceptedInMemory(c, item)'
    PROVE  AcceptedInv'
BY DEF AcceptedInv, Calm

\* A step that writes no parameter and no memory of an account, and at most
\* withdraws promises, is calm.
LEMMA CalmIfUnwritten ==
    ASSUME AcceptedInv, NEW t,
           \A c \in Contexts : Entry(c)' = Entry(c),
           UNCHANGED persistent,
           \A c \in Contexts, item \in Items : accepted'[c][item] \in {None, accepted[c][item]}
    PROVE  Calm(t)
<1>1. ASSUME NEW c \in Contexts, NEW item \in Items
      PROVE  /\ item \notin thread[t].items =>
                   (Entry(c)[item])' = Entry(c)[item] /\ param'[c][item] = param[c][item]
             /\ AcceptedInParam(c, item)'
             /\ AcceptedInMemory(c, item) => AcceptedInMemory(c, item)'
             /\ CarriedOver(c, item) => CarriedOver(c, item)'
             /\ OldParam(item)' = OldParam(item)
  <2>1. accepted'[c][item] = None \/ accepted'[c][item] = accepted[c][item]
    OBVIOUS
  <2>2. Entry(c)' = Entry(c) /\ param' = param /\ baseParam' = baseParam /\ firstInitialization' = firstInitialization
    BY DEF persistent
  <2>3. /\ LoadContextParam(c, item)' = LoadContextParam(c, item) /\ OldParam(item)' = OldParam(item)
        /\ NothingToCarry(c, item)' = NothingToCarry(c, item)
    BY <2>2 DEF LoadContextParam, OldParam, NothingToCarry
  <2>4. AcceptedInParam(c, item)
    BY DEF AcceptedInv
  <2> QED
    BY <2>1, <2>2, <2>3, <2>4 DEF AcceptedInParam, AcceptedInMemory, CarriedOver
<1>2. NeverUnset => NeverUnset'
  BY DEF NeverUnset, persistent
<1> QED
  BY <1>1, <1>2 DEF Calm

-----------------------------------------------------------------------------
(* What the start of a handler keeps.                                      *)

LEMMA BeginThreads ==
    ASSUME TypeInv, NEW t \in Threads, NEW items \in SUBSET Items, NEW todo \in Seq(Effects),
           Begin(t, items, todo)
    PROVE  /\ ~Busy(t) /\ thread' \in [Threads -> Handlers]
           /\ thread'[t].todo = todo /\ thread'[t].items = items
           /\ \A u \in Threads \ {t} :
                 /\ thread'[u].todo = thread[u].todo /\ thread'[u].items = thread[u].items
                 /\ thread[u].inDoubt => thread'[u].inDoubt
                 /\ Busy(u) /\ thread[u].items \cap items # {} => thread'[u].inDoubt /\ thread'[t].inDoubt
           /\ shown' = shown \/ shown' = InDoubt
<1> DEFINE others == {u \in Threads \ {t} : Busy(u) /\ thread[u].items \cap items # {}}
           started == [todo |-> todo, items |-> items, inDoubt |-> others # {}]
           doubted(u) == [thread[u] EXCEPT !.inDoubt = TRUE]
<1>1. /\ ~Busy(t)
      /\ thread' = [u \in Threads |-> IF u = t THEN started
                                      ELSE IF u \in others THEN doubted(u) ELSE thread[u]]
      /\ shown' = shown \/ shown' = InDoubt
  BY DEF Begin
<1>2. started \in Handlers /\ started.todo = todo /\ started.items = items /\ started.inDoubt = (others # {})
  BY DEF Handlers
<1>3. ASSUME NEW u \in Threads
      PROVE  /\ doubted(u) \in Handlers /\ doubted(u).todo = thread[u].todo
             /\ doubted(u).items = thread[u].items /\ doubted(u).inDoubt = TRUE
             /\ thread[u] \in Handlers
  <2>1. thread[u] \in Handlers
    BY DEF TypeInv
  <2> QED
    BY <2>1 DEF Handlers
<1> HIDE DEF started, doubted
<1>4. thread' \in [Threads -> Handlers]
  BY <1>1, <1>2, <1>3
<1>5. thread'[t] = started
  BY <1>1
<1>6. ASSUME NEW u \in Threads \ {t}
      PROVE  /\ thread'[u].todo = thread[u].todo /\ thread'[u].items = thread[u].items
             /\ thread[u].inDoubt => thread'[u].inDoubt
             /\ Busy(u) /\ thread[u].items \cap items # {} => thread'[u].inDoubt /\ thread'[t].inDoubt
  <2>1. CASE u \in others
    <3>1. thread'[u] = doubted(u)
      BY <1>1, <2>1
    <3> QED
      BY <1>2, <1>3, <1>5, <2>1, <3>1
  <2>2. CASE u \notin others
    <3>1. thread'[u] = thread[u]
      BY <1>1, <2>2
    <3> QED
      BY <2>2, <3>1
  <2> QED
    BY <2>1, <2>2
<1> QED
  BY <1>1, <1>2, <1>4, <1>5, <1>6

LEMMA BeginKeeps ==
    ASSUME IInv, NEW t \in Threads, NEW items \in SUBSET Items, NEW todo \in Seq(Effects),
           Begin(t, items, todo),
           UNCHANGED << persistent, usersParam, accepted >>,
           phase' \in {phase, "serving"},
           isInitializationFinished' = isInitializationFinished,
           phase' # "published" /\ ~isNeedDoCompatibleProcess' => Upgraded,
           isNeedDoCompatibleProcess' => NeverUnset,
           \A i \in DOMAIN todo : /\ ItemsOf(todo[i]) \subseteq items
                                  /\ todo[i].op \notin {"param", "promise"}
                                  /\ TypeFits(todo[i])'
                                  /\ UpgradeFits(todo[i], Before(todo, i))
    PROVE  /\ thread' \in [Threads -> Handlers]
           /\ \A u \in Threads : \A i \in DOMAIN thread'[u].todo : TypeFits(thread[u].todo[i])'
           /\ ApartInv' /\ PromiseInv' /\ UpgradeInv' /\ AcceptedInv'
<1>1. /\ ~Busy(t) /\ thread' \in [Threads -> Handlers]
      /\ thread'[t].todo = todo /\ thread'[t].items = items
      /\ \A u \in Threads \ {t} :
            /\ thread'[u].todo = thread[u].todo /\ thread'[u].items = thread[u].items
            /\ thread[u].inDoubt => thread'[u].inDoubt
            /\ Busy(u) /\ thread[u].items \cap items # {} => thread'[u].inDoubt /\ thread'[t].inDoubt
  BY BeginThreads DEF IInv
<1>2. \A c \in Contexts : Entry(c)' = Entry(c)
  BY DEF Entry
<1>3. Calm(t)
  BY <1>2, CalmIfUnwritten DEF IInv
<1>4. /\ param' = param /\ accepted' = accepted /\ usersParam' = usersParam /\ baseParam' = baseParam
      /\ firstInitialization' = firstInitialization
  BY DEF persistent
<1>5. ASSUME NEW u \in Threads, NEW i \in DOMAIN thread'[u].todo
      PROVE  TypeFits(thread[u].todo[i])'
  <2>1. CASE u = t
    BY <1>1, <2>1 DEF TypeFits
  <2>2. CASE u # t
    <3>1. (thread[u].todo[i])' = thread[u].todo[i] /\ i \in DOMAIN thread[u].todo
      BY <1>1, <2>2
    <3>2. TypeFits(thread[u].todo[i])
      BY <3>1 DEF IInv, TypeInv
    <3> QED
      BY <1>4, <3>1, <3>2 DEF TypeFits
  <2> QED
    BY <2>1, <2>2
<1>6. ApartInv'
  <2>1. ASSUME NEW u \in Threads, NEW i \in DOMAIN thread'[u].todo
        PROVE  (ItemsOf(thread[u].todo[i]) \subseteq thread[u].items)'
    <3>1. CASE u = t
      BY <1>1, <3>1 DEF ItemsOf
    <3>2. CASE u # t
      <4>1. (thread[u].todo[i])' = thread[u].todo[i] /\ i \in DOMAIN thread[u].todo
        BY <1>1, <3>2
      <4>2. ItemsOf(thread[u].todo[i]) \subseteq thread[u].items
        BY <4>1 DEF IInv, ApartInv
      <4> QED
        BY <1>1, <3>2, <4>1, <4>2 DEF ItemsOf
    <3> QED
      BY <3>1, <3>2
  <2>2. ASSUME NEW u \in Threads, NEW v \in Threads, u # v, Busy(u)', Busy(v)',
               (thread[u].items \cap thread[v].items # {})'
        PROVE  thread'[u].inDoubt
    <3>1. CASE u = t
      BY <1>1, <2>2, <3>1 DEF Busy
    <3>2. CASE v = t
      BY <1>1, <2>2, <3>2 DEF Busy
    <3>3. CASE u # t /\ v # t
      BY <1>1, <2>2, <3>3 DEF Busy, IInv, ApartInv
    <3> QED
      BY <3>1, <3>2, <3>3
  <2> QED
    BY <2>1, <2>2 DEF ApartInv
<1>7. PromiseInv'
  <2> SUFFICES ASSUME NEW u \in Threads, NEW i \in DOMAIN thread'[u].todo
               PROVE  PromiseFits(thread[u].todo[i], Before(thread[u].todo, i), thread[u].inDoubt)'
    BY DEF PromiseInv
  <2>1. CASE u = t
    <3>1. (thread[u].todo[i])' = todo[i] /\ todo[i].op \notin {"param", "promise"}
      BY <1>1, <2>1
    <3> QED
      BY <3>1 DEF PromiseFits
  <2>2. CASE u # t
    <3>1. /\ (thread[u].todo[i])' = thread[u].todo[i] /\ i \in DOMAIN thread[u].todo
          /\ Before(thread[u].todo, i)' = Before(thread[u].todo, i)
          /\ thread[u].inDoubt => thread'[u].inDoubt
      BY <1>1, <2>2 DEF Before
    <3>2. PromiseFits(thread[u].todo[i], Before(thread[u].todo, i), thread[u].inDoubt)
      BY <3>1 DEF IInv, PromiseInv
    <3>3. PICK e : e = thread[u].todo[i]
      OBVIOUS
    <3>4. PICK before : before = Before(thread[u].todo, i)
      OBVIOUS
    <3> QED
      BY <1>4, <3>1, <3>2, <3>3, <3>4 DEF PromiseFits, Entry
  <2> QED
    BY <2>1, <2>2
<1>8. UpgradeInv'
  <2>1. ASSUME NEW u \in Threads, NEW i \in DOMAIN thread'[u].todo
        PROVE  UpgradeFits(thread[u].todo[i], Before(thread[u].todo, i))'
    <3>1. /\ thread[u].todo \in Seq(Effects) /\ thread'[u].todo \in Seq(Effects)
      <4>1. thread[u] \in Handlers /\ thread'[u] \in Handlers
        BY <1>1 DEF IInv, TypeInv
      <4> QED
        BY <4>1, HandlerFields
    <3>2. PICK e \in Effects : e = thread'[u].todo[i]
      BY <3>1, LenProperties, ElementOfSeq
    <3>3. PICK before : before = Before(thread[u].todo, i)'
      OBVIOUS
    <3>4. UpgradeFits(e, before)
      <4>1. CASE u = t
        BY <1>1, <3>2, <3>3, <4>1 DEF Before
      <4>2. CASE u # t
        <5>1. i \in DOMAIN thread[u].todo /\ e = thread[u].todo[i] /\ before = Before(thread[u].todo, i)
          BY <1>1, <3>2, <3>3, <4>2 DEF Before
        <5> QED
          BY <5>1 DEF IInv, UpgradeInv
      <4> QED
        BY <4>1, <4>2
    <3>5. UpgradeFits(e, before)'
      BY <1>3, <3>4, UpgradeFitsKept
    <3> QED
      BY <3>2, <3>3, <3>5, SMTT(30) DEF UpgradeFits, CarriedOver, NothingToCarry, OldParam, Carries, Loads
  <2>2. (Upgraded => Upgraded') /\ (NeverUnset => NeverUnset')
    BY <1>3 DEF Calm, Upgraded
  <2> QED
    BY <2>1, <2>2 DEF UpgradeInv
<1>9. AcceptedInv'
  BY <1>3, AcceptedKept DEF IInv
<1> QED
  BY <1>1, <1>5, <1>6, <1>7, <1>8, <1>9

-----------------------------------------------------------------------------
(* The steps of a handler.                                                 *)

LEMMA HeadFits ==
    ASSUME IInv, NEW t \in Threads, Busy(t)
    PROVE  /\ Effect(t) \in Effects /\ ItemsOf(Effect(t)) \subseteq thread[t].items
           /\ TypeFits(Effect(t)) /\ PromiseFits(Effect(t), {}, thread[t].inDoubt)
           /\ UpgradeFits(Effect(t), {})
<1>1. /\ Effect(t) \in Effects /\ 1 \in DOMAIN thread[t].todo /\ Effect(t) = thread[t].todo[1]
      /\ Before(thread[t].todo, 1) = {}
  BY EffectType DEF IInv
<1>2. ItemsOf(thread[t].todo[1]) \subseteq thread[t].items
  BY <1>1 DEF IInv, ApartInv
<1>3. TypeFits(thread[t].todo[1])
  BY <1>1 DEF IInv, TypeInv
<1>4. PromiseFits(thread[t].todo[1], Before(thread[t].todo, 1), thread[t].inDoubt)
  BY <1>1 DEF IInv, PromiseInv
<1>5. UpgradeFits(thread[t].todo[1], Before(thread[t].todo, 1))
  BY <1>1 DEF IInv, UpgradeInv
<1> QED
  BY <1>1, <1>2, <1>3, <1>4, <1>5

LEMMA StepKeeps ==
    ASSUME IInv, NEW t \in Threads, NEW more \in Seq(Effects), Proceeds(t, more), Calm(t),
           KeepsPromises(t, more), KeepsUpgrade(t, more),
           \A i \in DOMAIN more : /\ ItemsOf(more[i]) \subseteq thread[t].items
                                  /\ more[i].op = "send" => more[i].context \in DOMAIN usersParam'
                                  /\ more[i].op # "upgradeIfNeeded",
           TypeOK', DOMAIN usersParam \subseteq DOMAIN usersParam',
           UNCHANGED << environment, events, phase >>,
           isInitializationFinished' =>
              isInitializationFinished \/ \A c \in Contexts, item \in Items : AcceptedInMemory(c, item)'
    PROVE  IInv'
<1>1. TypeInv /\ ApartInv /\ PromiseInv /\ UpgradeInv /\ AcceptedInv
  BY DEF IInv
<1>2. \A u \in Threads : \A i \in DOMAIN thread'[u].todo : TypeFits(thread[u].todo[i])'
  BY <1>1, TypesKept
<1>3. thread' \in [Threads -> Handlers]
  BY DEF Proceeds
<1>4. TypeInv'
  BY <1>1, <1>2, <1>3 DEF TypeInv, environment
<1>5. ApartInv'
  BY <1>1, ApartKept
<1>6. PromiseInv'
  BY <1>1, PromiseKept
<1>7. UpgradeInv'
  BY <1>1, UpgradeKept
<1>8. AcceptedInv'
  BY <1>1, AcceptedKept
<1> QED
  BY <1>4, <1>5, <1>6, <1>7, <1>8 DEF IInv

\* Effects that neither promise anything nor belong to the upgrade.
Plain == {"configuration", "base", "persist", "updateForeground", "loaded", "spread", "update", "send", "apply"}

\* A step that writes nothing of an account, and is followed by plain effects.
LEMMA PlainStepKeeps ==
    ASSUME IInv, NEW t \in Threads, NEW more \in Seq(Effects), Proceeds(t, more),
           Effect(t).op \in Plain \cup {"initializeIfNeeded", "initialized"},
           \A i \in DOMAIN more : /\ more[i].op \in Plain
                                  /\ Effect(t).op \in Sending => more[i].op \in Sending
                                  /\ ItemsOf(more[i]) \subseteq thread[t].items
                                  /\ more[i].op = "send" => more[i].context \in DOMAIN usersParam',
           TypeOK', DOMAIN usersParam \subseteq DOMAIN usersParam',
           \A c \in Contexts : Entry(c)' = Entry(c),
           UNCHANGED << environment, persistent, events, phase, isNeedDoCompatibleProcess >>,
           \A c \in Contexts, item \in Items : accepted'[c][item] \in {None, accepted[c][item]},
           isInitializationFinished' =>
              isInitializationFinished \/ \A c \in Contexts, item \in Items : AcceptedInMemory(c, item)'
    PROVE  IInv'
<1>1. Calm(t)
  BY CalmIfUnwritten DEF IInv
<1>2. KeepsPromises(t, more)
  <2>1. \A i \in DOMAIN more : PromiseFits(more[i], Before(more, i), thread[t].inDoubt)'
    BY DEF PromiseFits, Plain
  <2> QED
    BY <2>1 DEF KeepsPromises, Plain, Sending, persistent
<1>3. KeepsUpgrade(t, more)
  <2>1. \A i \in DOMAIN more : UpgradeFits(more[i], Before(more, i))'
    BY DEF UpgradeFits, Plain, Initializing
  <2>2. Upgraded => Upgraded'
    BY <1>1 DEF Calm, Upgraded
  <2>3. phase' # "published" /\ ~isNeedDoCompatibleProcess' => Upgraded'
    BY <2>2 DEF IInv, UpgradeInv
  <2> QED
    BY <2>1, <2>3 DEF KeepsUpgrade, Plain, Upgrading, Carries, Loads
<1>4. \A i \in DOMAIN more : more[i].op # "upgradeIfNeeded"
  BY DEF Plain
<1> QED
  BY <1>1, <1>2, <1>3, <1>4, StepKeeps

\* Memory after a step that writes one account.
LEMMA EntryAfter ==
    ASSUME NEW context, NEW entry, EntrySet(context, entry)
    PROVE  /\ \A c : Entry(c)' = IF c = context THEN entry ELSE Entry(c)
           /\ DOMAIN usersParam' = DOMAIN usersParam \cup {context}
BY DEF EntrySet, Entry

LEMMA EntryType ==
    ASSUME TypeInv, NEW c
    PROVE  Entry(c) \in [Items -> Values]
<1>1. GetDefaultFontWeightScaleValue(0) \in Values
  BY AppearanceServiceAssumption DEF GetDefaultFontWeightScaleValue, Values
<1>2. UiAppearanceParam \in [Items -> Values]
  BY <1>1 DEF UiAppearanceParam, Default, Values
<1> QED
  BY <1>2 DEF Entry, TypeInv, TypeOK

\* Types of memory after it.
LEMMA EntryTypesKept ==
    ASSUME TypeInv, NEW context \in Contexts, NEW entry \in [Items -> Values], EntrySet(context, entry)
    PROVE  /\ DOMAIN usersParam' \subseteq Contexts
           /\ \A c \in DOMAIN usersParam' : usersParam'[c] \in [Items -> Values]
           /\ onceFlag \subseteq DOMAIN usersParam' /\ DOMAIN usersParam \subseteq DOMAIN usersParam'
BY DEF TypeInv, TypeOK, EntrySet

LEMMA NoEffects == << >> \in Seq(Effects) /\ DOMAIN << >> = {}
<1>1. << >> \in Seq(Effects)
  BY EmptySeq
<1>2. 1 .. 0 = {}
  OBVIOUS
<1> QED
  BY <1>1, <1>2

LEMMA UpdateConfigurationKeeps ==
    ASSUME IInv, NEW t \in Threads, UpdateConfiguration(t)
    PROVE  IInv'
<1>1. PICK e \in Effects : e = Effect(t) /\ e.op = "configuration" /\ Busy(t)
  BY HeadFits DEF UpdateConfiguration, Doing, Effect
<1>2. Proceeds(t, << >>)
  BY <1>1, NoEffects, ContinueProceeds, ReturnProceeds DEF UpdateConfiguration, IInv
<1>3. configuration' \in [Users -> [Items -> Values \cup {Lost}]]
  <2>1. CASE UNCHANGED configuration
    BY <2>1 DEF IInv, TypeInv, TypeOK
  <2>2. CASE configuration' = [user \in Users |->
                 IF user \in e.users THEN [configuration[user] EXCEPT ![e.item] = e.value]
                 ELSE configuration[user]]
    <3>1. e.item \in Items /\ e.value \in Values /\ configuration \in [Users -> [Items -> Values \cup {Lost}]]
      BY <1>1, EffectFields DEF IInv, TypeInv, TypeOK
    <3> QED
      BY <2>2, <3>1
  <2> QED
    BY <1>1, <2>1, <2>2 DEF UpdateConfiguration
<1>4. UNCHANGED << environment, persistent, usersParam, flags, events, changes, history >>
  BY DEF UpdateConfiguration
<1>5. TypeOK'
  BY <1>3, <1>4 DEF IInv, TypeInv, TypeOK, environment, persistent, flags, history
<1>6. /\ \A c \in Contexts : Entry(c)' = Entry(c)
      /\ UNCHANGED << persistent, events, phase, isNeedDoCompatibleProcess, isInitializationFinished >>
      /\ UNCHANGED environment /\ UNCHANGED usersParam /\ UNCHANGED accepted
  BY <1>4 DEF Entry, flags, history
<1> QED
  BY <1>1, <1>2, <1>5, <1>6, NoEffects, PlainStepKeeps DEF Plain

LEMMA InitializedKeeps ==
    ASSUME IInv, NEW t \in Threads, Initialized(t)
    PROVE  IInv'
<1>1. Busy(t) /\ Effect(t).op = "initialized"
  BY DEF Initialized, Doing, Effect
<1>2. Proceeds(t, << >>)
  BY <1>1, NoEffects, ContinueProceeds DEF Initialized, IInv
<1>3. UNCHANGED << environment, configuration, persistent, usersParam, isNeedDoCompatibleProcess,
                   onceFlag, appMgr, phase, events, faults, changes, history >>
  BY DEF Initialized
<1>4. TypeOK'
  BY <1>3 DEF Initialized, IInv, TypeInv, TypeOK, environment, persistent, flags, history
<1>5. UpgradeFits(Effect(t), {})
  BY <1>1, HeadFits
<1>6. \A c \in Contexts, item \in Items : AcceptedInMemory(c, item)
  BY <1>1, <1>5 DEF UpgradeFits
<1>7. \A c \in Contexts : Entry(c)' = Entry(c)
  BY <1>3 DEF Entry
<1>8. UNCHANGED accepted
  BY <1>3 DEF history
<1>9. \A c \in Contexts, item \in Items : AcceptedInMemory(c, item)'
  BY <1>6, <1>7, <1>8 DEF AcceptedInMemory
<1> QED
  BY <1>1, <1>2, <1>3, <1>4, <1>7, <1>8, <1>9, NoEffects, PlainStepKeeps

\* Literal lists.
LEMMA OneEffect ==
    ASSUME NEW e \in Effects
    PROVE  << e >> \in Seq(Effects) /\ DOMAIN << e >> = {1} /\ << e >>[1] = e /\ Before(<< e >>, 1) = {}
<1>1. 1 .. 1 - 1 = {} /\ 1 .. 1 = {1}
  OBVIOUS
<1> QED
  BY <1>1 DEF Before

LEMMA TwoEffects ==
    ASSUME NEW e \in Effects, NEW f \in Effects
    PROVE  /\ << e, f >> \in Seq(Effects) /\ DOMAIN << e, f >> = {1, 2}
           /\ << e, f >>[1] = e /\ << e, f >>[2] = f
           /\ Before(<< e, f >>, 1) = {} /\ Before(<< e, f >>, 2) = {e}
<1>1. 1 .. 1 - 1 = {} /\ 1 .. 2 - 1 = {1} /\ 1 .. 2 = {1, 2}
  OBVIOUS
<1>2. Before(<< e, f >>, 1) = {}
  BY <1>1 DEF Before
<1>3. Before(<< e, f >>, 2) = {e}
  BY <1>1 DEF Before
<1> QED
  BY <1>1, <1>2, <1>3

LEMMA UpdateCurrentUserConfigurationKeeps ==
    ASSUME IInv, NEW t \in Threads, UpdateCurrentUserConfiguration(t)
    PROVE  IInv'
<1>1. PICK e \in Effects : e = Effect(t) /\ e.op = "update" /\ Busy(t)
  BY HeadFits DEF UpdateCurrentUserConfiguration, Doing, Effect
<1>2. PICK entry : entry = Entry(e.context)
  OBVIOUS
<1>3. e.context \in Contexts /\ e.force \in BOOLEAN /\ entry \in [Items -> Values]
      /\ ItemsOf(e) = Items /\ ItemsOf(e) \subseteq thread[t].items
  BY <1>1, <1>2, EffectFields, EntryType, HeadFits DEF IInv, ItemsOf
<1>4. EntrySet(e.context, entry)
  BY <1>1, <1>2 DEF UpdateCurrentUserConfiguration
<1>5. /\ \A c \in Contexts : Entry(c)' = Entry(c)
      /\ e.context \in DOMAIN usersParam' /\ DOMAIN usersParam \subseteq DOMAIN usersParam'
  BY <1>2, <1>4, EntryAfter
<1> DEFINE send == [op |-> "send", context |-> e.context, force |-> e.force, entry |-> entry]
           base == [op |-> "base", values |-> entry]
<1>6. /\ send \in Effects /\ base \in Effects /\ send.op = "send" /\ base.op = "base"
      /\ send.context = e.context /\ ItemsOf(send) \subseteq Items /\ ItemsOf(base) \subseteq Items
  <2>1. entry \in PartialParams
    BY <1>3 DEF PartialParams
  <2>2. send \in [op : {"send"}, context : Contexts, force : BOOLEAN, entry : [Items -> Values]]
    BY <1>3
  <2>3. base \in [op : {"base"}, values : PartialParams]
    BY <2>1
  <2> QED
    BY <1>3, <2>2, <2>3 DEF Effects, ItemsOf
<1> HIDE DEF send, base
<1>7. UNCHANGED << environment, configuration, persistent, flags, events, changes, accepted >>
  BY DEF UpdateCurrentUserConfiguration
<1>8. UNCHANGED << environment, persistent, events, phase, isNeedDoCompatibleProcess,
                   isInitializationFinished, accepted >>
  BY <1>7 DEF flags
<1>9. shown' \in [Users -> Contexts \cup {Nobody, Doubtful}]
  <2>1. e.context.userId \in Users
    BY <1>3, AppearanceServiceAssumption
  <2> QED
    BY <1>1, <2>1 DEF UpdateCurrentUserConfiguration, IInv, TypeInv, TypeOK
<1>10. TypeOK'
  <2>1. /\ DOMAIN usersParam' \subseteq Contexts
        /\ \A c \in DOMAIN usersParam' : usersParam'[c] \in [Items -> Values]
        /\ onceFlag \subseteq DOMAIN usersParam'
    BY <1>3, <1>4, EntryTypesKept DEF IInv
  <2> QED
    BY <1>7, <1>9, <2>1 DEF IInv, TypeInv, TypeOK, environment, persistent, flags
<1>11. CASE Continue(t, << send, base >>)
  <2>1. PICK more \in Seq(Effects) :
           more = << send, base >> /\ DOMAIN more = {1, 2} /\ more[1] = send /\ more[2] = base
    <3>1. /\ << send, base >> \in Seq(Effects) /\ DOMAIN << send, base >> = {1, 2}
          /\ << send, base >>[1] = send /\ << send, base >>[2] = base
      BY <1>6, TwoEffects
    <3> QED
      BY <3>1, Zenon
  <2>2. Proceeds(t, more)
    BY <1>1, <1>11, <2>1, ContinueProceeds DEF IInv
  <2>3. \A i \in DOMAIN more : more[i].op \in {"send", "base"} /\ ItemsOf(more[i]) \subseteq thread[t].items
            /\ (more[i].op = "send" => more[i].context \in DOMAIN usersParam')
    BY <1>3, <1>5, <1>6, <2>1
  <2> QED
    BY <1>1, <1>5, <1>8, <1>10, <2>2, <2>3, PlainStepKeeps DEF Plain, Sending
<1>12. CASE Continue(t, << >>)
  <2>1. Proceeds(t, << >>)
    BY <1>1, <1>12, NoEffects, ContinueProceeds DEF IInv
  <2> QED
    BY <1>1, <1>5, <1>8, <1>10, <2>1, NoEffects, PlainStepKeeps DEF Plain
<1> QED
  BY <1>1, <1>2, <1>11, <1>12 DEF UpdateCurrentUserConfiguration, send, base

LEMMA SendOnceKeeps ==
    ASSUME IInv, NEW t \in Threads, SendOnce(t)
    PROVE  IInv'
<1>1. PICK e \in Effects : e = Effect(t) /\ e.op = "send" /\ Busy(t)
  BY HeadFits DEF SendOnce, Doing, Effect
<1>2. /\ e.context \in Contexts /\ e.context.userId \in Users /\ e.entry \in [Items -> Values]
      /\ e.context \in DOMAIN usersParam
  BY <1>1, HeadFits, EffectFields, AppearanceServiceAssumption DEF TypeFits
<1>3. Proceeds(t, << >>)
  BY <1>1, NoEffects, ContinueProceeds DEF SendOnce, IInv
<1>4. UNCHANGED << environment, persistent, usersParam, isNeedDoCompatibleProcess,
                   isInitializationFinished, appMgr, phase, events, changes, accepted >>
  BY DEF SendOnce
<1>5. /\ shown' \in [Users -> Contexts \cup {Nobody, Doubtful}]
      /\ onceFlag' \subseteq DOMAIN usersParam
      /\ configuration' \in [Users -> [Items -> Values \cup {Lost}]]
  <2>1. shown \in [Users -> Contexts \cup {Nobody, Doubtful}] /\ onceFlag \subseteq DOMAIN usersParam
        /\ configuration \in [Users -> [Items -> Values \cup {Lost}]]
    BY DEF IInv, TypeInv, TypeOK
  <2>2. onceFlag' \in {onceFlag, onceFlag \cup {e.context}}
    BY <1>1 DEF SendOnce
  <2>3. configuration' \in {configuration, [configuration EXCEPT ![e.context.userId] = e.entry]}
    BY <1>1 DEF SendOnce
  <2>4. \E d \in {Doubtful, e.context} : shown' = [shown EXCEPT ![e.context.userId] = d]
    BY <1>1 DEF SendOnce
  <2>5. e.entry \in [Items -> Values \cup {Lost}]
    BY <1>2
  <2> QED
    BY <1>2, <2>1, <2>2, <2>3, <2>4, <2>5
<1>6. TypeOK'
  BY <1>4, <1>5 DEF IInv, TypeInv, TypeOK, environment, persistent
<1>7. \A c \in Contexts : Entry(c)' = Entry(c)
  BY <1>4 DEF Entry
<1> QED
  BY <1>1, <1>3, <1>4, <1>6, <1>7, NoEffects, PlainStepKeeps DEF Plain

\* A step of the upgrade that writes nothing of an account.
LEMMA UpgradeStepKeeps ==
    ASSUME IInv, NEW t \in Threads, NEW more \in Seq(Effects), Proceeds(t, more),
           Effect(t).op \notin Sending \cup {"param", "promise"},
           \A i \in DOMAIN more : /\ more[i].op \notin {"param", "promise", "send", "upgradeIfNeeded"}
                                  /\ ItemsOf(more[i]) \subseteq thread[t].items,
           UNCHANGED << environment, configuration, persistent, usersParam, flags, events, shown >>,
           accepted' \in [Contexts -> [Items -> Values \cup {None}]],
           \A c \in Contexts, item \in Items : accepted'[c][item] \in {None, accepted[c][item]},
           KeepsUpgrade(t, more)
    PROVE  IInv'
<1>1. \A c \in Contexts : Entry(c)' = Entry(c)
  BY DEF Entry
<1>2. Calm(t)
  BY <1>1, CalmIfUnwritten DEF IInv
<1>3. KeepsPromises(t, more)
  <2>1. \A i \in DOMAIN more : PromiseFits(more[i], Before(more, i), thread[t].inDoubt)'
    BY DEF PromiseFits
  <2> QED
    BY <2>1 DEF KeepsPromises
<1>4. TypeOK'
  BY DEF IInv, TypeInv, TypeOK, environment, persistent, flags
<1>5. UNCHANGED << phase, isInitializationFinished >> /\ DOMAIN usersParam \subseteq DOMAIN usersParam'
  BY DEF flags
<1> QED
  BY <1>2, <1>3, <1>4, <1>5, StepKeeps

\* Whom the upgrade passes over is not promised anything.
LEMMA PassedOverAccounts ==
    ASSUME TypeInv, PassedOver
    PROVE  /\ accepted' \in [Contexts -> [Items -> Values \cup {None}]]
           /\ \A c \in Contexts, item \in Items :
                 /\ accepted'[c][item] \in {None, accepted[c][item]}
                 /\ accepted'[c][item] # None => NothingToCarry(c, item)
BY DEF PassedOver, TypeInv, TypeOK

LEMMA UpgradeIfNeededKeeps ==
    ASSUME IInv, NEW t \in Threads, UpgradeIfNeeded(t)
    PROVE  IInv'
<1>1. Busy(t) /\ Effect(t).op = "upgradeIfNeeded"
  BY DEF UpgradeIfNeeded, Doing, Effect
<1>2. ItemsOf(Effect(t)) = Items /\ Items \subseteq thread[t].items /\ phase # "published"
  BY <1>1, HeadFits DEF ItemsOf, TypeFits
<1>3. UNCHANGED << environment, configuration, persistent, usersParam, flags, events, shown >>
  BY DEF UpgradeIfNeeded
<1>4. UNCHANGED << param, firstInitialization, phase, isNeedDoCompatibleProcess >>
  BY <1>3 DEF persistent, flags
<1>5. accepted \in [Contexts -> [Items -> Values \cup {None}]]
  BY DEF IInv, TypeInv, TypeOK
<1>6. CASE isNeedDoCompatibleProcess /\ Continue(t, << [op |-> "compatible"] >>) /\ UNCHANGED accepted
  <2> DEFINE f == [op |-> "compatible"]
  <2>1. f \in Effects /\ f.op = "compatible" /\ ItemsOf(f) = Items
    BY DEF Effects, ItemsOf
  <2> HIDE DEF f
  <2>2. PICK more \in Seq(Effects) : more = << f >> /\ DOMAIN more = {1} /\ more[1] = f
    <3>1. << f >> \in Seq(Effects) /\ DOMAIN << f >> = {1} /\ << f >>[1] = f
      BY <2>1, OneEffect
    <3> QED
      BY <3>1, Zenon
  <2>3. Proceeds(t, more)
    BY <1>1, <1>6, <2>2, ContinueProceeds DEF IInv, f
  <2>4. NeverUnset'
    BY <1>4, <1>6 DEF IInv, UpgradeInv, NeverUnset
  <2>5. \A i \in DOMAIN more : more[i].op = "compatible"
    BY <2>1, <2>2
  <2>6. KeepsUpgrade(t, more)
    <3>1. \A i \in DOMAIN more : UpgradeFits(more[i], Before(more, i))'
      BY <2>4, <2>5 DEF UpgradeFits, Initializing
    <3>2. \E j \in DOMAIN more : more[j].op \in Upgrading
      BY <2>2, <2>5 DEF Upgrading
    <3> QED
      BY <1>1, <1>4, <1>6, <3>1, <3>2 DEF KeepsUpgrade, Carries, Loads
  <2> QED
    BY <1>1, <1>2, <1>3, <1>5, <1>6, <2>1, <2>2, <2>3, <2>5, <2>6, UpgradeStepKeeps DEF Sending
<1>7. CASE /\ Continue(t, << >>)
           /\ (~isNeedDoCompatibleProcess /\ UNCHANGED accepted) \/ PassedOver
  <2>1. Proceeds(t, << >>)
    BY <1>1, <1>7, NoEffects, ContinueProceeds DEF IInv
  <2>2. /\ accepted' \in [Contexts -> [Items -> Values \cup {None}]]
        /\ \A c \in Contexts, item \in Items : accepted'[c][item] \in {None, accepted[c][item]}
    BY <1>5, <1>7, PassedOverAccounts DEF IInv
  <2>3. Upgraded'
    <3>1. CASE ~isNeedDoCompatibleProcess /\ UNCHANGED accepted
      <4>1. Upgraded
        BY <1>2, <3>1 DEF IInv, UpgradeInv
      <4> QED
        BY <1>4, <3>1, <4>1 DEF Upgraded, CarriedOver, NothingToCarry
    <3>2. CASE PassedOver
      <4>1. \A c \in Contexts, item \in Items : accepted'[c][item] # None => NothingToCarry(c, item)
        BY <3>2, PassedOverAccounts DEF IInv
      <4> QED
        BY <1>4, <4>1 DEF Upgraded, CarriedOver, NothingToCarry
    <3> QED
      BY <1>7, <3>1, <3>2
  <2>4. KeepsUpgrade(t, << >>)
    BY <1>1, <1>4, <2>3, NoEffects DEF KeepsUpgrade, Carries, Loads
  <2> QED
    BY <1>1, <1>3, <2>1, <2>2, <2>4, NoEffects, UpgradeStepKeeps DEF Sending
<1> QED
  BY <1>6, <1>7 DEF UpgradeIfNeeded

LEMMA InitializeIfNeededKeeps ==
    ASSUME IInv, NEW t \in Threads, InitializeIfNeeded(t)
    PROVE  IInv'
<1>1. Busy(t) /\ Effect(t).op = "initializeIfNeeded"
  BY DEF InitializeIfNeeded, Doing, Effect
<1>2. ItemsOf(Effect(t)) = Items /\ Items \subseteq thread[t].items /\ Upgraded
  BY <1>1, HeadFits DEF ItemsOf, UpgradeFits, Initializing
<1>3. UNCHANGED << environment, configuration, persistent, usersParam, flags, events, shown >>
  BY DEF InitializeIfNeeded
<1>4. UNCHANGED << param, firstInitialization, phase, isNeedDoCompatibleProcess >>
  BY <1>3 DEF persistent, flags
<1>5. /\ accepted' \in [Contexts -> [Items -> Values \cup {None}]]
      /\ \A c \in Contexts, item \in Items : accepted'[c][item] \in {None, accepted[c][item]}
  <2>1. accepted \in [Contexts -> [Items -> Values \cup {None}]]
    BY DEF IInv, TypeInv, TypeOK
  <2>2. UNCHANGED accepted \/ PassedOver
    BY DEF InitializeIfNeeded
  <2> QED
    BY <2>1, <2>2, PassedOverAccounts DEF IInv
<1>6. Upgraded'
  <2>1. \A c \in Contexts, item \in Items : NothingToCarry(c, item)' = NothingToCarry(c, item)
    BY <1>4 DEF NothingToCarry
  <2> QED
    BY <1>2, <1>5, <2>1 DEF Upgraded, CarriedOver
<1>7. CASE Continue(t, << [op |-> "initialize"], [op |-> "updateForeground"] >>)
  <2> DEFINE f == [op |-> "initialize"]
             g == [op |-> "updateForeground"]
  <2>1. f \in Effects /\ g \in Effects /\ f.op = "initialize" /\ g.op = "updateForeground"
        /\ ItemsOf(f) = Items /\ ItemsOf(g) = Items
    BY DEF Effects, ItemsOf
  <2> HIDE DEF f, g
  <2>2. PICK more \in Seq(Effects) : more = << f, g >> /\ DOMAIN more = {1, 2} /\ more[1] = f /\ more[2] = g
    <3>1. /\ << f, g >> \in Seq(Effects) /\ DOMAIN << f, g >> = {1, 2}
          /\ << f, g >>[1] = f /\ << f, g >>[2] = g
      BY <2>1, TwoEffects
    <3> QED
      BY <3>1, Zenon
  <2>3. Proceeds(t, more)
    BY <1>1, <1>7, <2>2, ContinueProceeds DEF IInv, f, g
  <2>4. \A i \in DOMAIN more : more[i].op \in {"initialize", "updateForeground"} /\ ItemsOf(more[i]) = Items
    BY <2>1, <2>2
  <2>5. KeepsUpgrade(t, more)
    <3>1. \A i \in DOMAIN more : UpgradeFits(more[i], Before(more, i))'
      BY <1>6, <2>4 DEF UpgradeFits
    <3> QED
      BY <1>1, <1>4, <1>6, <3>1 DEF KeepsUpgrade, Carries, Loads, Upgrading
  <2> QED
    BY <1>1, <1>2, <1>3, <1>5, <2>3, <2>4, <2>5, UpgradeStepKeeps DEF Sending
<1>8. CASE Continue(t, << >>)
  <2>1. Proceeds(t, << >>)
    BY <1>1, <1>8, NoEffects, ContinueProceeds DEF IInv
  <2>2. KeepsUpgrade(t, << >>)
    BY <1>1, <1>4, <1>6, NoEffects DEF KeepsUpgrade, Carries, Loads, Upgrading
  <2> QED
    BY <1>1, <1>3, <1>5, <2>1, <2>2, NoEffects, UpgradeStepKeeps DEF Sending
<1> QED
  BY <1>7, <1>8 DEF InitializeIfNeeded

\* A handler's effects for each member of a set.
LEMMA ListOf ==
    ASSUME NEW S, IsFiniteSet(S), NEW f \in [S -> Effects], NEW list,
           list = [i \in DOMAIN SetToSeq(S) |-> f[SetToSeq(S)[i]]]
    PROVE  /\ list \in Seq(Effects)
           /\ \A i \in DOMAIN list : \E x \in S : list[i] = f[x]
           /\ \A x \in S : \E i \in DOMAIN list : list[i] = f[x]
<1> DEFINE s == SetToSeq(S)
<1>1. s \in Seq(S) /\ \A x \in S : \E i \in DOMAIN s : s[i] = x
  BY SeqOfSet
<1>2. Len(s) \in Nat /\ DOMAIN s = 1 .. Len(s)
  BY <1>1, LenProperties
<1> HIDE DEF s
<1>3. \A i \in DOMAIN s : s[i] \in S
  BY <1>1, <1>2, ElementOfSeq
<1>4. list = [i \in DOMAIN s |-> f[s[i]]]
  BY DEF s
<1>5. list \in [1 .. Len(s) -> Effects]
  BY <1>2, <1>3, <1>4
<1>6. list \in Seq(Effects)
  BY <1>2, <1>5, SeqDef
<1> QED
  BY <1>1, <1>3, <1>4, <1>6

\* A list and one more effect.
LEMMA ListAndOne ==
    ASSUME NEW list \in Seq(Effects), NEW e \in Effects
    PROVE  /\ list \o << e >> \in Seq(Effects)
           /\ \A i \in DOMAIN (list \o << e >>) :
                 \/ i \in DOMAIN list /\ (list \o << e >>)[i] = list[i]
                 \/ /\ (list \o << e >>)[i] = e
                    /\ \A j \in DOMAIN list : list[j] \in Before(list \o << e >>, i)
           /\ \A j \in DOMAIN list : j \in DOMAIN (list \o << e >>) /\ (list \o << e >>)[j] = list[j]
           /\ \E j \in DOMAIN (list \o << e >>) : (list \o << e >>)[j] = e
<1> DEFINE all == list \o << e >>
           n == Len(list)
<1>1. << e >> \in Seq(Effects) /\ Len(<< e >>) = 1 /\ << e >>[1] = e
  BY OneEffect
<1>2. /\ all \in Seq(Effects) /\ Len(all) = n + 1
      /\ \A i \in 1 .. n + 1 : all[i] = IF i <= n THEN list[i] ELSE << e >>[i - n]
  BY <1>1, ConcatProperties
<1>3. n \in Nat /\ DOMAIN list = 1 .. n /\ DOMAIN all = 1 .. n + 1
  <2>1. DOMAIN all = 1 .. Len(all)
    BY <1>2, LenProperties
  <2> QED
    BY <1>2, <2>1, LenProperties
<1> HIDE DEF all, n
<1>4. \A j \in DOMAIN list : j \in DOMAIN all /\ all[j] = list[j]
  BY <1>2, <1>3
<1>5. n + 1 \in DOMAIN all /\ all[n + 1] = e
  <2>1. n + 1 \in 1 .. n + 1 /\ ~(n + 1 <= n) /\ (n + 1) - n = 1
    BY <1>3
  <2> QED
    BY <1>1, <1>2, <1>3, <2>1
<1>6. ASSUME NEW j \in DOMAIN list PROVE list[j] \in Before(all, n + 1)
  <2>1. j \in 1 .. (n + 1) - 1 /\ all[j] = list[j]
    BY <1>3, <1>4
  <2> QED
    BY <2>1 DEF Before
<1>7. \A i \in DOMAIN all : i \in DOMAIN list \/ i = n + 1
  BY <1>3
<1> QED
  BY <1>2, <1>4, <1>5, <1>6, <1>7 DEF all

LEMMA GetOldParamKeeps ==
    ASSUME IInv, NEW t \in Threads, GetOldParam(t)
    PROVE  IInv'
<1>1. PICK e \in Effects : e = Effect(t) /\ e.op = "carry" /\ Busy(t)
  BY HeadFits DEF GetOldParam, Doing, Effect
<1>2. /\ e.item \in Items /\ e.contexts \subseteq Contexts /\ Items \subseteq thread[t].items
      /\ NeverUnset
  BY <1>1, HeadFits, EffectFields DEF ItemsOf, UpgradeFits
<1>3. UNCHANGED << environment, configuration, persistent, usersParam, flags, events, changes, history >>
  BY DEF GetOldParam
<1>4. UNCHANGED << param, baseParam, firstInitialization, phase, isNeedDoCompatibleProcess, accepted, shown >>
  BY <1>3 DEF persistent, flags, history
<1>5. PICK value : value = OldParam(e.item)
  OBVIOUS
<1>6. value \in Values
  <2>1. baseParam[e.item] \in Values
    BY <1>2 DEF IInv, TypeInv, TypeOK
  <2> QED
    BY <1>5, <2>1, AppearanceServiceAssumption DEF OldParam, GetDefaultFontWeightScaleValue
<1> DEFINE f == [c \in e.contexts |-> [op |-> "carryTo", context |-> c, item |-> e.item, value |-> value]]
           list == [i \in DOMAIN SetToSeq(e.contexts) |-> f[SetToSeq(e.contexts)[i]]]
<1>7. \A c \in e.contexts : f[c].op = "carryTo" /\ f[c].context = c /\ f[c].item = e.item /\ f[c].value = value
  OBVIOUS
<1>8. f \in [e.contexts -> Effects]
  <2>1. \A c \in e.contexts : f[c] \in [op : {"carryTo"}, context : Contexts, item : Items, value : Values]
    BY <1>2, <1>6
  <2>2. \A c \in e.contexts : f[c] \in Effects
    BY <2>1 DEF Effects
  <2> QED
    BY <2>2
<1>9. IsFiniteSet(e.contexts)
  BY <1>2, FS_Subset, AppearanceServiceAssumption
<1>10. Continue(t, list)
  <2>1. \A i \in DOMAIN SetToSeq(e.contexts) : SetToSeq(e.contexts)[i] \in e.contexts
    <3>1. SetToSeq(e.contexts) \in Seq(e.contexts)
      BY <1>9, SeqOfSet
    <3> QED
      BY <3>1, LenProperties, ElementOfSeq
  <2>2. Continue(t, [i \in DOMAIN SetToSeq(e.contexts) |->
             [op |-> "carryTo", context |-> SetToSeq(e.contexts)[i], item |-> e.item, value |-> value]])
    BY <1>1, <1>5 DEF GetOldParam, ForEach
  <2>3. [i \in DOMAIN SetToSeq(e.contexts) |->
             [op |-> "carryTo", context |-> SetToSeq(e.contexts)[i], item |-> e.item, value |-> value]] = list
    BY <2>1
  <2> QED
    BY <2>2, <2>3
<1> HIDE DEF f
<1>11. PICK more \in Seq(Effects) :
          /\ Continue(t, more)
          /\ \A i \in DOMAIN more : \E c \in e.contexts : more[i] = f[c]
          /\ \A c \in e.contexts : \E i \in DOMAIN more : more[i] = f[c]
  <2> HIDE DEF list
  <2>1. /\ list \in Seq(Effects)
        /\ \A i \in DOMAIN list : \E c \in e.contexts : list[i] = f[c]
        /\ \A c \in e.contexts : \E i \in DOMAIN list : list[i] = f[c]
    BY <1>8, <1>9, ListOf DEF list
  <2> QED
    BY <1>10, <2>1
<1>12. Proceeds(t, more)
  BY <1>1, <1>11, ContinueProceeds DEF IInv
<1>13. \A i \in DOMAIN more : more[i].op = "carryTo" /\ more[i].item = e.item /\ more[i].value = value
  BY <1>7, <1>11
<1>14. KeepsUpgrade(t, more)
  <2>1. NeverUnset' /\ OldParam(e.item)' = value
    BY <1>2, <1>4, <1>5 DEF NeverUnset, OldParam
  <2>2. \A i \in DOMAIN more : UpgradeFits(more[i], Before(more, i))'
    BY <1>13, <2>1 DEF UpgradeFits, Initializing
  <2>3. ASSUME NEW c \in Contexts, NEW item \in Items, Carries(e, c, item)
        PROVE  \E j \in DOMAIN more : Carries(more[j], c, item)
    BY <1>1, <1>7, <1>11, <2>3 DEF Carries
  <2>4. (Upgraded => Upgraded')
    BY <1>4 DEF Upgraded, CarriedOver, NothingToCarry
  <2>5. phase' # "published" /\ ~isNeedDoCompatibleProcess' => Upgraded'
    BY <1>4, <2>4 DEF IInv, UpgradeInv
  <2> QED
    BY <1>1, <1>4, <2>2, <2>3, <2>5 DEF KeepsUpgrade, Loads, Upgrading
<1>15. /\ accepted' \in [Contexts -> [Items -> Values \cup {None}]]
       /\ \A c \in Contexts, item \in Items : accepted'[c][item] \in {None, accepted[c][item]}
  BY <1>4 DEF IInv, TypeInv, TypeOK
<1>16. \A i \in DOMAIN more : ItemsOf(more[i]) \subseteq thread[t].items
  BY <1>2, <1>13 DEF ItemsOf
<1> QED
  BY <1>1, <1>3, <1>4, <1>12, <1>13, <1>14, <1>15, <1>16, UpgradeStepKeeps DEF Sending

LEMMA DoCompatibleProcessKeeps ==
    ASSUME IInv, NEW t \in Threads, DoCompatibleProcess(t)
    PROVE  IInv'
<1>1. Busy(t) /\ Effect(t).op = "compatible"
  BY DEF DoCompatibleProcess, Doing, Effect
<1>2. Items \subseteq thread[t].items /\ NeverUnset
  BY <1>1, HeadFits DEF ItemsOf, UpgradeFits
<1>3. UNCHANGED << environment, configuration, persistent, usersParam, flags, events, shown >>
  BY DEF DoCompatibleProcess
<1>4. UNCHANGED << param, firstInitialization, phase, isNeedDoCompatibleProcess >>
  BY <1>3 DEF persistent, flags
<1> DEFINE names == << "darkMode", "fontScale", "fontWeightScale" >>
           list(contexts) == [i \in 1 .. 3 |-> [op |-> "carry", item |-> names[i], contexts |-> contexts]]
           last == [op |-> "carried"]
<1>5. PICK contexts \in {Contexts, {}} :
         /\ IF contexts = {} THEN PassedOver ELSE UNCHANGED accepted
         /\ Continue(t, list(contexts) \o << last >>)
  BY DEF DoCompatibleProcess
<1>6. /\ \A i \in 1 .. 3 : names[i] \in Items
      /\ \A item \in Items : \E i \in 1 .. 3 : names[i] = item
  <2>1. 1 .. 3 = {1, 2, 3} /\ names[1] = "darkMode" /\ names[2] = "fontScale" /\ names[3] = "fontWeightScale"
    OBVIOUS
  <2> HIDE DEF names
  <2> QED
    BY <2>1 DEF Items
<1> HIDE DEF names
<1>7. PICK carries \in Seq(Effects) :
         /\ carries = list(contexts) /\ DOMAIN carries = 1 .. 3
         /\ \A i \in 1 .. 3 : carries[i].op = "carry" /\ carries[i].item = names[i] /\ carries[i].contexts = contexts
  <2>1. \A i \in 1 .. 3 : list(contexts)[i] \in [op : {"carry"}, item : Items, contexts : SUBSET Contexts]
    BY <1>6
  <2>2. list(contexts) \in [1 .. 3 -> Effects]
    BY <2>1 DEF Effects
  <2>3. 3 \in Nat
    OBVIOUS
  <2>4. list(contexts) \in Seq(Effects)
    BY <2>2, <2>3, SeqDef
  <2> QED
    BY <2>4
<1>8. last \in Effects /\ last.op = "carried"
  BY DEF Effects
<1> HIDE DEF list, last
<1>9. PICK more \in Seq(Effects) :
         /\ Continue(t, more)
         /\ \A i \in DOMAIN more :
               \/ i \in DOMAIN carries /\ more[i] = carries[i]
               \/ more[i] = last /\ \A j \in DOMAIN carries : carries[j] \in Before(more, i)
         /\ \A j \in DOMAIN carries : j \in DOMAIN more /\ more[j] = carries[j]
         /\ \E j \in DOMAIN more : more[j] = last
  <2> DEFINE all == carries \o << last >>
  <2>1. /\ all \in Seq(Effects)
        /\ \A i \in DOMAIN all :
              \/ i \in DOMAIN carries /\ all[i] = carries[i]
              \/ all[i] = last /\ \A j \in DOMAIN carries : carries[j] \in Before(all, i)
        /\ \A j \in DOMAIN carries : j \in DOMAIN all /\ all[j] = carries[j]
        /\ \E j \in DOMAIN all : all[j] = last
    <3>1. /\ all \in Seq(Effects)
          /\ \A i \in DOMAIN all :
                \/ i \in DOMAIN carries /\ all[i] = carries[i]
                \/ all[i] = last /\ \A j \in DOMAIN carries : carries[j] \in Before(all, i)
          /\ \A j \in DOMAIN carries : j \in DOMAIN all /\ all[j] = carries[j]
      BY <1>8, ListAndOne
    <3>2. \E j \in DOMAIN all : all[j] = last
      BY <1>8, ListAndOne
    <3> HIDE DEF all
    <3> QED
      BY <3>1, <3>2
  <2>2. Continue(t, all)
    BY <1>5, <1>7
  <2> HIDE DEF all
  <2> QED
    BY <2>1, <2>2
<1>10. Proceeds(t, more)
  BY <1>1, <1>9, ContinueProceeds DEF IInv
<1>11. \A i \in DOMAIN more : more[i].op \in {"carry", "carried"}
  BY <1>7, <1>8, <1>9
<1>12. /\ accepted' \in [Contexts -> [Items -> Values \cup {None}]]
       /\ \A c \in Contexts, item \in Items : accepted'[c][item] \in {None, accepted[c][item]}
       /\ contexts = {} => \A c \in Contexts, item \in Items : CarriedOver(c, item)'
  <2>1. accepted \in [Contexts -> [Items -> Values \cup {None}]]
    BY DEF IInv, TypeInv, TypeOK
  <2>2. \A c \in Contexts, item \in Items : NothingToCarry(c, item)' = NothingToCarry(c, item)
    BY <1>4 DEF NothingToCarry
  <2> QED
    BY <1>5, <2>1, <2>2, PassedOverAccounts DEF IInv, CarriedOver
<1>13. KeepsUpgrade(t, more)
  <2>1. NeverUnset'
    BY <1>2, <1>4, <1>12 DEF NeverUnset
  <2>2. ASSUME NEW i \in DOMAIN more PROVE UpgradeFits(more[i], Before(more, i))'
    <3>1. ASSUME more[i].op = "carried", NEW c \in Contexts, NEW item \in Items
          PROVE  CarriedOver(c, item)' \/ \E b \in Before(more, i) : Carries(b, c, item)
      <4>1. CASE contexts = {}
        BY <1>12, <4>1
      <4>2. CASE contexts = Contexts
        <5>1. PICK j \in 1 .. 3 : names[j] = item
          BY <1>6
        <5>2. Carries(carries[j], c, item)
          BY <1>7, <4>2, <5>1 DEF Carries
        <5>3. carries[j] \in Before(more, i)
          <6>1. ~(i \in DOMAIN carries /\ more[i] = carries[i])
            BY <1>7, <3>1
          <6> QED
            BY <1>7, <1>9, <6>1
        <5> QED
          BY <5>2, <5>3
      <4> QED
        BY <4>1, <4>2
    <3> QED
      BY <1>11, <2>1, <3>1 DEF UpgradeFits, Initializing
  <2>3. \E j \in DOMAIN more : more[j].op \in Upgrading
    BY <1>8, <1>9 DEF Upgrading
  <2>4. Upgraded => Upgraded'
    BY <1>4, <1>12 DEF Upgraded, CarriedOver, NothingToCarry
  <2>5. phase' # "published" /\ ~isNeedDoCompatibleProcess' => Upgraded'
    BY <1>4, <2>4 DEF IInv, UpgradeInv
  <2> QED
    BY <1>1, <1>4, <2>2, <2>3, <2>5 DEF KeepsUpgrade, Carries, Loads
<1>14. \A i \in DOMAIN more : ItemsOf(more[i]) \subseteq thread[t].items
  BY <1>2, <1>11 DEF ItemsOf
<1> QED
  BY <1>1, <1>3, <1>10, <1>11, <1>12, <1>13, <1>14, UpgradeStepKeeps DEF Sending

LEMMA DoInitProcessKeeps ==
    ASSUME IInv, NEW t \in Threads, DoInitProcess(t)
    PROVE  IInv'
<1>1. Busy(t) /\ Effect(t).op = "initialize"
  BY DEF DoInitProcess, Doing, Effect
<1>2. Items \subseteq thread[t].items /\ Upgraded
  BY <1>1, HeadFits DEF ItemsOf, UpgradeFits, Initializing
<1>3. UNCHANGED << environment, configuration, persistent, usersParam, flags, events, shown >>
  BY DEF DoInitProcess
<1>4. UNCHANGED << param, firstInitialization, phase, isNeedDoCompatibleProcess >>
  BY <1>3 DEF persistent, flags
<1> DEFINE last == [op |-> "initialized"]
<1>5. PICK contexts \in {Contexts, {}} :
         /\ IF contexts = {} THEN accepted' = [c \in Contexts |-> [item \in Items |-> None]]
                             ELSE UNCHANGED accepted
         /\ Continue(t, [i \in DOMAIN SetToSeq(contexts) |->
                            [op |-> "initContext", context |-> SetToSeq(contexts)[i]]] \o << last >>)
  BY DEF DoInitProcess, ForEach
<1> DEFINE f == [c \in contexts |-> [op |-> "initContext", context |-> c]]
           list == [i \in DOMAIN SetToSeq(contexts) |-> f[SetToSeq(contexts)[i]]]
<1>6. contexts \subseteq Contexts /\ IsFiniteSet(contexts)
  BY FS_EmptySet, AppearanceServiceAssumption
<1>7. \A i \in DOMAIN SetToSeq(contexts) : SetToSeq(contexts)[i] \in contexts
  <2>1. SetToSeq(contexts) \in Seq(contexts)
    BY <1>6, SeqOfSet
  <2> QED
    BY <2>1, LenProperties, ElementOfSeq
<1>8. Continue(t, list \o << last >>)
  <2>1. [i \in DOMAIN SetToSeq(contexts) |-> [op |-> "initContext", context |-> SetToSeq(contexts)[i]]] = list
    BY <1>7
  <2> QED
    BY <1>5, <2>1
<1>9. f \in [contexts -> Effects] /\ \A c \in contexts : f[c].op = "initContext" /\ f[c].context = c
  <2>1. \A c \in contexts : f[c] \in [op : {"initContext", "loaded", "spread"}, context : Contexts]
    BY <1>6
  <2>2. \A c \in contexts : f[c] \in Effects
    BY <2>1 DEF Effects
  <2> QED
    BY <2>2
<1>10. last \in Effects /\ last.op = "initialized"
  BY DEF Effects
<1> HIDE DEF f, last
<1>11. /\ list \in Seq(Effects)
       /\ \A i \in DOMAIN list : \E c \in contexts : list[i] = f[c]
       /\ \A c \in contexts : \E i \in DOMAIN list : list[i] = f[c]
  <2> HIDE DEF list
  <2> QED
    BY <1>6, <1>9, ListOf DEF list
<1> HIDE DEF list
<1>12. PICK more \in Seq(Effects) :
         /\ Continue(t, more)
         /\ \A i \in DOMAIN more :
               \/ i \in DOMAIN list /\ more[i] = list[i]
               \/ more[i] = last /\ \A j \in DOMAIN list : list[j] \in Before(more, i)
         /\ \A j \in DOMAIN list : j \in DOMAIN more /\ more[j] = list[j]
  <2> DEFINE all == list \o << last >>
  <2>1. /\ all \in Seq(Effects)
        /\ \A i \in DOMAIN all :
              \/ i \in DOMAIN list /\ all[i] = list[i]
              \/ all[i] = last /\ \A j \in DOMAIN list : list[j] \in Before(all, i)
        /\ \A j \in DOMAIN list : j \in DOMAIN all /\ all[j] = list[j]
    BY <1>10, <1>11, ListAndOne
  <2>2. Continue(t, all)
    BY <1>8
  <2> HIDE DEF all
  <2> QED
    BY <2>1, <2>2
<1>13. Proceeds(t, more)
  BY <1>1, <1>12, ContinueProceeds DEF IInv
<1>14. \A i \in DOMAIN more : more[i].op \in {"initContext", "initialized"}
  BY <1>9, <1>10, <1>11, <1>12
<1>15. /\ accepted' \in [Contexts -> [Items -> Values \cup {None}]]
       /\ \A c \in Contexts, item \in Items : accepted'[c][item] \in {None, accepted[c][item]}
       /\ contexts = {} => \A c \in Contexts, item \in Items : AcceptedInMemory(c, item)'
  BY <1>5 DEF IInv, TypeInv, TypeOK, AcceptedInMemory
<1>16. Upgraded'
  BY <1>2, <1>4, <1>15 DEF Upgraded, CarriedOver, NothingToCarry
<1>17. ASSUME NEW c \in Contexts
       PROVE  (\A item \in Items : AcceptedInMemory(c, item)')
              \/ \E j \in DOMAIN list : Loads(list[j], c)
  <2>1. CASE contexts = {}
    BY <1>15, <2>1
  <2>2. CASE contexts = Contexts
    BY <1>9, <1>11, <2>2 DEF Loads
  <2> QED
    BY <2>1, <2>2
<1>18. KeepsUpgrade(t, more)
  <2>1. ASSUME NEW i \in DOMAIN more PROVE UpgradeFits(more[i], Before(more, i))'
    <3>1. ASSUME more[i].op = "initialized", NEW c \in Contexts
          PROVE  (\A item \in Items : AcceptedInMemory(c, item)')
                 \/ \E b \in Before(more, i) : Loads(b, c)
      <4>1. ~(i \in DOMAIN list /\ more[i] = list[i])
        BY <1>9, <1>11, <3>1
      <4>2. \A j \in DOMAIN list : list[j] \in Before(more, i)
        BY <1>12, <4>1
      <4> QED
        BY <1>17, <4>2
    <3> QED
      BY <1>14, <1>16, <3>1 DEF UpgradeFits
  <2>2. \A c \in Contexts : (\A item \in Items : AcceptedInMemory(c, item)')
           \/ \E j \in DOMAIN more : Loads(more[j], c)
    BY <1>12, <1>17
  <2> QED
    BY <1>1, <1>4, <1>16, <2>1, <2>2 DEF KeepsUpgrade, Carries, Upgrading
<1>19. \A i \in DOMAIN more : ItemsOf(more[i]) \subseteq thread[t].items
  BY <1>2, <1>14 DEF ItemsOf
<1> QED
  BY <1>1, <1>3, <1>13, <1>14, <1>15, <1>18, <1>19, UpgradeStepKeeps DEF Sending

\* A step after which the other users in front, or one user, are to be configured.
LEMMA GetMultipleUsersKeeps ==
    ASSUME IInv, NEW t \in Threads, GetMultipleUsers(t)
    PROVE  IInv'
<1>1. PICK e \in Effects : e = Effect(t) /\ e.op = "spread" /\ Busy(t)
  BY HeadFits DEF GetMultipleUsers, Doing, Effect
<1>2. e.context \in Contexts /\ Items \subseteq thread[t].items
  BY <1>1, HeadFits, EffectFields DEF ItemsOf
<1>3. UNCHANGED << environment, configuration, persistent, usersParam, flags, events, faults, changes, history >>
  BY DEF GetMultipleUsers
<1> DEFINE S == active \ {USER100}
           f == [user \in S |-> [op |-> "apply", source |-> e.context, target |-> foreground[user]]]
           list == [i \in DOMAIN SetToSeq(S) |-> f[SetToSeq(S)[i]]]
<1>4. S \subseteq Users /\ IsFiniteSet(S) /\ \A user \in S : foreground[user] \in Contexts
  <2>1. S \subseteq Users /\ \A user \in S : foreground[user] \in Contexts
    BY DEF IInv, TypeInv, TypeOK
  <2> QED
    BY <2>1, FS_Subset, AppearanceServiceAssumption
<1>5. \A i \in DOMAIN SetToSeq(S) : SetToSeq(S)[i] \in S
  <2>1. SetToSeq(S) \in Seq(S)
    BY <1>4, SeqOfSet
  <2> QED
    BY <2>1, LenProperties, ElementOfSeq
<1>6. Continue(t, list)
  <2>1. Continue(t, [i \in DOMAIN SetToSeq(S) |->
           [op |-> "apply", source |-> e.context, target |-> foreground[SetToSeq(S)[i]]]])
    BY <1>1 DEF GetMultipleUsers, ForEach
  <2>2. [i \in DOMAIN SetToSeq(S) |->
           [op |-> "apply", source |-> e.context, target |-> foreground[SetToSeq(S)[i]]]] = list
    BY <1>5
  <2> QED
    BY <2>1, <2>2
<1>7. f \in [S -> Effects] /\ \A user \in S : f[user].op = "apply"
  <2>1. \A user \in S : f[user] \in [op : {"apply"}, source : Contexts, target : Contexts]
    BY <1>2, <1>4
  <2>2. \A user \in S : f[user] \in Effects
    BY <2>1 DEF Effects
  <2> QED
    BY <2>2
<1> HIDE DEF f, S
<1>8. PICK more \in Seq(Effects) : Continue(t, more) /\ \A i \in DOMAIN more : more[i].op = "apply"
  <2> HIDE DEF list
  <2>1. list \in Seq(Effects) /\ \A i \in DOMAIN list : \E user \in S : list[i] = f[user]
    BY <1>4, <1>7, ListOf DEF list
  <2> QED
    BY <1>6, <1>7, <2>1
<1>9. Proceeds(t, more)
  BY <1>1, <1>8, ContinueProceeds DEF IInv
<1>10. TypeOK'
  BY <1>3 DEF IInv, TypeInv, TypeOK, environment, persistent, flags, history
<1>11. /\ \A c \in Contexts : Entry(c)' = Entry(c)
       /\ UNCHANGED << environment, persistent, events, phase, isNeedDoCompatibleProcess,
                       isInitializationFinished, accepted, usersParam >>
  BY <1>3 DEF Entry, flags, history
<1>12. \A i \in DOMAIN more : ItemsOf(more[i]) \subseteq thread[t].items
  BY <1>2, <1>8 DEF ItemsOf
<1> QED
  BY <1>1, <1>8, <1>9, <1>10, <1>11, <1>12, PlainStepKeeps DEF Plain, Sending

LEMMA UpdateForegroundKeeps ==
    ASSUME IInv, NEW t \in Threads, UpdateForeground(t)
    PROVE  IInv'
<1>1. Busy(t) /\ Effect(t).op = "updateForeground"
  BY DEF UpdateForeground, Doing, Effect
<1>2. Items \subseteq thread[t].items
  BY <1>1, HeadFits DEF ItemsOf
<1>3. UNCHANGED << environment, configuration, persistent, usersParam, flags, events, changes, history >>
  BY DEF UpdateForeground
<1>4. PICK user \in Users :
         Continue(t, << [op |-> "update", context |-> foreground[user], force |-> FALSE] >>)
  BY AppearanceServiceAssumption DEF UpdateForeground, IInv, TypeInv, TypeOK
<1> DEFINE f == [op |-> "update", context |-> foreground[user], force |-> FALSE]
<1>5. f \in Effects /\ f.op = "update"
  <2>1. f \in [op : {"update"}, context : Contexts, force : BOOLEAN]
    BY DEF IInv, TypeInv, TypeOK
  <2> QED
    BY <2>1 DEF Effects
<1> HIDE DEF f
<1>6. PICK more \in Seq(Effects) : more = << f >> /\ DOMAIN more = {1} /\ more[1] = f
  <2>1. << f >> \in Seq(Effects) /\ DOMAIN << f >> = {1} /\ << f >>[1] = f
    BY <1>5, OneEffect
  <2> QED
    BY <2>1, Zenon
<1>7. Proceeds(t, more)
  BY <1>1, <1>4, <1>6, ContinueProceeds DEF IInv, f
<1>8. TypeOK'
  BY <1>3 DEF IInv, TypeInv, TypeOK, environment, persistent, flags, history
<1>9. /\ \A c \in Contexts : Entry(c)' = Entry(c)
      /\ UNCHANGED << environment, persistent, events, phase, isNeedDoCompatibleProcess,
                      isInitializationFinished, accepted, usersParam >>
  BY <1>3 DEF Entry, flags, history
<1>10. \A i \in DOMAIN more : more[i].op = "update" /\ ItemsOf(more[i]) \subseteq thread[t].items
  BY <1>2, <1>5, <1>6 DEF ItemsOf
<1> QED
  BY <1>1, <1>7, <1>8, <1>9, <1>10, PlainStepKeeps DEF Plain, Sending

\* The upgrade of one account writes a parameter where there is none.
LEMMA CarryToKeeps ==
    ASSUME IInv, NEW t \in Threads, CarryTo(t)
    PROVE  IInv'
<1>1. PICK e \in Effects : e = Effect(t) /\ e.op = "carryTo" /\ Busy(t)
  BY HeadFits DEF CarryTo, Doing, Effect
<1>2. /\ e.context \in Contexts /\ e.item \in Items /\ e.value \in Values /\ Items \subseteq thread[t].items
      /\ NeverUnset
      /\ CarriedOver(e.context, e.item) \/ e.value = OldParam(e.item)
  BY <1>1, HeadFits, EffectFields DEF ItemsOf, UpgradeFits
<1>3. Proceeds(t, << >>)
  BY <1>1, NoEffects, ContinueProceeds DEF CarryTo, IInv
<1>4. UNCHANGED << environment, configuration, baseParam, firstInitialization, usersParam, flags,
                   events, changes, shown >>
  BY DEF CarryTo
<1>5. /\ param \in [ParamContexts -> [Items -> Values \cup {Unset}]] /\ e.context \in ParamContexts
      /\ accepted \in [Contexts -> [Items -> Values \cup {None}]]
  BY <1>2 DEF IInv, TypeInv, TypeOK, ParamContexts
<1>6. /\ param' \in [ParamContexts -> [Items -> Values \cup {Unset}]]
      /\ accepted' \in [Contexts -> [Items -> Values \cup {None}]]
  <2>1. param' \in {param, [param EXCEPT ![e.context][e.item] = e.value]}
    BY <1>1 DEF CarryTo
  <2>2. accepted' \in {accepted, [accepted EXCEPT ![e.context][e.item] = None]}
    BY <1>1 DEF CarryTo
  <2>3. [param EXCEPT ![e.context][e.item] = e.value] \in [ParamContexts -> [Items -> Values \cup {Unset}]]
    BY <1>2, <1>5
  <2>4. [accepted EXCEPT ![e.context][e.item] = None] \in [Contexts -> [Items -> Values \cup {None}]]
    BY <1>2, <1>5
  <2> QED
    BY <1>5, <2>1, <2>2, <2>3, <2>4
<1>7. TypeOK'
  BY <1>4, <1>6 DEF IInv, TypeInv, TypeOK, environment, flags
<1>8. \A c \in Contexts : Entry(c)' = Entry(c)
  BY <1>4 DEF Entry
\* Other parameters and promises are the same; this one is set, or not promised.
<1>9. ASSUME NEW c \in ParamContexts, NEW item \in Items, c # e.context \/ item # e.item
      PROVE  /\ param'[c][item] = param[c][item]
             /\ c \in Contexts => accepted'[c][item] = accepted[c][item]
  <2>1. param' = param \/ param' = [param EXCEPT ![e.context][e.item] = e.value]
    BY <1>1 DEF CarryTo
  <2>2. accepted' = accepted \/ accepted' = [accepted EXCEPT ![e.context][e.item] = None]
    BY <1>1 DEF CarryTo
  <2>3. param'[c][item] = param[c][item]
    BY <1>2, <1>5, <1>9, <2>1
  <2>4. c \in Contexts => accepted'[c][item] = accepted[c][item]
    BY <1>2, <1>5, <1>9, <2>2
  <2> QED
    BY <2>3, <2>4
<1>10. \/ /\ param[e.context][e.item] # Unset /\ param'[e.context][e.item] = param[e.context][e.item]
          /\ accepted' = accepted
       \/ /\ param[e.context][e.item] = Unset /\ param'[e.context][e.item] = e.value
          /\ accepted' = accepted
       \/ /\ param[e.context][e.item] = Unset /\ param' = param
          /\ accepted'[e.context][e.item] = None
  <2>1. CASE param[e.context][e.item] # Unset /\ param' = param /\ accepted' = accepted
    BY <2>1
  <2>2. CASE /\ param[e.context][e.item] = Unset /\ accepted' = accepted
             /\ param' = [param EXCEPT ![e.context][e.item] = e.value]
    <3>1. param'[e.context][e.item] = e.value
      BY <1>2, <1>5, <2>2
    <3> QED
      BY <2>2, <3>1
  <2>3. CASE /\ param[e.context][e.item] = Unset /\ param' = param
             /\ accepted' = [accepted EXCEPT ![e.context][e.item] = None]
    <3>1. accepted'[e.context][e.item] = None
      BY <1>2, <1>5, <2>3
    <3> QED
      BY <2>3, <3>1
  <2> QED
    BY <1>1, <2>1, <2>2, <2>3 DEF CarryTo
<1>11. ASSUME NEW c \in Contexts, NEW item \in Items
       PROVE  /\ accepted'[c][item] \in {None, accepted[c][item]}
              /\ NothingToCarry(c, item) => NothingToCarry(c, item)'
              /\ OldParam(item)' = OldParam(item)
              /\ param[c][item] # Unset => param'[c][item] # Unset
  <2>1. c \in ParamContexts
    BY DEF ParamContexts
  <2>2. \A v \in Values : v # Unset
    BY DEF Values, Unset
  <2>3. CASE c # e.context \/ item # e.item
    BY <1>4, <1>9, <2>1, <2>3 DEF NothingToCarry, OldParam
  <2>4. CASE c = e.context /\ item = e.item
    BY <1>2, <1>4, <1>10, <2>2, <2>4 DEF NothingToCarry, OldParam
  <2> QED
    BY <2>3, <2>4
<1>12. ASSUME NEW c \in Contexts, NEW item \in Items
       PROVE  AcceptedInParam(c, item)'
  <2>1. AcceptedInParam(c, item) /\ c \in ParamContexts
    BY DEF IInv, AcceptedInv, ParamContexts
  <2>2. \A v \in Values : v # Unset
    BY DEF Values, Unset
  <2>3. CASE c = e.context /\ item = e.item
    <3>1. CASE accepted'[c][item] = None
      BY <3>1 DEF AcceptedInParam
    <3>2. CASE /\ param[c][item] # Unset /\ param'[c][item] = param[c][item] /\ accepted' = accepted
      <4>1. /\ NothingToCarry(c, item) /\ NothingToCarry(c, item)'
            /\ LoadContextParam(c, item)' = LoadContextParam(c, item)
        BY <3>2 DEF NothingToCarry, LoadContextParam
      <4> QED
        BY <2>1, <3>2, <4>1 DEF AcceptedInParam
    <3>3. CASE /\ param[c][item] = Unset /\ param'[c][item] = e.value /\ accepted' = accepted
               /\ accepted'[c][item] # None
      <4>1. NothingToCarry(c, item)' /\ LoadContextParam(c, item)' = e.value
        BY <1>2, <2>2, <3>3 DEF NothingToCarry, LoadContextParam
      <4>2. firstInitialization
        BY <1>2, <3>3 DEF NeverUnset
      <4>3. ~NothingToCarry(c, item) /\ ~CarriedOver(c, item)
        BY <3>3, <4>2 DEF NothingToCarry, CarriedOver
      <4>4. accepted[c][item] = OldParam(item) /\ e.value = OldParam(item)
        BY <1>2, <2>1, <2>3, <3>3, <4>3 DEF AcceptedInParam
      <4> QED
        BY <3>3, <4>1, <4>4 DEF AcceptedInParam
    <3> QED
      BY <1>10, <2>3, <3>1, <3>2, <3>3
  <2>4. CASE c # e.context \/ item # e.item
    <3>1. param'[c][item] = param[c][item] /\ accepted'[c][item] = accepted[c][item]
      BY <1>9, <2>1, <2>4
    <3>2. IsSubProfileContext(c) => param'[Base(c.userId)][item] = param[Base(c.userId)][item]
      <4>1. c.userId \in Users /\ Base(c.userId) \in ParamContexts
        BY AppearanceServiceAssumption DEF ParamContexts
      <4>2. CASE Base(c.userId) # e.context
        BY <1>9, <4>1, <4>2
      <4>3. CASE Base(c.userId) = e.context
        <5>1. c = Base(c.userId)
          BY <1>2, <4>3, AppearanceServiceAssumption
        <5>2. Base(c.userId).subProfileId = INVALID_SUB_PROFILE_ID
          BY DEF Base
        <5>3. c.subProfileId = INVALID_SUB_PROFILE_ID
          BY <5>1, <5>2
        <5> QED
          BY <5>3 DEF IsSubProfileContext
      <4> QED
        BY <4>2, <4>3
    <3>3. /\ LoadContextParam(c, item)' = LoadContextParam(c, item)
          /\ NothingToCarry(c, item)' = NothingToCarry(c, item)
          /\ OldParam(item)' = OldParam(item)
      BY <1>4, <3>1, <3>2 DEF LoadContextParam, NothingToCarry, OldParam
    <3> QED
      BY <2>1, <3>1, <3>3 DEF AcceptedInParam
  <2> QED
    BY <2>3, <2>4
<1>13. CarriedOver(e.context, e.item)'
  <2>1. \A v \in Values : v # Unset
    BY DEF Values, Unset
  <2> QED
    BY <1>2, <1>10, <2>1 DEF CarriedOver, NothingToCarry
<1>14. Calm(t)
  <2>1. ASSUME NEW c \in Contexts, NEW item \in Items
        PROVE  /\ item \in thread[t].items
               /\ AcceptedInMemory(c, item) => AcceptedInMemory(c, item)'
               /\ CarriedOver(c, item) => CarriedOver(c, item)'
    BY <1>2, <1>8, <1>11 DEF AcceptedInMemory, CarriedOver
  <2>2. NeverUnset'
    BY <1>2, <1>4, <1>11 DEF NeverUnset
  <2> QED
    BY <1>11, <1>12, <2>1, <2>2 DEF Calm
<1>15. KeepsPromises(t, << >>)
  BY <1>1, <1>11, NoEffects DEF KeepsPromises, Sending
<1>16. KeepsUpgrade(t, << >>)
  <2>1. \A c \in Contexts, item \in Items : Carries(e, c, item) => CarriedOver(c, item)'
    BY <1>1, <1>13 DEF Carries
  <2>2. phase' # "published" /\ ~isNeedDoCompatibleProcess' => Upgraded'
    BY <1>4, <1>14 DEF IInv, UpgradeInv, Calm, Upgraded, flags
  <2>3. isNeedDoCompatibleProcess' = isNeedDoCompatibleProcess
    BY <1>4 DEF flags
  <2> QED
    BY <1>1, <2>1, <2>2, <2>3, NoEffects DEF KeepsUpgrade, Loads, Upgrading
<1>17. UNCHANGED << environment, events, phase, isInitializationFinished, usersParam >>
  BY <1>4 DEF flags
<1> QED
  BY <1>3, <1>7, <1>14, <1>15, <1>16, <1>17, NoEffects, StepKeeps

\* The upgrade is over: every account with a promise has a parameter.
LEMMA CarriedKeeps ==
    ASSUME IInv, NEW t \in Threads, Carried(t)
    PROVE  IInv'
<1>1. Busy(t) /\ Effect(t).op = "carried"
  BY DEF Carried, Doing, Effect
<1>2. Upgraded /\ NeverUnset
  BY <1>1, HeadFits DEF UpgradeFits, Upgraded
<1>3. Proceeds(t, << >>)
  BY <1>1, NoEffects, ContinueProceeds DEF Carried, IInv
<1>4. /\ UNCHANGED << environment, configuration, param, baseParam, usersParam, isInitializationFinished,
                      onceFlag, appMgr, phase, events, changes, history >>
      /\ isNeedDoCompatibleProcess' = FALSE
      /\ firstInitialization' = FALSE \/ firstInitialization' = firstInitialization
  BY DEF Carried
<1>5. TypeOK'
  BY <1>4 DEF IInv, TypeInv, TypeOK, environment, history
<1>6. \A c \in Contexts : Entry(c)' = Entry(c)
  BY <1>4 DEF Entry
<1>7. ASSUME NEW c \in Contexts, NEW item \in Items, accepted[c][item] # None
      PROVE  param[c][item] # Unset
  BY <1>2, <1>4, <1>7 DEF Upgraded, CarriedOver, NothingToCarry, NeverUnset
<1>8. ASSUME NEW c \in Contexts, NEW item \in Items
      PROVE  /\ accepted'[c][item] = accepted[c][item]
             /\ accepted[c][item] # None => NothingToCarry(c, item) /\ NothingToCarry(c, item)'
             /\ OldParam(item)' = OldParam(item)
             /\ LoadContextParam(c, item)' = LoadContextParam(c, item)
  BY <1>2, <1>4, <1>7 DEF Upgraded, CarriedOver, NothingToCarry, OldParam, LoadContextParam, history
<1>9. ASSUME NEW c \in Contexts, NEW item \in Items
      PROVE  AcceptedInParam(c, item)'
  <2>1. AcceptedInParam(c, item)
    BY DEF IInv, AcceptedInv
  <2> QED
    BY <1>8, <2>1 DEF AcceptedInParam
<1>10. NeverUnset'
  <2>1. accepted' = accepted /\ param' = param
    BY <1>4 DEF history
  <2>2. \A c \in Contexts, item \in Items : accepted[c][item] # None => param[c][item] # Unset \/ ~firstInitialization
    BY <1>2 DEF Upgraded, CarriedOver, NothingToCarry
  <2> QED
    BY <1>2, <2>1, <2>2 DEF NeverUnset
<1>11. Calm(t)
  BY <1>4, <1>6, <1>8, <1>9, <1>10 DEF Calm, AcceptedInMemory, CarriedOver
<1>12. KeepsPromises(t, << >>)
  BY <1>1, <1>8, NoEffects DEF KeepsPromises, Sending
<1>13. KeepsUpgrade(t, << >>)
  <2>1. Upgraded' /\ ~isNeedDoCompatibleProcess'
    BY <1>4, <1>8 DEF Upgraded, CarriedOver
  <2> QED
    BY <1>1, <2>1, NoEffects DEF KeepsUpgrade, Carries, Loads
<1>14. UNCHANGED << environment, events, phase, isInitializationFinished, usersParam >>
  BY <1>4
<1> QED
  BY <1>3, <1>5, <1>11, <1>12, <1>13, <1>14, NoEffects, StepKeeps

LEMMA PartialFields ==
    ASSUME NEW values \in PartialParams
    PROVE  DOMAIN values \subseteq Items /\ \A item \in DOMAIN values : values[item] \in Values
BY DEF PartialParams

LEMMA UpdatedFields ==
    ASSUME NEW old, NEW values, NEW items
    PROVE  \A item \in Items :
              Updated(old, values, items)[item] = IF item \in items THEN values[item] ELSE old[item]
BY DEF Updated

LEMMA UpdatedType ==
    ASSUME NEW V, NEW old \in [Items -> V], NEW values, NEW items, \A item \in items : values[item] \in V
    PROVE  Updated(old, values, items) \in [Items -> V]
BY DEF Updated

\* The device's parameters change: whoever is still to be given the old version's
\* has no promise.
LEMMA SetBaseParamKeeps ==
    ASSUME IInv, NEW t \in Threads, SetBaseParam(t)
    PROVE  IInv'
<1>1. PICK e \in Effects : e = Effect(t) /\ e.op = "base" /\ Busy(t)
  BY HeadFits DEF SetBaseParam, Doing, Effect
<1>2. /\ e.values \in PartialParams /\ DOMAIN e.values \subseteq Items
      /\ \A item \in DOMAIN e.values : e.values[item] \in Values
  <2>1. e.values \in PartialParams
    BY <1>1, EffectFields
  <2> QED
    BY <2>1, PartialFields
<1>3. Proceeds(t, << >>)
  BY <1>1, NoEffects, ContinueProceeds DEF SetBaseParam, IInv
<1>4. UNCHANGED << environment, configuration, param, firstInitialization, usersParam, flags,
                   events, changes, shown >>
  BY DEF SetBaseParam
<1>5. PICK items \in SUBSET DOMAIN e.values : baseParam' = Updated(baseParam, e.values, items)
  BY <1>1 DEF SetBaseParam
<1>6. baseParam' \in [Items -> Values]
  <2>1. baseParam \in [Items -> Values] /\ \A item \in items : e.values[item] \in Values
    BY <1>2 DEF IInv, TypeInv, TypeOK
  <2> QED
    BY <1>5, <2>1, UpdatedType
<1>7. \A item \in Items \ DOMAIN e.values : baseParam'[item] = baseParam[item]
  BY <1>5, UpdatedFields
<1>8. accepted' = [c \in Contexts |-> [item \in Items |->
                     IF item \in DOMAIN e.values /\ ~NothingToCarry(c, item) THEN None ELSE accepted[c][item]]]
  BY <1>1 DEF SetBaseParam
<1>9. /\ accepted' \in [Contexts -> [Items -> Values \cup {None}]]
      /\ \A c \in Contexts, item \in Items :
            /\ accepted'[c][item] \in {None, accepted[c][item]}
            /\ item \in DOMAIN e.values /\ accepted'[c][item] # None => NothingToCarry(c, item)
  BY <1>8 DEF IInv, TypeInv, TypeOK
<1>10. TypeOK'
  BY <1>4, <1>6, <1>9 DEF IInv, TypeInv, TypeOK, environment, flags
<1>11. \A c \in Contexts : Entry(c)' = Entry(c)
  BY <1>4 DEF Entry
<1>12. ASSUME NEW c \in Contexts, NEW item \in Items
       PROVE  /\ NothingToCarry(c, item)' = NothingToCarry(c, item)
              /\ LoadContextParam(c, item)' = LoadContextParam(c, item)
              /\ item \notin DOMAIN e.values => OldParam(item)' = OldParam(item)
  BY <1>4, <1>7 DEF NothingToCarry, LoadContextParam, OldParam
<1>13. ASSUME NEW c \in Contexts, NEW item \in Items
       PROVE  /\ AcceptedInParam(c, item)'
              /\ CarriedOver(c, item) => CarriedOver(c, item)'
              /\ CarriedOver(c, item)' \/ OldParam(item)' = OldParam(item)
              /\ AcceptedInMemory(c, item) => AcceptedInMemory(c, item)'
  <2>1. AcceptedInParam(c, item)
    BY DEF IInv, AcceptedInv
  <2>2. accepted'[c][item] = None \/ accepted'[c][item] = accepted[c][item]
    BY <1>9
  <2>3. item \in DOMAIN e.values /\ accepted'[c][item] # None => NothingToCarry(c, item)
    BY <1>9
  <2> QED
    BY <1>11, <1>12, <2>1, <2>2, <2>3 DEF AcceptedInParam, CarriedOver, AcceptedInMemory
<1>14. Calm(t)
  <2>1. NeverUnset => NeverUnset'
    BY <1>4, <1>9 DEF NeverUnset
  <2> QED
    BY <1>4, <1>9, <1>11, <1>13, <2>1 DEF Calm
<1>15. KeepsPromises(t, << >>)
  BY <1>1, <1>4, <1>9, <1>11, NoEffects DEF KeepsPromises, Sending
<1>16. KeepsUpgrade(t, << >>)
  <2>1. phase' # "published" /\ ~isNeedDoCompatibleProcess' => Upgraded'
    BY <1>4, <1>13 DEF IInv, UpgradeInv, Upgraded, flags
  <2>2. isNeedDoCompatibleProcess' = isNeedDoCompatibleProcess
    BY <1>4 DEF flags
  <2> QED
    BY <1>1, <2>1, <2>2, NoEffects DEF KeepsUpgrade, Carries, Loads, Upgrading
<1>17. UNCHANGED << environment, events, phase, isInitializationFinished, usersParam >>
  BY <1>4 DEF flags
<1> QED
  BY <1>3, <1>10, <1>14, <1>15, <1>16, <1>17, NoEffects, StepKeeps

\* What an account loads changes only with its own parameters: no other account
\* of its user is one that it falls back on.
LEMMA LoadKept ==
    ASSUME NEW c \in Contexts, NEW written \in Contexts, NEW item,
           \A d \in ParamContexts : d # written => param'[d] = param[d],
           c = written => param'[c][item] = param[c][item]
    PROVE  LoadContextParam(c, item)' = LoadContextParam(c, item)
<1>1. c.userId \in Users /\ c \in ParamContexts /\ Base(c.userId) \in ParamContexts
  BY AppearanceServiceAssumption DEF ParamContexts
<1>2. param'[c][item] = param[c][item]
  BY <1>1
<1>3. IsSubProfileContext(c) => param'[Base(c.userId)][item] = param[Base(c.userId)][item]
  <2>1. CASE Base(c.userId) # written
    BY <1>1, <2>1
  <2>2. CASE Base(c.userId) = written
    <3>1. c = Base(c.userId)
      BY <2>2, AppearanceServiceAssumption
    <3>2. Base(c.userId).subProfileId = INVALID_SUB_PROFILE_ID
      BY DEF Base
    <3>3. c.subProfileId = INVALID_SUB_PROFILE_ID
      BY <3>1, <3>2
    <3> QED
      BY <3>3 DEF IsSubProfileContext
  <2> QED
    BY <2>1, <2>2
<1> QED
  BY <1>2, <1>3 DEF LoadContextParam

\* The writing of parameters that were not promised yet, of which one may fail.
LEMMA SetContextParamKeeps ==
    ASSUME IInv, NEW t \in Threads, SetContextParam(t)
    PROVE  IInv'
<1>1. PICK e \in Effects : e = Effect(t) /\ e.op = "param" /\ Busy(t)
  BY HeadFits DEF SetContextParam, Doing, Effect
<1>2. /\ e.context \in Contexts /\ e.context \in ParamContexts /\ e.must \in BOOLEAN
      /\ DOMAIN e.values \subseteq Items /\ DOMAIN e.values \subseteq thread[t].items
      /\ \A item \in DOMAIN e.values : e.values[item] \in Values /\ accepted[e.context][item] = None
  <2>1. e.context \in Contexts /\ e.values \in PartialParams /\ e.must \in BOOLEAN
    BY <1>1, EffectFields
  <2>2. DOMAIN e.values \subseteq thread[t].items /\ PromiseFits(e, {}, thread[t].inDoubt)
    BY <1>1, HeadFits DEF ItemsOf
  <2> QED
    BY <1>1, <2>1, <2>2, PartialFields DEF PromiseFits, ParamContexts
<1>3. UNCHANGED << environment, configuration, baseParam, firstInitialization, usersParam, flags,
                   events, changes >>
  BY DEF SetContextParam
<1>4. PICK items \in SUBSET DOMAIN e.values :
         param' = [param EXCEPT ![e.context] = Updated(param[e.context], e.values, items)]
  BY <1>1 DEF SetContextParam
<1>5. param \in [ParamContexts -> [Items -> Values \cup {Unset}]]
      /\ accepted \in [Contexts -> [Items -> Values \cup {None}]]
  BY DEF IInv, TypeInv, TypeOK
<1>6. /\ accepted' = accepted \/ \E failed \in DOMAIN e.values :
                                    accepted' = [accepted EXCEPT ![e.context][failed] = None]
      /\ shown' = shown \/ shown' = InDoubt
  BY <1>1 DEF SetContextParam, history
<1>7. /\ accepted' \in [Contexts -> [Items -> Values \cup {None}]]
      /\ \A c \in Contexts, item \in Items : accepted'[c][item] = accepted[c][item]
  <2>1. CASE accepted' = accepted
    BY <1>5, <2>1
  <2>2. ASSUME NEW failed \in DOMAIN e.values, accepted' = [accepted EXCEPT ![e.context][failed] = None]
        PROVE  /\ accepted' \in [Contexts -> [Items -> Values \cup {None}]]
               /\ \A c \in Contexts, item \in Items : accepted'[c][item] = accepted[c][item]
    BY <1>2, <1>5, <2>2
  <2> QED
    BY <1>6, <2>1, <2>2
<1>8. /\ param' \in [ParamContexts -> [Items -> Values \cup {Unset}]]
      /\ \A c \in ParamContexts : c # e.context => param'[c] = param[c]
      /\ param'[e.context] = Updated(param[e.context], e.values, items)
  <2>1. Updated(param[e.context], e.values, items) \in [Items -> Values \cup {Unset}]
    <3>1. param[e.context] \in [Items -> Values \cup {Unset}] /\ \A item \in items : e.values[item] \in Values \cup {Unset}
      BY <1>2, <1>5
    <3> QED
      BY <3>1, UpdatedType
  <2> QED
    BY <1>2, <1>4, <1>5, <2>1
<1>9. \A item \in Items : param'[e.context][item] = IF item \in items THEN e.values[item] ELSE param[e.context][item]
  BY <1>8, UpdatedFields
<1>10. \A v \in Values : v # Unset
  BY DEF Values, Unset
<1>11. TypeOK'
  BY <1>3, <1>6, <1>7, <1>8 DEF IInv, TypeInv, TypeOK, InDoubt, environment, flags
<1>12. \A c \in Contexts : Entry(c)' = Entry(c)
  BY <1>3 DEF Entry
<1>13. ASSUME NEW c \in Contexts, NEW item \in Items
       PROVE  /\ item \notin thread[t].items => param'[c][item] = param[c][item]
              /\ param[c][item] # Unset => param'[c][item] # Unset
              /\ accepted[c][item] # None =>
                    param'[c][item] = param[c][item] /\ LoadContextParam(c, item)' = LoadContextParam(c, item)
  <2>1. c \in ParamContexts
    BY DEF ParamContexts
  <2>2. accepted[c][item] # None => c # e.context \/ item \notin items
    BY <1>2
  <2>3. accepted[c][item] # None => param'[c][item] = param[c][item]
    BY <1>8, <1>9, <2>1, <2>2
  <2>4. c = e.context /\ accepted[c][item] # None => param'[c][item] = param[c][item]
    BY <2>3
  <2>5. accepted[c][item] # None => LoadContextParam(c, item)' = LoadContextParam(c, item)
    BY <1>2, <1>8, <2>4, LoadKept
  <2>6. item \notin thread[t].items => param'[c][item] = param[c][item]
    BY <1>2, <1>8, <1>9, <2>1
  <2>7. param[c][item] # Unset => param'[c][item] # Unset
    BY <1>2, <1>8, <1>9, <1>10, <2>1
  <2> QED
    BY <2>3, <2>5, <2>6, <2>7
<1>14. ASSUME NEW c \in Contexts, NEW item \in Items
       PROVE  /\ AcceptedInParam(c, item)' /\ OldParam(item)' = OldParam(item)
              /\ CarriedOver(c, item) => CarriedOver(c, item)'
              /\ AcceptedInMemory(c, item) => AcceptedInMemory(c, item)'
  <2>1. AcceptedInParam(c, item) /\ accepted'[c][item] = accepted[c][item]
    BY <1>7 DEF IInv, AcceptedInv
  <2>2. accepted[c][item] # None => NothingToCarry(c, item)' = NothingToCarry(c, item)
    BY <1>3, <1>13 DEF NothingToCarry
  <2>3. OldParam(item)' = OldParam(item)
    BY <1>3 DEF OldParam
  <2> QED
    BY <1>12, <1>13, <2>1, <2>2, <2>3 DEF AcceptedInParam, CarriedOver, AcceptedInMemory
<1>15. Calm(t)
  <2>1. NeverUnset => NeverUnset'
    BY <1>3, <1>7, <1>13 DEF NeverUnset
  <2> QED
    BY <1>7, <1>12, <1>13, <1>14, <2>1 DEF Calm
<1>16. /\ Proceeds(t, << >>)
       /\ \/ thread'[t].inDoubt \/ thread'[t] = Idle
          \/ \A item \in DOMAIN e.values : param'[e.context][item] = e.values[item]
  <2>1. CASE /\ param' = [param EXCEPT ![e.context] = Updated(@, e.values, DOMAIN e.values)]
             /\ Continue(t, << >>)
    <3>1. Proceeds(t, << >>)
      BY <1>1, <2>1, NoEffects, ContinueProceeds DEF IInv
    <3>2. param'[e.context] = Updated(param[e.context], e.values, DOMAIN e.values)
      BY <1>2, <1>5, <2>1
    <3>3. \A item \in DOMAIN e.values : param'[e.context][item] = e.values[item]
      BY <1>2, <3>2, UpdatedFields
    <3> QED
      BY <3>1, <3>3
  <2>2. CASE Return(t)
    BY <1>1, <2>2, ReturnProceeds DEF IInv
  <2>3. CASE thread' = [thread EXCEPT ![t] = [todo |-> Tail(@.todo), items |-> @.items, inDoubt |-> TRUE]]
    <3>1. /\ thread \in [Threads -> Handlers] /\ thread[t] \in Handlers /\ thread[t].todo \in Seq(Effects)
          /\ thread[t].todo # << >>
      BY <1>1, EffectType DEF IInv, TypeInv, Busy
    <3>2. Tail(thread[t].todo) \in Seq(Effects) /\ << >> \o Tail(thread[t].todo) = Tail(thread[t].todo)
      BY <3>1, HeadTailProperties, ConcatEmptySeq
    <3> DEFINE h == [todo |-> Tail(thread[t].todo), items |-> thread[t].items, inDoubt |-> TRUE]
    <3>3. thread' = [thread EXCEPT ![t] = h]
      BY <2>3
    <3>4. h \in Handlers /\ h.todo = Tail(thread[t].todo) /\ h.items = thread[t].items /\ h.inDoubt
      BY <3>1, <3>2 DEF Handlers
    <3> HIDE DEF h
    <3>5. thread' \in [Threads -> Handlers] /\ thread'[t] = h /\ \A u \in Threads : u # t => thread'[u] = thread[u]
      BY <3>1, <3>3, <3>4
    <3> QED
      BY <1>1, <3>2, <3>4, <3>5 DEF Proceeds
  <2> QED
    BY <1>1, <2>1, <2>2, <2>3 DEF SetContextParam
<1>17. KeepsPromises(t, << >>)
  <2>1. \A c \in Contexts, item \in Items : accepted'[c][item] \in {None, accepted[c][item]}
    BY <1>7
  <2> QED
    BY <1>1, <1>12, <1>16, <2>1, NoEffects DEF KeepsPromises, Sending
<1>18. KeepsUpgrade(t, << >>)
  <2>1. phase' # "published" /\ ~isNeedDoCompatibleProcess' => Upgraded'
    BY <1>3, <1>14 DEF IInv, UpgradeInv, Upgraded, flags
  <2>2. isNeedDoCompatibleProcess' = isNeedDoCompatibleProcess
    BY <1>3 DEF flags
  <2> QED
    BY <1>1, <2>1, <2>2, NoEffects DEF KeepsUpgrade, Carries, Loads, Upgrading
<1>19. UNCHANGED << environment, events, phase, isInitializationFinished, usersParam >>
  BY <1>3 DEF flags
<1> QED
  BY <1>11, <1>15, <1>16, <1>17, <1>18, <1>19, NoEffects, StepKeeps

\* The caller is told: what is promised is in memory and in the parameter, unless
\* another handler dealt with the item.
LEMMA PromiseKeeps ==
    ASSUME IInv, NEW t \in Threads, Promise(t)
    PROVE  IInv'
<1>1. PICK e \in Effects : e = Effect(t) /\ e.op = "promise" /\ Busy(t)
  BY HeadFits DEF Promise, Doing, Effect
<1>2. /\ e.context \in Contexts /\ DOMAIN e.values \subseteq Items /\ DOMAIN e.values \subseteq thread[t].items
      /\ \A item \in DOMAIN e.values :
            /\ e.values[item] \in Values
            /\ ~thread[t].inDoubt =>
                  Entry(e.context)[item] = e.values[item] /\ param[e.context][item] = e.values[item]
  <2>1. e.context \in Contexts /\ e.values \in PartialParams
    BY <1>1, EffectFields
  <2>2. DOMAIN e.values \subseteq thread[t].items /\ PromiseFits(e, {}, thread[t].inDoubt)
    BY <1>1, HeadFits DEF ItemsOf
  <2> QED
    BY <1>1, <2>1, <2>2, PartialFields DEF PromiseFits
<1>3. Proceeds(t, << >>)
  BY <1>1, NoEffects, ContinueProceeds DEF Promise, IInv
<1>4. UNCHANGED << environment, configuration, persistent, usersParam, flags, events, faults, changes, shown >>
  BY DEF Promise
<1>5. accepted \in [Contexts -> [Items -> Values \cup {None}]]
  BY DEF IInv, TypeInv, TypeOK
<1> DEFINE told == [item \in Items |->
                       IF item \notin DOMAIN e.values THEN accepted[e.context][item]
                       ELSE IF thread[t].inDoubt THEN None ELSE e.values[item]]
<1>6. accepted' = [accepted EXCEPT ![e.context] = told]
  BY <1>1 DEF Promise
<1>7. told \in [Items -> Values \cup {None}]
  BY <1>2, <1>5
<1>8. \A item \in Items : told[item] = IF item \notin DOMAIN e.values THEN accepted[e.context][item]
                                       ELSE IF thread[t].inDoubt THEN None ELSE e.values[item]
  OBVIOUS
<1> HIDE DEF told
<1>9. /\ accepted' \in [Contexts -> [Items -> Values \cup {None}]]
      /\ accepted'[e.context] = told
      /\ \A c \in Contexts : c # e.context => accepted'[c] = accepted[c]
  BY <1>2, <1>5, <1>6, <1>7
<1>10. TypeOK'
  BY <1>4, <1>9 DEF IInv, TypeInv, TypeOK, environment, persistent, flags
<1>11. /\ \A c \in Contexts : Entry(c)' = Entry(c)
       /\ \A c \in Contexts, item \in Items :
             /\ NothingToCarry(c, item)' = NothingToCarry(c, item)
             /\ LoadContextParam(c, item)' = LoadContextParam(c, item)
             /\ OldParam(item)' = OldParam(item) /\ param'[c][item] = param[c][item]
  BY <1>4 DEF Entry, NothingToCarry, LoadContextParam, OldParam, persistent
<1>12. ASSUME NEW c \in Contexts, NEW item \in Items
       PROVE  \/ accepted'[c][item] \in {None, accepted[c][item]}
              \/ /\ item \in thread[t].items /\ ~thread[t].inDoubt
                 /\ accepted'[c][item] # Unset
                 /\ Entry(c)[item] = accepted'[c][item] /\ param[c][item] = accepted'[c][item]
  <2>1. \A v \in Values : v # Unset
    BY DEF Values, Unset
  <2> QED
    BY <1>2, <1>8, <1>9, <2>1
<1>13. ASSUME NEW c \in Contexts, NEW item \in Items
       PROVE  /\ AcceptedInParam(c, item)'
              /\ CarriedOver(c, item) => CarriedOver(c, item)'
              /\ AcceptedInMemory(c, item) => AcceptedInMemory(c, item)'
              /\ accepted'[c][item] \in {None, accepted[c][item]} \/ param'[c][item] # Unset
  <2>1. CASE accepted'[c][item] = None
    BY <2>1 DEF AcceptedInParam, CarriedOver, AcceptedInMemory
  <2>2. CASE accepted'[c][item] = accepted[c][item]
    <3>1. AcceptedInParam(c, item)
      BY DEF IInv, AcceptedInv
    <3> QED
      BY <1>11, <2>2, <3>1 DEF AcceptedInParam, CarriedOver, AcceptedInMemory
  <2>3. CASE /\ accepted'[c][item] # Unset
             /\ Entry(c)[item] = accepted'[c][item] /\ param[c][item] = accepted'[c][item]
    <3>1. NothingToCarry(c, item) /\ LoadContextParam(c, item) = accepted'[c][item]
      BY <2>3 DEF NothingToCarry, LoadContextParam
    <3> QED
      BY <1>11, <2>3, <3>1 DEF AcceptedInParam, CarriedOver, AcceptedInMemory
  <2> QED
    BY <1>12, <2>1, <2>2, <2>3
<1>14. Calm(t)
  <2>1. NeverUnset => NeverUnset'
    <3>1. firstInitialization' = firstInitialization
      BY <1>4 DEF persistent
    <3> QED
      BY <1>11, <1>13, <3>1 DEF NeverUnset
  <2> QED
    BY <1>11, <1>12, <1>13, <2>1 DEF Calm
<1>15. KeepsPromises(t, << >>)
  BY <1>1, NoEffects DEF KeepsPromises, Sending
<1>16. KeepsUpgrade(t, << >>)
  <2>1. phase' # "published" /\ ~isNeedDoCompatibleProcess' => Upgraded'
    BY <1>4, <1>13 DEF IInv, UpgradeInv, Upgraded, flags
  <2>2. isNeedDoCompatibleProcess' = isNeedDoCompatibleProcess
    BY <1>4 DEF flags
  <2> QED
    BY <1>1, <2>1, <2>2, NoEffects DEF KeepsUpgrade, Carries, Loads, Upgrading
<1>17. UNCHANGED << environment, events, phase, isInitializationFinished, usersParam >>
  BY <1>4 DEF flags
<1> QED
  BY <1>3, <1>10, <1>14, <1>15, <1>16, <1>17, NoEffects, StepKeeps

\* A step that writes the memory of one account, and withdraws what it changes.
LEMMA CalmIfWithdrawn ==
    ASSUME IInv, NEW t \in Threads, NEW context \in Contexts, NEW entry, EntrySet(context, entry),
           UNCHANGED persistent,
           \A c \in Contexts, item \in Items : accepted'[c][item] \in {None, accepted[c][item]},
           \A item \in Items :
              \/ entry[item] = Entry(context)[item]
              \/ accepted'[context][item] = None /\ item \in thread[t].items
    PROVE  Calm(t)
<1>1. \A c \in Contexts : Entry(c)' = IF c = context THEN entry ELSE Entry(c)
  BY EntryAfter
<1>2. UNCHANGED << param, baseParam, firstInitialization >>
  BY DEF persistent
<1>3. ASSUME NEW c \in Contexts, NEW item \in Items
      PROVE  /\ item \notin thread[t].items =>
                   (Entry(c)[item])' = Entry(c)[item] /\ param'[c][item] = param[c][item]
             /\ AcceptedInParam(c, item)'
             /\ AcceptedInMemory(c, item) => AcceptedInMemory(c, item)'
             /\ CarriedOver(c, item) => CarriedOver(c, item)'
             /\ OldParam(item)' = OldParam(item)
  <2>1. accepted'[c][item] = None \/ accepted'[c][item] = accepted[c][item]
    OBVIOUS
  <2>2. /\ LoadContextParam(c, item)' = LoadContextParam(c, item) /\ OldParam(item)' = OldParam(item)
        /\ NothingToCarry(c, item)' = NothingToCarry(c, item)
    BY <1>2 DEF LoadContextParam, OldParam, NothingToCarry
  <2>3. \/ (Entry(c)[item])' = Entry(c)[item]
        \/ accepted'[c][item] = None /\ item \in thread[t].items
    BY <1>1
  <2>4. AcceptedInParam(c, item)
    BY DEF IInv, AcceptedInv
  <2> QED
    BY <1>2, <2>1, <2>2, <2>3, <2>4 DEF AcceptedInParam, AcceptedInMemory, CarriedOver
<1>4. NeverUnset => NeverUnset'
  BY <1>2 DEF NeverUnset
<1> QED
  BY <1>3, <1>4 DEF Calm

LEMMA WithdrawnPromises ==
    ASSUME TypeInv, NEW context \in Contexts, NEW items, accepted' = Withdrawn(context, items)
    PROVE  /\ accepted' \in [Contexts -> [Items -> Values \cup {None}]]
           /\ \A c \in Contexts, item \in Items : accepted'[c][item] \in {None, accepted[c][item]}
           /\ \A item \in Items : item \in items => accepted'[context][item] = None
<1> DEFINE row == [item \in Items |-> IF item \in items THEN None ELSE accepted[context][item]]
<1>1. accepted \in [Contexts -> [Items -> Values \cup {None}]]
  BY DEF TypeInv, TypeOK
<1>2. accepted' = [accepted EXCEPT ![context] = row]
  BY DEF Withdrawn
<1>3. /\ row \in [Items -> Values \cup {None}]
      /\ \A item \in Items : row[item] = IF item \in items THEN None ELSE accepted[context][item]
  BY <1>1
<1> HIDE DEF row
<1>4. /\ accepted' \in [Contexts -> [Items -> Values \cup {None}]]
      /\ accepted'[context] = row /\ \A c \in Contexts : c # context => accepted'[c] = accepted[c]
  BY <1>1, <1>2, <1>3
<1> QED
  BY <1>3, <1>4

\* The list of a handler that will write a parameter and promise it.
LEMMA ConfigurePersistenceKeeps ==
    ASSUME IInv, NEW t \in Threads, ConfigurePersistence(t)
    PROVE  IInv'
<1>1. PICK e \in Effects : e = Effect(t) /\ e.op = "persist" /\ Busy(t)
  BY HeadFits DEF ConfigurePersistence, Doing, Effect
<1>2. /\ e.values \in PartialParams /\ DOMAIN e.values \subseteq Items /\ e.must \in BOOLEAN
      /\ DOMAIN e.values \subseteq thread[t].items
      /\ \A item \in DOMAIN e.values : e.values[item] \in Values
  <2>1. e.values \in PartialParams /\ e.must \in BOOLEAN
    BY <1>1, EffectFields
  <2>2. DOMAIN e.values \subseteq thread[t].items
    BY <1>1, HeadFits DEF ItemsOf
  <2> QED
    BY <2>1, <2>2, PartialFields
<1>3. PICK context : context = IF "user" \in DOMAIN e THEN foreground[e.user] ELSE e.context
  OBVIOUS
<1>4. context \in Contexts
  <2>1. IF "user" \in DOMAIN e THEN e.user \in Users ELSE e.context \in Contexts
    BY <1>1, EffectFields
  <2> QED
    BY <1>3, <2>1 DEF IInv, TypeInv, TypeOK
<1>5. PICK entry : entry = Updated(Entry(context), e.values, DOMAIN e.values)
  OBVIOUS
<1>6. /\ entry \in [Items -> Values]
      /\ \A item \in Items : entry[item] = IF item \in DOMAIN e.values THEN e.values[item]
                                           ELSE Entry(context)[item]
  <2>1. Entry(context) \in [Items -> Values]
    BY EntryType DEF IInv
  <2> QED
    BY <1>2, <1>5, <2>1, UpdatedType, UpdatedFields
<1>7. EntrySet(context, entry) /\ accepted' = Withdrawn(context, DOMAIN e.values)
  BY <1>1, <1>3, <1>5 DEF ConfigurePersistence
<1> DEFINE f == [op |-> "param", context |-> context, values |-> e.values, must |-> e.must]
           g == [op |-> "promise", context |-> context, values |-> e.values]
<1>8. /\ f \in Effects /\ f.op = "param" /\ f.context = context /\ f.values = e.values
      /\ g \in Effects /\ g.op = "promise" /\ g.context = context /\ g.values = e.values
  <2>1. f \in [op : {"param"}, context : Contexts, values : PartialParams, must : BOOLEAN]
    BY <1>2, <1>4
  <2>2. g \in [op : {"promise"}, context : Contexts, values : PartialParams]
    BY <1>2, <1>4
  <2> QED
    BY <2>1, <2>2 DEF Effects
<1>9. Continue(t, << f, g >>)
  BY <1>1, <1>3 DEF ConfigurePersistence
<1> HIDE DEF f, g
<1>10. PICK more \in Seq(Effects) :
          /\ more = << f, g >> /\ DOMAIN more = {1, 2} /\ more[1] = f /\ more[2] = g
          /\ Before(more, 1) = {} /\ Before(more, 2) = {f}
  <2>1. /\ << f, g >> \in Seq(Effects) /\ DOMAIN << f, g >> = {1, 2}
        /\ << f, g >>[1] = f /\ << f, g >>[2] = g
        /\ Before(<< f, g >>, 1) = {} /\ Before(<< f, g >>, 2) = {f}
    BY <1>8, TwoEffects
  <2> QED
    BY <2>1, Zenon
<1>11. Proceeds(t, more)
  BY <1>1, <1>9, <1>10, ContinueProceeds DEF IInv
<1>12. UNCHANGED << environment, configuration, persistent, flags, events, faults, changes, shown >>
  BY DEF ConfigurePersistence
<1>13. /\ accepted' \in [Contexts -> [Items -> Values \cup {None}]]
       /\ \A c \in Contexts, item \in Items : accepted'[c][item] \in {None, accepted[c][item]}
       /\ \A item \in DOMAIN e.values : accepted'[context][item] = None
  <2>1. TypeInv
    BY DEF IInv
  <2> QED
    BY <1>2, <1>4, <1>7, <2>1, WithdrawnPromises
<1>14. /\ DOMAIN usersParam' \subseteq Contexts
       /\ \A c \in DOMAIN usersParam' : usersParam'[c] \in [Items -> Values]
       /\ onceFlag \subseteq DOMAIN usersParam' /\ DOMAIN usersParam \subseteq DOMAIN usersParam'
  BY <1>4, <1>6, <1>7, EntryTypesKept DEF IInv
<1>15. TypeOK'
  BY <1>12, <1>13, <1>14 DEF IInv, TypeInv, TypeOK, environment, persistent, flags
<1>16. Calm(t)
  <2>1. UNCHANGED persistent
    BY <1>12
  <2>2. \A item \in Items : \/ entry[item] = Entry(context)[item]
                            \/ accepted'[context][item] = None /\ item \in thread[t].items
    BY <1>2, <1>6, <1>13
  <2> QED
    BY <1>4, <1>7, <1>13, <2>1, <2>2, CalmIfWithdrawn
<1>17. KeepsPromises(t, more)
  <2>1. Entry(context)' = entry
    BY <1>7, EntryAfter
  <2>2. \A item \in DOMAIN e.values : (Entry(context)[item])' = e.values[item]
    BY <1>2, <1>6, <2>1
  <2>3. PromiseFits(f, {}, thread[t].inDoubt)'
    BY <1>8, <1>13 DEF PromiseFits
  <2>4. PromiseFits(g, {f}, thread[t].inDoubt)'
    BY <1>8, <1>13, <2>2 DEF PromiseFits
  <2>5. \A i \in DOMAIN more : PromiseFits(more[i], Before(more, i), thread[t].inDoubt)'
    BY <1>10, <2>3, <2>4
  <2> QED
    BY <1>1, <1>13, <2>5 DEF KeepsPromises, Sending
<1>18. KeepsUpgrade(t, more)
  <2>1. \A i \in DOMAIN more : more[i].op \in {"param", "promise"}
    BY <1>8, <1>10
  <2>2. \A i \in DOMAIN more : UpgradeFits(more[i], Before(more, i))'
    BY <2>1 DEF UpgradeFits, Initializing
  <2>3. UNCHANGED << phase, isNeedDoCompatibleProcess >>
    BY <1>12 DEF flags
  <2>4. phase' # "published" /\ ~isNeedDoCompatibleProcess' => Upgraded'
    BY <1>16, <2>3 DEF IInv, UpgradeInv, Upgraded, Calm
  <2> QED
    BY <1>1, <2>2, <2>3, <2>4 DEF KeepsUpgrade, Carries, Loads, Upgrading
<1>19. \A i \in DOMAIN more : /\ ItemsOf(more[i]) \subseteq thread[t].items
                              /\ more[i].op \notin {"send", "upgradeIfNeeded"}
  BY <1>2, <1>8, <1>10 DEF ItemsOf
<1>20. UNCHANGED << environment, events, phase, isInitializationFinished >>
  BY <1>12 DEF flags
<1> QED
  BY <1>11, <1>14, <1>15, <1>16, <1>17, <1>18, <1>19, <1>20, StepKeeps

LEMMA LoadType ==
    ASSUME TypeInv, NEW c \in Contexts, NEW item \in Items
    PROVE  LoadContextParam(c, item) \in Values
<1>1. c \in ParamContexts /\ Base(c.userId) \in ParamContexts
  BY AppearanceServiceAssumption DEF ParamContexts
<1>2. param[c][item] \in Values \cup {Unset} /\ param[Base(c.userId)][item] \in Values \cup {Unset}
  BY <1>1 DEF TypeInv, TypeOK
<1>3. Default(item) \in Values
  BY AppearanceServiceAssumption DEF Default, GetDefaultFontWeightScaleValue, Values
<1> QED
  BY <1>2, <1>3 DEF LoadContextParam

\* An account is loaded: what it was promised is what its parameters say.
LEMMA InitContextKeeps ==
    ASSUME IInv, NEW t \in Threads, InitContext(t)
    PROVE  IInv'
<1>1. PICK e \in Effects : e = Effect(t) /\ e.op = "initContext" /\ Busy(t)
  BY HeadFits DEF InitContext, Doing, Effect
<1>2. PICK c : c = e.context
  OBVIOUS
<1>3. c \in Contexts /\ c \in ParamContexts /\ Items \subseteq thread[t].items /\ Upgraded
  BY <1>1, <1>2, HeadFits, EffectFields DEF ItemsOf, UpgradeFits, Initializing, ParamContexts
<1>4. PICK loaded : loaded = [item \in Items |-> LoadContextParam(c, item)]
  OBVIOUS
<1>5. loaded \in [Items -> Values] /\ \A item \in Items : loaded[item] = LoadContextParam(c, item)
  BY <1>3, <1>4, LoadType DEF IInv
<1>6. EntrySet(c, loaded)
  BY <1>1, <1>2, <1>4 DEF InitContext
<1>7. Proceeds(t, << >>)
  BY <1>1, NoEffects, ContinueProceeds DEF InitContext, IInv
<1>8. UNCHANGED << environment, configuration, baseParam, firstInitialization, flags, events,
                   changes, history >>
  BY DEF InitContext
<1>9. param \in [ParamContexts -> [Items -> Values \cup {Unset}]]
  BY DEF IInv, TypeInv, TypeOK
<1>10. \/ param' = param
       \/ \E row \in [Items -> Values \cup {Unset}] :
             /\ param' = [param EXCEPT ![c] = row]
             /\ \A item \in Items : row[item] = param[c][item]
                                     \/ (param[c][item] = Unset /\ row[item] = loaded[item])
  <2>1. PICK failed : param' = IF IsSubProfileContext(Effect(t).context)
                      THEN [param EXCEPT ![Effect(t).context] = [item \in Items |->
                               IF item \in {i \in Items : param[Effect(t).context][i] = Unset} \ failed
                               THEN [i \in Items |-> LoadContextParam(Effect(t).context, i)][item]
                               ELSE @[item]]]
                      ELSE param
    BY DEF InitContext
  <2>2. PICK row : row = [item \in Items |->
                             IF item \in {i \in Items : param[Effect(t).context][i] = Unset} \ failed
                             THEN [i \in Items |-> LoadContextParam(Effect(t).context, i)][item]
                             ELSE param[Effect(t).context][item]]
    OBVIOUS
  <2>3. param' = param \/ param' = [param EXCEPT ![Effect(t).context] = row]
    BY <2>1, <2>2
  <2>4. \A item \in Items :
           row[item] = IF param[Effect(t).context][item] = Unset /\ item \notin failed
                       THEN LoadContextParam(Effect(t).context, item) ELSE param[Effect(t).context][item]
    BY <2>2
  <2>5. Effect(t).context = c
    BY <1>1, <1>2
  <2>6. \A item \in Items : row[item] = param[c][item] \/ (param[c][item] = Unset /\ row[item] = loaded[item])
    BY <1>5, <2>4, <2>5
  <2>7. DOMAIN row = Items /\ row = [item \in Items |-> row[item]]
    BY <2>2
  <2>8. row \in [Items -> Values \cup {Unset}]
    <3>1. \A item \in Items : row[item] \in Values \cup {Unset}
      BY <1>3, <1>5, <1>9, <2>6
    <3> QED
      BY <2>7, <3>1
  <2> QED
    BY <2>3, <2>5, <2>6, <2>8
<1>11. /\ param' \in [ParamContexts -> [Items -> Values \cup {Unset}]]
       /\ \A d \in ParamContexts : d # c => param'[d] = param[d]
       /\ \A item \in Items : \/ param'[c][item] = param[c][item]
                              \/ param[c][item] = Unset /\ param'[c][item] = loaded[item]
  BY <1>3, <1>9, <1>10
<1>12. /\ DOMAIN usersParam' \subseteq Contexts
       /\ \A d \in DOMAIN usersParam' : usersParam'[d] \in [Items -> Values]
       /\ onceFlag \subseteq DOMAIN usersParam' /\ DOMAIN usersParam \subseteq DOMAIN usersParam'
  BY <1>3, <1>5, <1>6, EntryTypesKept DEF IInv
<1>13. TypeOK'
  BY <1>8, <1>11, <1>12 DEF IInv, TypeInv, TypeOK, environment, flags, history
<1>14. \A v \in Values : v # Unset
  BY DEF Values, Unset
<1>15. ASSUME NEW d \in Contexts, NEW item \in Items
       PROVE  /\ param[d][item] # Unset => param'[d][item] # Unset
              /\ OldParam(item)' = OldParam(item)
              /\ LoadContextParam(d, item)' = LoadContextParam(d, item)
  <2>1. d \in ParamContexts
    BY DEF ParamContexts
  <2>2. param[d][item] # Unset => param'[d][item] # Unset
    BY <1>5, <1>11, <1>14, <2>1
  <2>3. OldParam(item)' = OldParam(item)
    BY <1>8 DEF OldParam
  <2>4. ASSUME d = c, param'[c][item] = loaded[item]
        PROVE  LoadContextParam(d, item)' = LoadContextParam(d, item)
    <3>1. LoadContextParam(d, item) = loaded[item] /\ loaded[item] # Unset
      BY <1>5, <1>14, <2>4
    <3> QED
      BY <2>4, <3>1 DEF LoadContextParam
  <2>5. ASSUME d = c => param'[d][item] = param[d][item]
        PROVE  LoadContextParam(d, item)' = LoadContextParam(d, item)
    <3>1. \A x \in ParamContexts : x # c => param'[x] = param[x]
      BY <1>11
    <3> QED
      BY <1>3, <2>5, <3>1, LoadKept
  <2> QED
    BY <1>11, <2>2, <2>3, <2>4, <2>5
<1>16. ASSUME NEW d \in Contexts, NEW item \in Items
       PROVE  /\ AcceptedInParam(d, item)' /\ CarriedOver(d, item)'
              /\ AcceptedInMemory(d, item) => AcceptedInMemory(d, item)'
              /\ d = c => AcceptedInMemory(d, item)'
  <2>1. accepted' = accepted /\ AcceptedInParam(d, item) /\ CarriedOver(d, item)
    BY <1>3, <1>8 DEF IInv, AcceptedInv, Upgraded, history
  <2>2. CarriedOver(d, item)'
    BY <1>8, <1>15, <2>1 DEF CarriedOver, NothingToCarry
  <2>3. AcceptedInParam(d, item)'
    BY <1>15, <2>1, <2>2 DEF AcceptedInParam, CarriedOver
  <2>4. Entry(d)' = IF d = c THEN loaded ELSE Entry(d)
    BY <1>6, EntryAfter
  <2>5. d = c => AcceptedInMemory(d, item)'
    BY <1>5, <2>1, <2>4 DEF AcceptedInParam, AcceptedInMemory, CarriedOver
  <2>6. AcceptedInMemory(d, item) => AcceptedInMemory(d, item)'
    BY <2>1, <2>4, <2>5 DEF AcceptedInMemory
  <2> QED
    BY <2>2, <2>3, <2>5, <2>6
<1>17. Calm(t)
  <2>1. NeverUnset => NeverUnset'
    BY <1>8, <1>15 DEF NeverUnset, history
  <2>2. accepted' = accepted
    BY <1>8 DEF history
  <2> QED
    BY <1>3, <1>15, <1>16, <2>1, <2>2 DEF Calm
<1>18. KeepsPromises(t, << >>)
  <2>1. accepted' = accepted
    BY <1>8 DEF history
  <2> QED
    BY <1>1, <2>1, NoEffects DEF KeepsPromises, Sending
<1>19. KeepsUpgrade(t, << >>)
  <2>1. \A d \in Contexts : Loads(e, d) => \A item \in Items : AcceptedInMemory(d, item)'
    BY <1>1, <1>2, <1>16 DEF Loads
  <2>2. Upgraded' /\ isNeedDoCompatibleProcess' = isNeedDoCompatibleProcess
    BY <1>8, <1>16 DEF Upgraded, flags
  <2> QED
    BY <1>1, <2>1, <2>2, NoEffects DEF KeepsUpgrade, Carries, Upgrading
<1>20. UNCHANGED << environment, events, phase, isInitializationFinished >>
  BY <1>8 DEF flags
<1> QED
  BY <1>7, <1>12, <1>13, <1>17, <1>18, <1>19, <1>20, NoEffects, StepKeeps

\* The colour that was loaded goes to memory, and is not what was promised.
LEMMA LoadedDarkModeKeeps ==
    ASSUME IInv, NEW t \in Threads, LoadedDarkMode(t)
    PROVE  IInv'
<1>1. PICK e \in Effects : e = Effect(t) /\ e.op = "loaded" /\ Busy(t)
  BY HeadFits DEF LoadedDarkMode, Doing, Effect
<1>2. e.context \in Contexts /\ Items \subseteq thread[t].items /\ "darkMode" \in Items
  BY <1>1, HeadFits, EffectFields DEF ItemsOf, Items
<1>3. PICK darkMode \in {Entry(e.context)["darkMode"], 0, 1} :
         /\ EntrySet(e.context, [Entry(e.context) EXCEPT !["darkMode"] = darkMode])
         /\ accepted' = IF darkMode = Entry(e.context)["darkMode"] THEN accepted
                        ELSE [accepted EXCEPT ![e.context]["darkMode"] = None]
         /\ \E force \in BOOLEAN :
               Continue(t, << [op |-> "update", context |-> e.context, force |-> force] >>)
  BY <1>1 DEF LoadedDarkMode
<1>4. PICK entry : entry = [Entry(e.context) EXCEPT !["darkMode"] = darkMode]
  OBVIOUS
<1>5. /\ entry \in [Items -> Values]
      /\ \A item \in Items : entry[item] = IF item = "darkMode" THEN darkMode ELSE Entry(e.context)[item]
  <2>1. Entry(e.context) \in [Items -> Values]
    BY EntryType DEF IInv
  <2>2. darkMode \in Values
    BY <1>2, <2>1 DEF Values
  <2> QED
    BY <1>2, <1>4, <2>1, <2>2
<1>6. EntrySet(e.context, entry)
  BY <1>3, <1>4
<1>7. accepted \in [Contexts -> [Items -> Values \cup {None}]]
  BY DEF IInv, TypeInv, TypeOK
<1>8. /\ accepted' \in [Contexts -> [Items -> Values \cup {None}]]
      /\ \A c \in Contexts, item \in Items : accepted'[c][item] \in {None, accepted[c][item]}
      /\ darkMode # Entry(e.context)["darkMode"] => accepted'[e.context]["darkMode"] = None
  BY <1>2, <1>3, <1>7
<1>9. UNCHANGED << environment, configuration, persistent, flags, events, faults, changes, shown >>
  BY DEF LoadedDarkMode
<1>10. PICK force \in BOOLEAN :
          Continue(t, << [op |-> "update", context |-> e.context, force |-> force] >>)
  BY <1>3
<1> DEFINE f == [op |-> "update", context |-> e.context, force |-> force]
<1>11. f \in Effects /\ f.op = "update"
  <2>1. f \in [op : {"update"}, context : Contexts, force : BOOLEAN]
    BY <1>2
  <2> QED
    BY <2>1 DEF Effects
<1> HIDE DEF f
<1>12. PICK more \in Seq(Effects) : more = << f >> /\ DOMAIN more = {1} /\ more[1] = f
  <2>1. << f >> \in Seq(Effects) /\ DOMAIN << f >> = {1} /\ << f >>[1] = f
    BY <1>11, OneEffect
  <2> QED
    BY <2>1, Zenon
<1>13. Proceeds(t, more)
  BY <1>1, <1>10, <1>12, ContinueProceeds DEF IInv, f
<1>14. \A i \in DOMAIN more : more[i].op = "update"
  BY <1>11, <1>12
<1>15. /\ DOMAIN usersParam' \subseteq Contexts
       /\ \A c \in DOMAIN usersParam' : usersParam'[c] \in [Items -> Values]
       /\ onceFlag \subseteq DOMAIN usersParam' /\ DOMAIN usersParam \subseteq DOMAIN usersParam'
  BY <1>2, <1>5, <1>6, EntryTypesKept DEF IInv
<1>16. TypeOK'
  BY <1>8, <1>9, <1>15 DEF IInv, TypeInv, TypeOK, environment, persistent, flags
<1>17. Calm(t)
  <2>1. UNCHANGED persistent
    BY <1>9
  <2>2. \A item \in Items : \/ entry[item] = Entry(e.context)[item]
                            \/ accepted'[e.context][item] = None /\ item \in thread[t].items
    BY <1>2, <1>5, <1>8
  <2> QED
    BY <1>2, <1>6, <1>8, <2>1, <2>2, CalmIfWithdrawn
<1>18. KeepsPromises(t, more)
  <2>1. \A i \in DOMAIN more : PromiseFits(more[i], Before(more, i), thread[t].inDoubt)'
    BY <1>14 DEF PromiseFits
  <2> QED
    BY <1>1, <1>8, <2>1 DEF KeepsPromises, Sending
<1>19. KeepsUpgrade(t, more)
  <2>1. \A i \in DOMAIN more : UpgradeFits(more[i], Before(more, i))'
    BY <1>14 DEF UpgradeFits, Initializing
  <2>2. UNCHANGED << phase, isNeedDoCompatibleProcess >>
    BY <1>9 DEF flags
  <2>3. phase' # "published" /\ ~isNeedDoCompatibleProcess' => Upgraded'
    BY <1>17, <2>2 DEF IInv, UpgradeInv, Upgraded, Calm
  <2> QED
    BY <1>1, <2>1, <2>2, <2>3 DEF KeepsUpgrade, Carries, Loads, Upgrading
<1>20. \A i \in DOMAIN more : ItemsOf(more[i]) \subseteq thread[t].items
  BY <1>2, <1>14 DEF ItemsOf
<1>21. UNCHANGED << environment, events, phase, isInitializationFinished >>
  BY <1>9 DEF flags
<1> QED
  BY <1>13, <1>14, <1>15, <1>16, <1>17, <1>18, <1>19, <1>20, <1>21, StepKeeps

LEMMA ThreeEffects ==
    ASSUME NEW e \in Effects, NEW f \in Effects, NEW g \in Effects
    PROVE  /\ << e, f, g >> \in Seq(Effects) /\ DOMAIN << e, f, g >> = {1, 2, 3}
           /\ << e, f, g >>[1] = e /\ << e, f, g >>[2] = f /\ << e, f, g >>[3] = g
           /\ Before(<< e, f, g >>, 1) = {} /\ Before(<< e, f, g >>, 2) = {e}
           /\ Before(<< e, f, g >>, 3) = {e, f}
<1>1. 1 .. 1 - 1 = {} /\ 1 .. 2 - 1 = {1} /\ 1 .. 3 - 1 = {1, 2} /\ 1 .. 3 = {1, 2, 3}
  OBVIOUS
<1>2. Before(<< e, f, g >>, 1) = {}
  BY <1>1 DEF Before
<1>3. Before(<< e, f, g >>, 2) = {e}
  BY <1>1 DEF Before
<1>4. Before(<< e, f, g >>, 3) = {e, f}
  BY <1>1 DEF Before
<1> QED
  BY <1>1, <1>2, <1>3, <1>4

\* The account that follows another: everything it had been promised is given up,
\* and promised anew from the other's memory.
LEMMA ApplyAppearanceContextToUserKeeps ==
    ASSUME IInv, NEW t \in Threads, ApplyAppearanceContextToUser(t)
    PROVE  IInv'
<1>1. PICK e \in Effects : e = Effect(t) /\ e.op = "apply" /\ Busy(t)
  BY HeadFits DEF ApplyAppearanceContextToUser, Doing, Effect
<1>2. e.source \in Contexts /\ e.target \in Contexts /\ Items \subseteq thread[t].items
  BY <1>1, HeadFits, EffectFields DEF ItemsOf
<1>3. UNCHANGED << environment, configuration, persistent, flags, events, faults, changes >>
  BY DEF ApplyAppearanceContextToUser
<1>4. CASE e.source \notin DOMAIN usersParam
  <2>1. /\ shown' = [shown EXCEPT ![e.target.userId] = Doubtful]
        /\ Continue(t, << >>) /\ UNCHANGED << usersParam, accepted >>
    BY <1>1, <1>4 DEF ApplyAppearanceContextToUser
  <2>2. Proceeds(t, << >>)
    BY <1>1, <2>1, NoEffects, ContinueProceeds DEF IInv
  <2>3. shown' \in [Users -> Contexts \cup {Nobody, Doubtful}]
    BY <2>1 DEF IInv, TypeInv, TypeOK
  <2>4. TypeOK'
    BY <1>3, <2>1, <2>3 DEF IInv, TypeInv, TypeOK, environment, persistent, flags
  <2>5. /\ \A c \in Contexts : Entry(c)' = Entry(c)
        /\ UNCHANGED << environment, persistent, events, phase, isNeedDoCompatibleProcess,
                        isInitializationFinished, accepted, usersParam >>
    BY <1>3, <2>1 DEF Entry, flags
  <2> QED
    BY <1>1, <2>2, <2>4, <2>5, NoEffects, PlainStepKeeps DEF Plain
<1>5. CASE e.source \in DOMAIN usersParam
  <2>1. PICK values : values = usersParam[e.source]
    OBVIOUS
  <2>2. values \in [Items -> Values] /\ DOMAIN values = Items /\ values \in PartialParams
    <3>1. values \in [Items -> Values]
      BY <1>5, <2>1 DEF IInv, TypeInv, TypeOK
    <3> QED
      BY <3>1 DEF PartialParams
  <2>3. /\ EntrySet(e.target, values) /\ accepted' = Withdrawn(e.target, Items) /\ UNCHANGED shown
        /\ Continue(t, << [op |-> "param", context |-> e.target, values |-> values, must |-> FALSE],
                          [op |-> "update", context |-> e.target, force |-> TRUE],
                          [op |-> "promise", context |-> e.target, values |-> values] >>)
    BY <1>1, <1>5, <2>1 DEF ApplyAppearanceContextToUser
  <2> DEFINE f == [op |-> "param", context |-> e.target, values |-> values, must |-> FALSE]
             g == [op |-> "update", context |-> e.target, force |-> TRUE]
             h == [op |-> "promise", context |-> e.target, values |-> values]
  <2>4. /\ f \in Effects /\ f.op = "param" /\ f.context = e.target /\ f.values = values
        /\ g \in Effects /\ g.op = "update"
        /\ h \in Effects /\ h.op = "promise" /\ h.context = e.target /\ h.values = values
    <3>1. f \in [op : {"param"}, context : Contexts, values : PartialParams, must : BOOLEAN]
      BY <1>2, <2>2
    <3>2. g \in [op : {"update"}, context : Contexts, force : BOOLEAN]
      BY <1>2
    <3>3. h \in [op : {"promise"}, context : Contexts, values : PartialParams]
      BY <1>2, <2>2
    <3> QED
      BY <3>1, <3>2, <3>3 DEF Effects
  <2>5. Continue(t, << f, g, h >>)
    BY <2>3
  <2> HIDE DEF f, g, h
  <2>6. PICK more \in Seq(Effects) :
           /\ more = << f, g, h >> /\ DOMAIN more = {1, 2, 3}
           /\ more[1] = f /\ more[2] = g /\ more[3] = h
           /\ Before(more, 1) = {} /\ Before(more, 3) = {f, g}
    <3>1. /\ << f, g, h >> \in Seq(Effects) /\ DOMAIN << f, g, h >> = {1, 2, 3}
          /\ << f, g, h >>[1] = f /\ << f, g, h >>[2] = g /\ << f, g, h >>[3] = h
          /\ Before(<< f, g, h >>, 1) = {} /\ Before(<< f, g, h >>, 3) = {f, g}
      BY <2>4, ThreeEffects
    <3> QED
      BY <3>1, Zenon
  <2>7. Proceeds(t, more)
    BY <1>1, <2>5, <2>6, ContinueProceeds DEF IInv
  <2>8. /\ accepted' \in [Contexts -> [Items -> Values \cup {None}]]
        /\ \A c \in Contexts, item \in Items : accepted'[c][item] \in {None, accepted[c][item]}
        /\ \A item \in Items : accepted'[e.target][item] = None
    <3>1. TypeInv
      BY DEF IInv
    <3> QED
      BY <1>2, <2>3, <3>1, WithdrawnPromises
  <2>9. /\ DOMAIN usersParam' \subseteq Contexts
        /\ \A c \in DOMAIN usersParam' : usersParam'[c] \in [Items -> Values]
        /\ onceFlag \subseteq DOMAIN usersParam' /\ DOMAIN usersParam \subseteq DOMAIN usersParam'
    BY <1>2, <2>2, <2>3, EntryTypesKept DEF IInv
  <2>10. TypeOK'
    BY <1>3, <2>3, <2>8, <2>9 DEF IInv, TypeInv, TypeOK, environment, persistent, flags
  <2>11. Calm(t)
    <3>1. UNCHANGED persistent
      BY <1>3
    <3>2. \A item \in Items : accepted'[e.target][item] = None /\ item \in thread[t].items
      BY <1>2, <2>8
    <3> QED
      BY <1>2, <2>3, <2>8, <3>1, <3>2, CalmIfWithdrawn
  <2>12. KeepsPromises(t, more)
    <3>1. Entry(e.target)' = values
      BY <2>3, EntryAfter
    <3>2. PromiseFits(f, {}, thread[t].inDoubt)'
      BY <2>2, <2>4, <2>8 DEF PromiseFits
    <3>3. PromiseFits(h, {f, g}, thread[t].inDoubt)'
      BY <2>2, <2>4, <2>8, <3>1 DEF PromiseFits, Sending
    <3>4. PromiseFits(g, Before(more, 2), thread[t].inDoubt)'
      BY <2>4 DEF PromiseFits
    <3>5. \A i \in DOMAIN more : PromiseFits(more[i], Before(more, i), thread[t].inDoubt)'
      BY <2>6, <3>2, <3>3, <3>4
    <3> QED
      BY <1>1, <2>8, <3>5 DEF KeepsPromises, Sending
  <2>13. \A i \in DOMAIN more : more[i].op \in {"param", "update", "promise"}
    BY <2>4, <2>6
  <2>14. KeepsUpgrade(t, more)
    <3>1. \A i \in DOMAIN more : UpgradeFits(more[i], Before(more, i))'
      BY <2>13 DEF UpgradeFits, Initializing
    <3>2. UNCHANGED << phase, isNeedDoCompatibleProcess >>
      BY <1>3 DEF flags
    <3>3. phase' # "published" /\ ~isNeedDoCompatibleProcess' => Upgraded'
      BY <2>11, <3>2 DEF IInv, UpgradeInv, Upgraded, Calm
    <3> QED
      BY <1>1, <3>1, <3>2, <3>3 DEF KeepsUpgrade, Carries, Loads, Upgrading
  <2>15. \A i \in DOMAIN more : ItemsOf(more[i]) \subseteq thread[t].items
    BY <1>2, <2>2, <2>4, <2>6 DEF ItemsOf
  <2>16. UNCHANGED << environment, events, phase, isInitializationFinished >>
    BY <1>3 DEF flags
  <2> QED
    BY <2>7, <2>9, <2>10, <2>11, <2>12, <2>13, <2>14, <2>15, <2>16, StepKeeps
<1> QED
  BY <1>4, <1>5

-----------------------------------------------------------------------------
(* What starts handlers, and the rest of the environment.                  *)

LEMMA StartKeeps ==
    ASSUME IInv, NEW t \in Threads, NEW items \in SUBSET Items, NEW todo \in Seq(Effects),
           Begin(t, items, todo),
           UNCHANGED << active, foreground, configuration, persistent, usersParam, isInitializationFinished,
                        onceFlag, appMgr, accepted >>, behind' \in BOOLEAN,
           phase' \in {phase, "serving"}, events' \in {events, Tail(events)},
           isNeedDoCompatibleProcess' \in BOOLEAN,
           phase' # "published" /\ ~isNeedDoCompatibleProcess' => Upgraded,
           isNeedDoCompatibleProcess' => NeverUnset,
           \A i \in DOMAIN todo : /\ ItemsOf(todo[i]) \subseteq items
                                  /\ todo[i].op \notin {"param", "promise"}
                                  /\ TypeFits(todo[i])'
                                  /\ UpgradeFits(todo[i], Before(todo, i))
    PROVE  IInv'
<1>1. /\ thread' \in [Threads -> Handlers]
      /\ \A u \in Threads : \A i \in DOMAIN thread'[u].todo : TypeFits(thread[u].todo[i])'
      /\ ApartInv' /\ PromiseInv' /\ UpgradeInv' /\ AcceptedInv'
  BY BeginKeeps
<1>2. shown' \in [Users -> Contexts \cup {Nobody, Doubtful}]
  <2>1. shown' = shown \/ shown' = InDoubt
    BY BeginThreads DEF IInv
  <2> QED
    BY <2>1 DEF IInv, TypeInv, TypeOK, InDoubt
<1>3. TypeOK'
  BY <1>2 DEF IInv, TypeInv, TypeOK, persistent
<1>4. /\ events' \in Seq([action : {"USER_SWITCHED", "SUB_PROFILE_SWITCHED"}, context : Contexts])
      /\ events' # << >> => events # << >>
  <2>1. CASE events = << >>
    <3>1. Tail(<< >>) = << >>
      OBVIOUS
    <3> QED
      BY <2>1, <3>1 DEF IInv, TypeInv
  <2>2. CASE events # << >>
    BY <2>2, HeadTailProperties, SMTT(30) DEF IInv, TypeInv
  <2> QED
    BY <2>1, <2>2
<1>5. TypeInv'
  BY <1>1, <1>3, <1>4 DEF IInv, TypeInv
<1> QED
  BY <1>1, <1>5 DEF IInv

\* What is to be done for a set request is about the item and nothing else.
LEMMA OnSetEffects ==
    ASSUME TypeInv, NEW item \in Items, NEW context \in Contexts, NEW value \in Values, NEW must \in BOOLEAN,
           NEW list, list = OnSet(item, context, value, must)
    PROVE  /\ list \in Seq(Effects)
           /\ \A i \in DOMAIN list :
                 ItemsOf(list[i]) = {item} /\ list[i].op \in {"configuration", "base", "persist"}
<1> DEFINE Wanted == {e \in Effects : ItemsOf(e) = {item} /\ e.op \in {"configuration", "base", "persist"}}
           several == Cardinality(active) > 1
           values == [i \in {item} |-> value]
           c == [op |-> "configuration", users |-> IF several THEN active ELSE {context.userId},
                 item |-> item, value |-> value]
           b == [op |-> "base", values |-> values]
           p == [op |-> "persist", context |-> context, values |-> values, must |-> must]
           f == [user \in active |-> [op |-> "persist", user |-> user, values |-> values, must |-> must]]
<1>1. values \in PartialParams /\ DOMAIN values = {item}
  <2>1. {item} \in SUBSET Items /\ values \in [{item} -> Values]
    OBVIOUS
  <2> QED
    BY <2>1 DEF PartialParams
<1>2. active \subseteq Users /\ context.userId \in Users /\ IsFiniteSet(active)
  <2>1. active \subseteq Users
    BY DEF TypeInv, TypeOK
  <2> QED
    BY <2>1, FS_Subset, AppearanceServiceAssumption
<1> HIDE DEF values
<1>3. c \in Wanted
  BY <1>2 DEF Effects, ItemsOf
<1>4. b \in Wanted
  BY <1>1 DEF Effects, ItemsOf
<1>5. p \in Wanted
  BY <1>1 DEF Effects, ItemsOf
<1>6. ASSUME NEW user \in active PROVE f[user] \in Wanted
  <2> DEFINE e == [op |-> "persist", user |-> user, values |-> values, must |-> must]
  <2>1. e \in Wanted
    BY <1>1, <1>2 DEF Effects, ItemsOf
  <2> QED
    BY <2>1
<1> DEFINE each == [i \in DOMAIN SetToSeq(active) |-> f[SetToSeq(active)[i]]]
<1>7. ForEach(active, LAMBDA user : [op |-> "persist", user |-> user, values |-> values, must |-> must]) = each
  <2>1. \A i \in DOMAIN SetToSeq(active) : SetToSeq(active)[i] \in active
    BY <1>2, SeqOfSet
  <2> QED
    BY <2>1 DEF ForEach
<1>8. f \in [active -> Effects] /\ \A user \in active : f[user] \in Wanted
  BY <1>6
<1> HIDE DEF Wanted, c, b, p, f
<1>9. each \in Seq(Wanted)
  <2> HIDE DEF each
  <2>1. PICK list1 : list1 = each
    OBVIOUS
  <2>2. list1 \in Seq(Effects) /\ \A i \in DOMAIN list1 : \E x \in active : list1[i] = f[x]
    BY <1>2, <1>8, <2>1, ListOf DEF each
  <2>3. list1 \in [1 .. Len(list1) -> Wanted] /\ Len(list1) \in Nat
    BY <1>8, <2>2, LenProperties
  <2> QED
    BY <2>1, <2>3, SeqDef
<1>10. list = << c, b >> \o IF several THEN each ELSE << p >>
  BY <1>7 DEF OnSet, c, b, p, values
<1> HIDE DEF each
<1>11. list \in Seq(Wanted)
  <2>1. << c, b >> \in Seq(Wanted) /\ << p >> \in Seq(Wanted)
    BY <1>3, <1>4, <1>5
  <2> QED
    BY <1>9, <1>10, <2>1, ConcatProperties
<1>12. Len(list) \in Nat /\ list \in [1 .. Len(list) -> Wanted]
  BY <1>11, LenProperties
<1>13. list \in Seq(Effects)
  <2>1. Wanted \subseteq Effects
    BY DEF Wanted
  <2>2. list \in [1 .. Len(list) -> Effects]
    BY <1>12, <2>1
  <2> QED
    BY <1>12, <2>2, SeqDef
<1> QED
  BY <1>12, <1>13 DEF Wanted

\* A request is about an item of the account in front of its user, who may be in
\* the background.
LEMMA RequestBegins ==
    ASSUME TypeInv, Request
    PROVE  \E user \in Users, t \in Threads, item \in Items, value \in Values, must \in BOOLEAN :
              /\ behind' = (behind \/ user \notin active)
              /\ Begin(t, {item}, OnSet(item, foreground[user], value, must))
<1>1. PICK user \in Users :
         /\ \/ \E mode \in {0, 1} :
                  SetDarkMode(foreground[user], mode) \/ UpdateDarkModeCallback(user, mode)
            \/ \E scale \in ScaleChoices :
                  SetFontScale(foreground[user], scale) \/ SetFontWeightScale(foreground[user], scale)
         /\ behind' = (behind \/ user \notin active)
  BY DEF Request
<1>2. ScaleChoices \subseteq Values /\ {0, 1} \subseteq Values
  BY AppearanceServiceAssumption DEF Values
<1>3. \E t \in Threads, item \in Items, value \in Values, must \in BOOLEAN :
         Begin(t, {item}, OnSet(item, foreground[user], value, must))
  <2>1. Items = {"darkMode", "fontScale", "fontWeightScale"} /\ {"ipc", "timer"} \subseteq Threads
    BY DEF Items, Threads
  <2>2. ASSUME NEW mode \in {0, 1}, SetDarkMode(foreground[user], mode)
        PROVE  Begin("ipc", {"darkMode"}, OnSet("darkMode", foreground[user], mode, TRUE))
    BY <2>2 DEF SetDarkMode
  <2>3. ASSUME NEW mode \in {0, 1}, UpdateDarkModeCallback(user, mode)
        PROVE  Begin("timer", {"darkMode"}, OnSet("darkMode", foreground[user], mode, FALSE))
    BY <2>3 DEF UpdateDarkModeCallback
  <2>4. ASSUME NEW scale \in ScaleChoices, SetFontScale(foreground[user], scale)
        PROVE  Begin("ipc", {"fontScale"}, OnSet("fontScale", foreground[user], scale, TRUE))
    BY <2>4 DEF SetFontScale
  <2>5. ASSUME NEW scale \in ScaleChoices, SetFontWeightScale(foreground[user], scale)
        PROVE  Begin("ipc", {"fontWeightScale"}, OnSet("fontWeightScale", foreground[user], scale, TRUE))
    BY <2>5 DEF SetFontWeightScale
  <2> QED
    BY <1>1, <1>2, <2>1, <2>2, <2>3, <2>4, <2>5
<1> QED
  BY <1>1, <1>3

LEMMA RequestKeeps ==
    ASSUME IInv, Request
    PROVE  IInv'
<1>1. UNCHANGED << active, foreground, configuration, persistent, usersParam, flags, events, faults, accepted >>
  BY DEF Request
<1>2. PICK user \in Users, t \in Threads, item \in Items, value \in Values, must \in BOOLEAN :
         /\ behind' = (behind \/ user \notin active)
         /\ Begin(t, {item}, OnSet(item, foreground[user], value, must))
  BY RequestBegins DEF IInv
<1>3. foreground[user] \in Contexts
  BY DEF IInv, TypeInv, TypeOK
<1>5. PICK todo : todo = OnSet(item, foreground[user], value, must)
  OBVIOUS
<1>6. /\ todo \in Seq(Effects)
      /\ \A i \in DOMAIN todo :
            ItemsOf(todo[i]) = {item} /\ todo[i].op \in {"configuration", "base", "persist"}
  BY <1>3, <1>5, OnSetEffects DEF IInv
<1>7. \A i \in DOMAIN todo : TypeFits(todo[i])' /\ UpgradeFits(todo[i], Before(todo, i))
  BY <1>6 DEF TypeFits, UpgradeFits, Initializing
<1>8. Begin(t, {item}, todo) /\ {item} \in SUBSET Items
  BY <1>2, <1>5
<1>9. /\ UNCHANGED << phase, isNeedDoCompatibleProcess, isInitializationFinished, onceFlag, appMgr >>
      /\ isNeedDoCompatibleProcess' \in BOOLEAN
      /\ phase' # "published" /\ ~isNeedDoCompatibleProcess' => Upgraded
      /\ isNeedDoCompatibleProcess' => NeverUnset
  BY <1>1 DEF flags, IInv, TypeInv, TypeOK, UpgradeInv
<1>10. behind' \in BOOLEAN
  BY <1>2
<1> QED
  BY <1>1, <1>6, <1>7, <1>8, <1>9, <1>10, StartKeeps

LEMMA OnAddSystemAbilityKeeps ==
    ASSUME IInv, OnAddSystemAbility
    PROVE  IInv'
<1> DEFINE e == [op |-> "upgradeIfNeeded"]
           f == [op |-> "initializeIfNeeded"]
<1>1. e \in Effects /\ f \in Effects /\ e.op = "upgradeIfNeeded" /\ f.op = "initializeIfNeeded"
  BY DEF Effects
<1>2. Begin("sa", Items, << e, f >>)
  BY DEF OnAddSystemAbility
<1> HIDE DEF e, f
<1>3. /\ << e, f >> \in Seq(Effects) /\ DOMAIN << e, f >> = {1, 2}
      /\ << e, f >>[1] = e /\ << e, f >>[2] = f
      /\ Before(<< e, f >>, 2) = {e}
  BY <1>1, TwoEffects
<1>4. PICK todo \in Seq(Effects) : /\ todo = << e, f >> /\ DOMAIN todo = {1, 2} /\ todo[1] = e /\ todo[2] = f
                                   /\ Before(todo, 2) = {e}
  BY <1>3, Zenon
<1>5. phase' = "serving" /\ isNeedDoCompatibleProcess' = firstInitialization
  BY DEF OnAddSystemAbility
<1>6. ItemsOf(todo[1]) \subseteq Items /\ ItemsOf(todo[2]) \subseteq Items
  BY <1>1, <1>4 DEF ItemsOf
<1>7. TypeFits(todo[1])' /\ TypeFits(todo[2])'
  BY <1>1, <1>4, <1>5 DEF TypeFits
<1>8. UpgradeFits(todo[1], Before(todo, 1)) /\ UpgradeFits(todo[2], Before(todo, 2))
  <2>1. UpgradeFits(todo[1], Before(todo, 1))
    BY <1>1, <1>4 DEF UpgradeFits, Initializing
  <2>2. e \in Before(todo, 2) /\ e.op \in Upgrading
    BY <1>1, <1>4 DEF Upgrading
  <2> QED
    BY <1>1, <1>4, <2>1, <2>2 DEF UpgradeFits, Initializing
<1>9. \A i \in DOMAIN todo : /\ ItemsOf(todo[i]) \subseteq Items
                             /\ todo[i].op \notin {"param", "promise"}
                             /\ TypeFits(todo[i])'
                             /\ UpgradeFits(todo[i], Before(todo, i))
  BY <1>1, <1>4, <1>6, <1>7, <1>8
<1>10. /\ firstInitialization \in BOOLEAN
       /\ ~firstInitialization => Upgraded
       /\ firstInitialization => NeverUnset
  BY DEF IInv, TypeInv, TypeOK, Upgraded, CarriedOver, NothingToCarry, NeverUnset
<1>11. Begin("sa", Items, todo) /\ "sa" \in Threads /\ Items \in SUBSET Items
  BY <1>2, <1>4 DEF Threads
<1>12. /\ UNCHANGED << active, foreground, configuration, persistent, usersParam, isInitializationFinished,
                        onceFlag, appMgr, events, accepted >>
       /\ behind' \in BOOLEAN
  BY DEF OnAddSystemAbility, environment, IInv, TypeInv, TypeOK
<1> QED
  BY <1>5, <1>9, <1>10, <1>11, <1>12, StartKeeps

LEMMA TwoParts ==
    ASSUME NEW S, NEW a \in S, NEW b \in S
    PROVE  << a >> \o << b >> = << a, b >>
<1> DEFINE s == << a >>
           r == << b >>
           all == << a, b >>
<1>1. s \in Seq(S) /\ r \in Seq(S) /\ all \in Seq(S) /\ Len(s) = 1 /\ Len(r) = 1 /\ Len(all) = 2
      /\ s[1] = a /\ r[1] = b /\ all[1] = a /\ all[2] = b
  OBVIOUS
<1> HIDE DEF s, r, all
<1>2. s \o r \in Seq(S) /\ Len(s \o r) = 2 /\ (s \o r)[1] = a /\ (s \o r)[2] = b
  <2>1. /\ s \o r \in Seq(S) /\ Len(s \o r) = Len(s) + Len(r)
        /\ \A i \in 1 .. Len(s) + Len(r) :
              (s \o r)[i] = IF i <= Len(s) THEN s[i] ELSE r[i - Len(s)]
    BY <1>1, ConcatProperties
  <2>2. 1 + 1 = 2 /\ 2 - 1 = 1 /\ 1 \in 1 .. 1 + 1 /\ 2 \in 1 .. 1 + 1 /\ ~(2 <= 1) /\ 1 <= 1
    OBVIOUS
  <2> QED
    BY <1>1, <2>1, <2>2
<1>3. \A i \in 1 .. 2 : i = 1 \/ i = 2
  OBVIOUS
<1>4. s \o r = all
  BY <1>1, <1>2, <1>3, SeqEqual
<1> QED
  BY <1>4 DEF s, r, all

LEMMA ThreeParts ==
    ASSUME NEW S, NEW a \in S, NEW b \in S, NEW c \in S
    PROVE  << a, b >> \o << c >> = << a, b, c >>
<1> DEFINE s == << a, b >>
           r == << c >>
           all == << a, b, c >>
<1>1. s \in Seq(S) /\ r \in Seq(S) /\ all \in Seq(S) /\ Len(s) = 2 /\ Len(r) = 1 /\ Len(all) = 3
      /\ s[1] = a /\ s[2] = b /\ r[1] = c /\ all[1] = a /\ all[2] = b /\ all[3] = c
  OBVIOUS
<1> HIDE DEF s, r, all
<1>2. s \o r \in Seq(S) /\ Len(s \o r) = 3 /\ (s \o r)[1] = a /\ (s \o r)[2] = b /\ (s \o r)[3] = c
  <2>1. /\ s \o r \in Seq(S) /\ Len(s \o r) = Len(s) + Len(r)
        /\ \A i \in 1 .. Len(s) + Len(r) :
              (s \o r)[i] = IF i <= Len(s) THEN s[i] ELSE r[i - Len(s)]
    BY <1>1, ConcatProperties
  <2>2. 2 + 1 = 3 /\ 3 - 2 = 1 /\ {1, 2, 3} \subseteq 1 .. 2 + 1 /\ ~(3 <= 2) /\ 2 <= 2 /\ 1 <= 2
    OBVIOUS
  <2> QED
    BY <1>1, <2>1, <2>2
<1>3. \A i \in 1 .. 3 : i = 1 \/ i = 2 \/ i = 3
  OBVIOUS
<1>4. s \o r = all
  BY <1>1, <1>2, <1>3, SeqEqual
<1> QED
  BY <1>4 DEF s, r, all

\* Whoever comes first upgrades before it initializes.
LEMMA SwitchEffects ==
    ASSUME IInv, phase # "published", NEW c \in Contexts, NEW list, list = AccountContextSwitchFunc(c)
    PROVE  /\ list \in Seq(Effects)
           /\ \A i \in DOMAIN list : /\ list[i].op \in {"compatible", "initialize", "loaded"}
                                     /\ UpgradeFits(list[i], Before(list, i))
<1> DEFINE a == [op |-> "compatible"]
           b == [op |-> "initialize"]
           l == [op |-> "loaded", context |-> c]
<1>1. /\ a \in Effects /\ b \in Effects /\ l \in Effects
      /\ a.op = "compatible" /\ b.op = "initialize" /\ l.op = "loaded"
  BY DEF Effects
<1>2. list = (IF isNeedDoCompatibleProcess THEN << a >> ELSE << >>)
             \o (IF isInitializationFinished THEN << >> ELSE << b >>) \o << l >>
  BY DEF AccountContextSwitchFunc
<1> HIDE DEF a, b, l
<1>3. isNeedDoCompatibleProcess => NeverUnset
  BY DEF IInv, UpgradeInv
<1>4. ~isNeedDoCompatibleProcess => Upgraded
  BY DEF IInv, UpgradeInv
<1>5. \A before : /\ UpgradeFits(l, before)
                  /\ isNeedDoCompatibleProcess => UpgradeFits(a, before)
                  /\ Upgraded \/ a \in before => UpgradeFits(b, before)
  BY <1>1, <1>3 DEF UpgradeFits, Initializing, Upgrading
<1>6. CASE isNeedDoCompatibleProcess /\ isInitializationFinished
  <2>1. list = (<< a >> \o << >>) \o << l >>
    BY <1>2, <1>6, Zenon
  <2>2. (<< a >> \o << >>) \o << l >> = << a, l >>
    BY <1>1, OneEffect, ConcatEmptySeq, TwoParts
  <2>3. list = << a, l >>
    BY <2>1, <2>2
  <2>4. /\ << a, l >> \in Seq(Effects) /\ DOMAIN << a, l >> = {1, 2}
        /\ << a, l >>[1] = a /\ << a, l >>[2] = l
    BY <1>1, TwoEffects
  <2>5. list \in Seq(Effects) /\ DOMAIN list = {1, 2} /\ list[1] = a /\ list[2] = l
    BY <2>3, <2>4, Zenon
  <2> QED
    BY <1>1, <1>5, <1>6, <2>5
<1>7. CASE isNeedDoCompatibleProcess /\ ~isInitializationFinished
  <2>0. list = (<< a >> \o << b >>) \o << l >>
    BY <1>2, <1>7, Zenon
  <2>9. (<< a >> \o << b >>) \o << l >> = << a, b, l >>
    BY <1>1, TwoParts, ThreeParts, ZenonT(30)
  <2>1. list = << a, b, l >>
    BY <2>0, <2>9
  <2>2. /\ << a, b, l >> \in Seq(Effects) /\ DOMAIN << a, b, l >> = {1, 2, 3}
        /\ << a, b, l >>[1] = a /\ << a, b, l >>[2] = b /\ << a, b, l >>[3] = l
        /\ Before(<< a, b, l >>, 2) = {a}
    BY <1>1, ThreeEffects
  <2>3. /\ list \in Seq(Effects) /\ DOMAIN list = {1, 2, 3} /\ list[1] = a /\ list[2] = b /\ list[3] = l
        /\ Before(list, 2) = {a}
    BY <2>1, <2>2, Zenon
  <2>4. UpgradeFits(list[1], Before(list, 1)) /\ UpgradeFits(list[3], Before(list, 3))
    BY <1>5, <1>7, <2>3
  <2>5. UpgradeFits(list[2], Before(list, 2))
    BY <1>5, <2>3
  <2> QED
    BY <1>1, <2>3, <2>4, <2>5
<1>8. CASE ~isNeedDoCompatibleProcess /\ isInitializationFinished
  <2>1. list = << l >>
    BY <1>2, <1>8
  <2>2. << l >> \in Seq(Effects) /\ DOMAIN << l >> = {1} /\ << l >>[1] = l
    BY <1>1, OneEffect
  <2>3. list \in Seq(Effects) /\ DOMAIN list = {1} /\ list[1] = l
    BY <2>1, <2>2, Zenon
  <2> QED
    BY <1>1, <1>5, <2>3
<1>9. CASE ~isNeedDoCompatibleProcess /\ ~isInitializationFinished
  <2>0. list = (<< >> \o << b >>) \o << l >>
    BY <1>2, <1>9, Zenon
  <2>9. (<< >> \o << b >>) \o << l >> = << b, l >>
    BY <1>1, OneEffect, ConcatEmptySeq, TwoParts
  <2>1. list = << b, l >>
    BY <2>0, <2>9
  <2>2. /\ << b, l >> \in Seq(Effects) /\ DOMAIN << b, l >> = {1, 2}
        /\ << b, l >>[1] = b /\ << b, l >>[2] = l
    BY <1>1, TwoEffects
  <2>3. list \in Seq(Effects) /\ DOMAIN list = {1, 2} /\ list[1] = b /\ list[2] = l
    BY <2>1, <2>2, Zenon
  <2> QED
    BY <1>1, <1>4, <1>5, <1>9, <2>3
<1> QED
  BY <1>6, <1>7, <1>8, <1>9

LEMMA OnReceiveEventKeeps ==
    ASSUME IInv, OnReceiveEvent
    PROVE  IInv'
<1>1. PICK event : event = Head(events)
  OBVIOUS
<1>2. /\ events # << >> /\ events' = Tail(events)
      /\ Begin("event", Items,
               IF event.action = "USER_SWITCHED"
               THEN AccountContextSwitchFunc(foreground[event.context.userId])
               ELSE HandleSubProfileSwitched(event.context))
      /\ behind' = FALSE
      /\ UNCHANGED << active, foreground, configuration, persistent, usersParam, flags, faults, changes, accepted >>
  BY <1>1 DEF OnReceiveEvent
<1>3. /\ event \in [action : {"USER_SWITCHED", "SUB_PROFILE_SWITCHED"}, context : Contexts]
      /\ phase # "published"
  BY <1>1, <1>2, HeadTailProperties DEF IInv, TypeInv
<1>4. /\ event.context \in Contexts /\ event.context.userId \in Users /\ foreground \in [Users -> Contexts]
      /\ USER100 \in Users
  BY <1>3, AppearanceServiceAssumption DEF IInv, TypeInv
<1>5. PICK todo : todo = IF event.action = "USER_SWITCHED"
                         THEN AccountContextSwitchFunc(foreground[event.context.userId])
                         ELSE HandleSubProfileSwitched(event.context)
  OBVIOUS
<1>6. /\ todo \in Seq(Effects)
      /\ \A i \in DOMAIN todo :
            /\ todo[i].op \in {"compatible", "initialize", "loaded", "spread", "apply"}
            /\ UpgradeFits(todo[i], Before(todo, i))
  <2>1. CASE event.action = "USER_SWITCHED"
    <3>1. todo = AccountContextSwitchFunc(foreground[event.context.userId])
      BY <1>5, <2>1
    <3> QED
      BY <1>3, <1>4, <3>1, SwitchEffects
  <2>2. CASE event.action # "USER_SWITCHED" /\ event.context.userId = USER100
    <3>1. PICK list : list = AccountContextSwitchFunc(event.context)
      OBVIOUS
    <3>2. PICK s \in Effects : s = [op |-> "spread", context |-> event.context] /\ s.op = "spread"
      <4> DEFINE s == [op |-> "spread", context |-> event.context]
      <4>1. s \in Effects /\ s.op = "spread"
        BY <1>4 DEF Effects
      <4> QED
        BY <4>1, Zenon
    <3>3. todo = list \o << s >>
      BY <1>5, <2>2, <3>1, <3>2 DEF HandleSubProfileSwitched
    <3>4. /\ list \in Seq(Effects)
          /\ \A i \in DOMAIN list : /\ list[i].op \in {"compatible", "initialize", "loaded"}
                                    /\ UpgradeFits(list[i], Before(list, i))
      BY <1>3, <1>4, <3>1, SwitchEffects
    <3>5. /\ todo \in Seq(Effects)
          /\ \A i \in DOMAIN todo : (i \in DOMAIN list /\ todo[i] = list[i]) \/ todo[i] = s
          /\ \A j \in DOMAIN list : j \in DOMAIN todo /\ todo[j] = list[j]
      <4>1. PICK all : all = list \o << s >>
        OBVIOUS
      <4>2. /\ all \in Seq(Effects)
            /\ \A i \in DOMAIN all : (i \in DOMAIN list /\ all[i] = list[i]) \/ all[i] = s
            /\ \A j \in DOMAIN list : j \in DOMAIN all /\ all[j] = list[j]
        BY <3>2, <3>4, <4>1, ListAndOne, SMTT(30)
      <4> QED
        BY <3>3, <4>1, <4>2
    <3>6. \A i \in DOMAIN list : Before(todo, i) = Before(list, i)
      <4> SUFFICES ASSUME NEW i \in DOMAIN list
                   PROVE  Before(todo, i) = Before(list, i)
        OBVIOUS
      <4>1. DOMAIN list = 1 .. Len(list) /\ Len(list) \in Nat
        BY <3>4, LenProperties
      <4>2. \A j \in 1 .. i - 1 : j \in DOMAIN list
        BY <4>1
      <4>3. \A j \in 1 .. i - 1 : todo[j] = list[j]
        BY <3>5, <4>2
      <4> QED
        BY <4>3 DEF Before
    <3>7. \A before : UpgradeFits(s, before)
      BY <3>2 DEF UpgradeFits, Initializing
    <3> QED
      BY <3>2, <3>4, <3>5, <3>6, <3>7
  <2>3. CASE event.action # "USER_SWITCHED" /\ event.context.userId # USER100
    <3>1. PICK s \in Effects : /\ s = [op |-> "apply", source |-> foreground[USER100], target |-> event.context]
                               /\ s.op = "apply"
      <4> DEFINE s == [op |-> "apply", source |-> foreground[USER100], target |-> event.context]
      <4>1. foreground[USER100] \in Contexts
        BY <1>4
      <4>2. s \in Effects /\ s.op = "apply"
        BY <1>4, <4>1 DEF Effects
      <4> QED
        BY <4>2, Zenon
    <3>2. todo = << s >>
      BY <1>5, <2>3, <3>1 DEF HandleSubProfileSwitched
    <3>3. << s >> \in Seq(Effects) /\ DOMAIN << s >> = {1} /\ << s >>[1] = s
      BY OneEffect
    <3>4. todo \in Seq(Effects) /\ DOMAIN todo = {1} /\ todo[1] = s
      BY <3>2, <3>3, Zenon
    <3> QED
      BY <3>1, <3>4 DEF UpgradeFits, Initializing
  <2> QED
    BY <2>1, <2>2, <2>3
<1>7. \A i \in DOMAIN todo : ItemsOf(todo[i]) \subseteq Items /\ TypeFits(todo[i])'
  BY <1>6 DEF ItemsOf, TypeFits
<1>8. Begin("event", Items, todo) /\ "event" \in Threads /\ Items \in SUBSET Items
  BY <1>2, <1>5 DEF Threads
<1>9. /\ UNCHANGED << phase, isNeedDoCompatibleProcess, isInitializationFinished, onceFlag, appMgr >>
      /\ isNeedDoCompatibleProcess' \in BOOLEAN
      /\ phase' # "published" /\ ~isNeedDoCompatibleProcess' => Upgraded
      /\ isNeedDoCompatibleProcess' => NeverUnset
  BY <1>2 DEF flags, IInv, TypeInv, TypeOK, UpgradeInv
<1> QED
  BY <1>2, <1>6, <1>7, <1>8, <1>9, StartKeeps

\* What is promised does not depend on who is in front or on what is shown.
LEMMA EnvironmentKeeps ==
    ASSUME IInv, TypeOK', foreground' \in [Users -> Contexts],
           events' \in Seq([action : {"USER_SWITCHED", "SUB_PROFILE_SWITCHED"}, context : Contexts]),
           events' # << >> => phase' # "published",
           phase' # phase => phase # "published" /\ phase' # "published",
           UNCHANGED << persistent, usersParam, isNeedDoCompatibleProcess, isInitializationFinished,
                        thread, accepted >>
    PROVE  IInv'
<1>1. \A t \in Threads : \A i \in DOMAIN thread[t].todo : TypeFits(thread[t].todo[i])'
  BY DEF IInv, TypeInv, TypeFits
<1>2. TypeInv'
  BY <1>1 DEF IInv, TypeInv
<1>3. ApartInv'
  BY DEF IInv, ApartInv, ItemsOf, Busy
<1>4. PromiseInv'
  <2>1. ASSUME NEW t \in Threads, NEW i \in DOMAIN thread'[t].todo
        PROVE  PromiseFits(thread[t].todo[i], Before(thread[t].todo, i), thread[t].inDoubt)'
    <3>1. PromiseFits(thread[t].todo[i], Before(thread[t].todo, i), thread[t].inDoubt)
      BY DEF IInv, PromiseInv
    <3>2. PICK e : e = thread[t].todo[i]
      OBVIOUS
    <3>3. PICK before : before = Before(thread[t].todo, i)
      OBVIOUS
    <3>4. thread'[t].todo[i] = e /\ Before(thread[t].todo, i)' = before /\ thread'[t].inDoubt = thread[t].inDoubt
      BY <3>2, <3>3 DEF Before
    <3>5. PromiseFits(e, before, thread[t].inDoubt)
      BY <3>1, <3>2, <3>3
    <3> QED
      BY <3>4, <3>5 DEF PromiseFits, Entry, persistent
  <2> QED
    BY <2>1 DEF PromiseInv
<1>5. Upgraded' = Upgraded /\ NeverUnset' = NeverUnset
  BY DEF Upgraded, CarriedOver, NothingToCarry, NeverUnset, persistent
<1>6. UpgradeInv'
  <2>1. ASSUME NEW t \in Threads, NEW i \in DOMAIN thread'[t].todo
        PROVE  UpgradeFits(thread[t].todo[i], Before(thread[t].todo, i))'
    <3>1. UpgradeFits(thread[t].todo[i], Before(thread[t].todo, i))
      BY DEF IInv, UpgradeInv
    <3>2. PICK e : e = thread[t].todo[i]
      OBVIOUS
    <3>3. PICK before : before = Before(thread[t].todo, i)
      OBVIOUS
    <3>4. thread'[t].todo[i] = e /\ Before(thread[t].todo, i)' = before
      BY <3>2, <3>3 DEF Before
    <3>5. \A c, item : /\ CarriedOver(c, item)' = CarriedOver(c, item) /\ OldParam(item)' = OldParam(item)
                       /\ AcceptedInMemory(c, item)' = AcceptedInMemory(c, item)
      BY DEF CarriedOver, NothingToCarry, OldParam, AcceptedInMemory, Entry, persistent
    <3>6. UpgradeFits(e, before)
      BY <3>1, <3>2, <3>3
    <3> QED
      BY <1>5, <3>4, <3>5, <3>6 DEF UpgradeFits, Carries, Loads
  <2>2. phase' # "published" /\ ~isNeedDoCompatibleProcess' => Upgraded'
    BY <1>5 DEF IInv, UpgradeInv
  <2>3. isNeedDoCompatibleProcess' => NeverUnset'
    BY <1>5 DEF IInv, UpgradeInv
  <2> QED
    BY <2>1, <2>2, <2>3 DEF UpgradeInv
<1>7. AcceptedInv'
  BY DEF IInv, AcceptedInv, AcceptedInParam, AcceptedInMemory, NothingToCarry, LoadContextParam, OldParam,
         Entry, persistent
<1> QED
  BY <1>2, <1>3, <1>4, <1>6, <1>7 DEF IInv

LEMMA OnRemoveSystemAbilityKeeps ==
    ASSUME IInv, OnRemoveSystemAbility
    PROVE  IInv'
<1>1. /\ appMgr' = FALSE /\ phase = "serving" /\ phase' = "removed" /\ onceFlag' = {}
      /\ configuration' = [user \in Users |-> [item \in Items |-> Lost]] /\ shown' = NothingShown
      /\ UNCHANGED << environment, persistent, usersParam, isNeedDoCompatibleProcess,
                      isInitializationFinished, events, thread, faults, accepted >>
  BY DEF OnRemoveSystemAbility
<1>2. TypeOK'
  BY <1>1 DEF IInv, TypeInv, TypeOK, NothingShown, environment, persistent
<1>3. UNCHANGED << foreground, events >>
  BY <1>1 DEF environment
<1> QED
  BY <1>1, <1>2, <1>3, EnvironmentKeeps DEF IInv, TypeInv

LEMMA AppMgrStartsKeeps ==
    ASSUME IInv, AppMgrStarts
    PROVE  IInv'
<1>1. /\ appMgr' = TRUE
      /\ UNCHANGED << environment, configuration, persistent, usersParam, isNeedDoCompatibleProcess,
                      isInitializationFinished, onceFlag, phase, events, thread, faults, changes, history >>
  BY DEF AppMgrStarts
<1>2. TypeOK'
  BY <1>1 DEF IInv, TypeInv, TypeOK, environment, persistent, history
<1>3. UNCHANGED << foreground, events, accepted >>
  BY <1>1 DEF environment, history
<1> QED
  BY <1>1, <1>2, <1>3, EnvironmentKeeps DEF IInv, TypeInv

\* An event is about an account, and is published to a service that subscribed.
LEMMA PublishType ==
    ASSUME TypeInv, NEW event \in [action : {"USER_SWITCHED", "SUB_PROFILE_SWITCHED"}, context : Contexts],
           Publish(event)
    PROVE  /\ events' \in Seq([action : {"USER_SWITCHED", "SUB_PROFILE_SWITCHED"}, context : Contexts])
           /\ events' # << >> => phase # "published"
BY AppendProperties DEF Publish, TypeInv

LEMMA SwitchUserKeeps ==
    ASSUME IInv, NEW user \in Users, SwitchUser(user)
    PROVE  IInv'
<1>1. /\ active' = {user}
      /\ Publish([action |-> "USER_SWITCHED", context |-> foreground[user]])
      /\ UNCHANGED << foreground, behind, configuration, persistent, usersParam, flags, thread, faults, history >>
  BY DEF SwitchUser
<1>2. TypeOK'
  BY <1>1 DEF IInv, TypeInv, TypeOK, persistent, flags, history
<1>3. foreground[user] \in Contexts
  BY DEF IInv, TypeInv
<1>4. /\ events' \in Seq([action : {"USER_SWITCHED", "SUB_PROFILE_SWITCHED"}, context : Contexts])
      /\ events' # << >> => phase # "published"
  BY <1>1, <1>3, PublishType DEF IInv
<1>5. UNCHANGED << foreground, phase, isNeedDoCompatibleProcess, isInitializationFinished, accepted >>
  BY <1>1 DEF flags, history
<1> QED
  BY <1>1, <1>2, <1>4, <1>5, EnvironmentKeeps DEF IInv, TypeInv

LEMMA SwitchSubProfileKeeps ==
    ASSUME IInv, NEW context \in Contexts, SwitchSubProfile(context)
    PROVE  IInv'
<1>1. /\ foreground' = [foreground EXCEPT ![context.userId] = context]
      /\ Publish([action |-> "SUB_PROFILE_SWITCHED", context |-> context])
      /\ UNCHANGED << active, behind, configuration, persistent, usersParam, flags, thread, faults, history >>
  BY DEF SwitchSubProfile
<1>2. /\ foreground' \in [Users -> Contexts]
      /\ \A user \in Users : foreground'[user] \in Contexts /\ foreground'[user].userId = user
  BY <1>1 DEF IInv, TypeInv, TypeOK
<1>3. TypeOK'
  BY <1>1, <1>2 DEF IInv, TypeInv, TypeOK, persistent, flags, history
<1>4. /\ events' \in Seq([action : {"USER_SWITCHED", "SUB_PROFILE_SWITCHED"}, context : Contexts])
      /\ events' # << >> => phase # "published"
  BY <1>1, PublishType DEF IInv
<1>5. UNCHANGED << phase, isNeedDoCompatibleProcess, isInitializationFinished, accepted >>
  BY <1>1 DEF flags, history
<1> QED
  BY <1>1, <1>2, <1>3, <1>4, <1>5, EnvironmentKeeps

\* A start without handlers: nothing is under way, and nothing is in memory.
Started ==
    /\ thread \in [Threads -> Handlers] /\ \A t \in Threads : thread[t] = Idle
    /\ phase = "published" /\ events = << >>
    /\ isNeedDoCompatibleProcess = FALSE /\ isInitializationFinished = FALSE
    /\ TypeOK /\ foreground \in [Users -> Contexts]
    /\ \A c \in Contexts, item \in Items : AcceptedInParam(c, item)

LEMMA NoHandlers == Started => IInv
<1> SUFFICES ASSUME Started PROVE IInv
  OBVIOUS
<1>1. \A t \in Threads : ~Busy(t) /\ thread[t].todo = << >> /\ DOMAIN thread[t].todo = {}
  BY NoEffects DEF Started, Idle, Busy
<1>2. TypeInv
  BY <1>1 DEF Started, TypeInv
<1>3. ApartInv /\ PromiseInv /\ UpgradeInv
  BY <1>1 DEF Started, ApartInv, PromiseInv, UpgradeInv
<1>4. AcceptedInv
  BY DEF Started, AcceptedInv
<1> QED
  BY <1>2, <1>3, <1>4 DEF IInv

LEMMA CrashKeeps ==
    ASSUME IInv, Crash
    PROVE  IInv'
<1>1. /\ usersParam' = [c \in {} |-> UiAppearanceParam]
      /\ isNeedDoCompatibleProcess' = FALSE /\ isInitializationFinished' = FALSE
      /\ onceFlag' = {} /\ phase' = "published" /\ events' = << >>
      /\ thread' = [t \in Threads |-> Idle]
      /\ shown' = NothingShown
      /\ UNCHANGED << environment, configuration, persistent, appMgr, faults, accepted >>
  BY DEF Crash
<1>2. TypeOK'
  BY <1>1 DEF IInv, TypeInv, TypeOK, NothingShown, environment, persistent
<1>3. UNCHANGED foreground
  BY <1>1 DEF environment
<1>4. (\A c \in Contexts, item \in Items : AcceptedInParam(c, item))'
  BY <1>1 DEF IInv, AcceptedInv, AcceptedInParam, NothingToCarry, LoadContextParam, OldParam, persistent
<1>5. thread' \in [Threads -> Handlers] /\ \A t \in Threads : thread'[t] = Idle
  BY <1>1, IdleIsHandler
<1>6. foreground' \in [Users -> Contexts]
  BY <1>3 DEF IInv, TypeInv
<1>7. Started'
  BY <1>1, <1>2, <1>4, <1>5, <1>6 DEF Started, Idle
<1> QED
  BY <1>7, NoHandlers, PTL

-----------------------------------------------------------------------------
(* The theorems.                                                           *)

LEMMA InitIInv == Init => IInv
<1> SUFFICES ASSUME Init PROVE IInv
  OBVIOUS
<1>1. PICK set \in ParamChoices :
        param = [c \in ParamContexts |-> [item \in Items |-> IF c \in set THEN 1 ELSE Unset]]
  BY DEF Init
<1>2. /\ active \in (SUBSET Users) \ {{}} /\ firstInitialization \in BOOLEAN
  BY AppearanceServiceAssumption DEF Init
<1>3. /\ foreground \in [Users -> Contexts]
      /\ \A user \in Users : foreground[user] \in Contexts /\ foreground[user].userId = user
  BY AppearanceServiceAssumption DEF Init
<1>4. /\ param \in [ParamContexts -> [Items -> Values \cup {Unset}]]
      /\ baseParam \in [Items -> Values]
      /\ configuration \in [Users -> [Items -> Values \cup {Lost}]]
  BY <1>1 DEF Init, Values, Unset
<1>5. \A default \in Values : GetDefaultFontWeightScaleValue(default) \in Values
  BY AppearanceServiceAssumption DEF GetDefaultFontWeightScaleValue
<1>6. \A item \in Items : OldParam(item) \in Values /\ Default(item) \in Values
  BY <1>4, <1>5 DEF OldParam, Default, Values
<1>7. \A c \in Contexts, item \in Items : LoadContextParam(c, item) \in Values
  <2> SUFFICES ASSUME NEW c \in Contexts, NEW item \in Items
               PROVE  LoadContextParam(c, item) \in Values
    OBVIOUS
  <2>1. c \in ParamContexts /\ Base(c.userId) \in ParamContexts
    BY AppearanceServiceAssumption DEF ParamContexts
  <2>2. param[c][item] \in Values \cup {Unset} /\ param[Base(c.userId)][item] \in Values \cup {Unset}
    BY <1>4, <2>1
  <2> QED
    BY <1>6, <2>2 DEF LoadContextParam
<1>8. accepted = [c \in Contexts |-> [item \in Items |->
                      IF firstInitialization /\ param[c][item] = Unset THEN OldParam(item)
                      ELSE LoadContextParam(c, item)]]
  BY DEF Init
<1>9. accepted \in [Contexts -> [Items -> Values \cup {None}]]
  BY <1>6, <1>7, <1>8
<1>10. \A c \in Contexts, item \in Items : AcceptedInParam(c, item)
  BY <1>8 DEF AcceptedInParam, NothingToCarry
<1>11. TypeOK
  BY <1>2, <1>3, <1>4, <1>9 DEF TypeOK, Init, NothingShown
<1>12. thread \in [Threads -> Handlers] /\ \A t \in Threads : thread[t] = Idle
  BY IdleIsHandler DEF Init
<1> QED
  BY <1>3, <1>10, <1>11, <1>12, NoHandlers DEF Init, Started

LEMMA NextIInv == IInv /\ [Next]_vars => IInv'
<1> SUFFICES ASSUME IInv, [Next]_vars PROVE IInv'
  OBVIOUS
<1>1. CASE Request
  BY <1>1, RequestKeeps
<1>2. CASE OnAddSystemAbility
  BY <1>2, OnAddSystemAbilityKeeps
<1>3. CASE OnRemoveSystemAbility
  BY <1>3, OnRemoveSystemAbilityKeeps
<1>4. CASE AppMgrStarts
  BY <1>4, AppMgrStartsKeeps
<1>5. CASE OnReceiveEvent
  BY <1>5, OnReceiveEventKeeps
<1>6. CASE Crash
  BY <1>6, CrashKeeps
<1>7. CASE \E user \in Users : SwitchUser(user)
  BY <1>7, SwitchUserKeeps
<1>8. CASE \E context \in Contexts : SwitchSubProfile(context)
  BY <1>8, SwitchSubProfileKeeps
<1>9. CASE \E t \in Threads : Step(t)
  <2> SUFFICES ASSUME NEW t \in Threads, Step(t) PROVE IInv'
    BY <1>9
  <2>1. CASE UpdateConfiguration(t) \/ SetBaseParam(t) \/ SetContextParam(t) \/ ConfigurePersistence(t) \/ Promise(t)
    BY <2>1, UpdateConfigurationKeeps, SetBaseParamKeeps, SetContextParamKeeps, ConfigurePersistenceKeeps,
       PromiseKeeps
  <2>2. CASE UpgradeIfNeeded(t) \/ InitializeIfNeeded(t) \/ DoCompatibleProcess(t) \/ GetOldParam(t) \/ CarryTo(t)
             \/ Carried(t)
    BY <2>2, UpgradeIfNeededKeeps, InitializeIfNeededKeeps, DoCompatibleProcessKeeps, GetOldParamKeeps,
       CarryToKeeps, CarriedKeeps
  <2>3. CASE DoInitProcess(t) \/ InitContext(t) \/ Initialized(t)
    BY <2>3, DoInitProcessKeeps, InitContextKeeps, InitializedKeeps
  <2>4. CASE UpdateCurrentUserConfiguration(t) \/ SendOnce(t) \/ LoadedDarkMode(t)
             \/ ApplyAppearanceContextToUser(t) \/ GetMultipleUsers(t) \/ UpdateForeground(t)
    BY <2>4, UpdateCurrentUserConfigurationKeeps, SendOnceKeeps, LoadedDarkModeKeeps,
       ApplyAppearanceContextToUserKeeps, GetMultipleUsersKeeps, UpdateForegroundKeeps
  <2> QED
    BY <2>1, <2>2, <2>3, <2>4 DEF Step
<1>10. CASE UNCHANGED vars
  <2>1. UNCHANGED << environment, configuration, persistent, usersParam, flags, events, thread, history >>
    BY <1>10 DEF vars
  <2>2. TypeOK'
    BY <2>1 DEF IInv, TypeInv, TypeOK, environment, persistent, flags, history
  <2>3. UNCHANGED << foreground, phase, isNeedDoCompatibleProcess, isInitializationFinished, accepted >>
    BY <2>1 DEF environment, flags, history
  <2> QED
    BY <2>1, <2>2, <2>3, EnvironmentKeeps DEF IInv, TypeInv
<1> QED
  BY <1>1, <1>2, <1>3, <1>4, <1>5, <1>6, <1>7, <1>8, <1>9, <1>10 DEF Next

THEOREM Inductive == Spec => []IInv
BY InitIInv, NextIInv, PTL DEF Spec

\* The state of the service keeps its types: only accounts of the device are in
\* memory, in front, shown or promised anything, an account whose configuration was
\* sent once is in memory, and every value is one of the device's, or none.
THEOREM AppearanceTypeOKHolds == Spec => []TypeOK
<1>1. IInv => TypeOK
  BY DEF IInv, TypeInv
<1> QED
  BY <1>1, Inductive, PTL

\* What an account had at the start, or was last told that it has now, is what
\* its parameters stand for, also half-way through an upgrade, and what is in
\* memory, for any users and accounts, in any order of handlers, with crashes and
\* failing calls (ConfigurePersistence, DoCompatibleProcess, DoInitProcess,
\* ApplyAppearanceContextToUser).
THEOREM AcceptedIsAppliedHolds == Spec => []AcceptedIsApplied
<1>1. IInv => AcceptedIsApplied
  BY DEF IInv, AcceptedInv, AcceptedInParam, AcceptedInMemory, AcceptedIsApplied
<1> QED
  BY <1>1, Inductive, PTL

-----------------------------------------------------------------------------
(* What users see: shapes of todo lists.                                   *)

\* Effects of handlers that set an item, and of what comes before accounts are loaded.
Setting == {"configuration", "base", "persist", "param", "promise"}
Preparing == {"upgradeIfNeeded", "compatible", "carry", "carryTo", "carried", "initContext"}
Showing == {"loaded", "apply", "update", "send"}

Account(e) == IF e.op = "apply" THEN e.target ELSE e.context
About(e) == IF "user" \in DOMAIN e THEN e.user ELSE e.context.userId

\* An effect that ends in sending the configuration of its account.
Forced(e) ==
    \/ e.op = "apply"
    \/ e.op = "loaded" /\ IsSubProfileContext(e.context)
    \/ e.op \in {"update", "send"} /\ e.force

ShapeFits(e, before) ==
    /\ e.op = "configuration" => before = {}
    /\ e.op = "persist" => \A b \in before : b.op \in Setting
    /\ e.op \in {"update", "send"} => \A b \in before : b.op = "param"
    /\ e.op \in {"loaded", "apply"} => \A b \in before : b.op # "configuration"
    /\ e.op \in {"initialize", "initContext"} => \A b \in before : b.op \in Preparing
    /\ e.op \in {"loaded", "updateForeground"} =>
          isInitializationFinished \/ \E b \in before : b.op \in {"initialize", "initialized"}
    /\ e.op \notin Setting => phase # "published"

\* The configuration goes to users whose accounts are given the value next.
Persists(todo, user, item) ==
    \E i \in DOMAIN todo : todo[i].op = "persist" /\ About(todo[i]) = user /\ item \in DOMAIN todo[i].values

ShapeInv ==
    \A t \in Threads : \A i \in DOMAIN thread[t].todo :
        LET e == thread[t].todo[i]
        IN  /\ ShapeFits(e, Before(thread[t].todo, i))
            /\ e.op = "configuration" => \A user \in e.users : Persists(thread[t].todo, user, e.item)

-----------------------------------------------------------------------------
(* What users see: what has been sent, and what is about to be.            *)

IsShown(user) == shown[user] \in Contexts
NoneShown == \A user \in Users : ~IsShown(user)

\* A switch to another sub-profile of a user waits for its turn.
Awaited(user) ==
    \E i \in DOMAIN events :
        events[i].action = "SUB_PROFILE_SWITCHED" /\ events[i].context.userId = user
Current(c) == c = foreground[c.userId] \/ Awaited(c.userId)

\* A parameter is what memory has, or is about to be.
SavedAfter(c, item, before) ==
    \/ param[c][item] = Entry(c)[item]
    \/ \E b \in before : /\ b.op = "param" /\ b.context = c /\ item \in DOMAIN b.values
                         /\ b.values[item] = Entry(c)[item]

\* A value that is yet to be given to an account was sent to its user.
Sent(e, before, item) ==
    IF \E b \in before : b.op = "configuration"
    THEN \A b \in before : b.op = "configuration" =>
            About(e) \in b.users /\ b.item = item /\ b.value = e.values[item]
    ELSE configuration[About(e)][item] = e.values[item]

ShownFits(e, before, inDoubt) ==
    /\ e.op \in Showing /\ ~inDoubt => Current(Account(e))
    /\ e.op = "send" /\ ~inDoubt => e.entry = Entry(e.context)
    /\ e.op \in {"update", "send"} /\ ~inDoubt =>
          isInitializationFinished \/ \A item \in Items : SavedAfter(e.context, item, before)
    /\ e.op \in {"initialize", "initContext"} /\ isInitializationFinished => NoneShown
    /\ e.op = "persist" /\ IsShown(About(e)) =>
          /\ "user" \in DOMAIN e \/ Current(e.context)
          /\ \A item \in DOMAIN e.values : Sent(e, before, item)
    /\ e.op = "param" /\ (~inDoubt \/ ~NoneShown) =>
          \A item \in DOMAIN e.values : e.values[item] = Entry(e.context)[item]

ShownInv ==
    \A t \in Threads : \A i \in DOMAIN thread[t].todo :
        ShownFits(thread[t].todo[i], Before(thread[t].todo, i), thread[t].inDoubt)

\* Where anything is shown without doubt, nobody deals with the items of another.
SoleInv ==
    /\ \A t \in Threads : Busy(t) => thread[t].items # {}
    /\ ~NoneShown =>
          /\ phase # "published"
          /\ \A t, u \in Threads :
                t # u /\ Busy(t) /\ Busy(u) => thread[t].items \cap thread[u].items = {}
    /\ \A c \in onceFlag : shown[c.userId] # Nobody

\* The last switch of a user's sub-profiles that waits is to the one in front.
EventsInv ==
    \A i \in DOMAIN events : events[i].action = "SUB_PROFILE_SWITCHED" =>
        LET c == events[i].context
        IN  /\ IsSubProfileContext(c)
            /\ \/ c = foreground[c.userId]
               \/ \E j \in DOMAIN events : /\ j > i /\ events[j].action = "SUB_PROFILE_SWITCHED"
                                           /\ events[j].context.userId = c.userId

\* What a list is going to do.
ForcedFor(todo, user) ==
    \E i \in DOMAIN todo : Forced(todo[i]) /\ Account(todo[i]).userId = user
PersistPending(todo, user, item) ==
    \E i \in DOMAIN todo :
        /\ todo[i].op = "persist" /\ About(todo[i]) = user /\ item \in DOMAIN todo[i].values
        /\ \A b \in Before(todo, i) : b.op # "configuration"
ParamPending(todo, c, item) ==
    \E i \in DOMAIN todo : todo[i].op = "param" /\ todo[i].context = c /\ item \in DOMAIN todo[i].values

UnderWay(user) == \E t \in Threads : ForcedFor(thread[t].todo, user)
Agrees(user, item) ==
    \/ configuration[user][item] = Entry(foreground[user])[item]
    \/ \E t \in Threads : PersistPending(thread[t].todo, user, item)
Saved(user, item) ==
    \/ param[foreground[user]][item] = Entry(foreground[user])[item]
    \/ \E t \in Threads : ParamPending(thread[t].todo, foreground[user], item)

\* A user sees the account in front, as it is in memory and, before the
\* initialization, in its parameters, or is going to see another.
Follows(user) ==
    \/ Awaited(user) \/ UnderWay(user)
    \/ /\ shown[user] = foreground[user]
       /\ \A item \in Items : Agrees(user, item) /\ (isInitializationFinished \/ Saved(user, item))
FollowInv == \A user \in Users : IsShown(user) => Follows(user)

SInv == ShapeInv /\ ShownInv /\ SoleInv /\ EventsInv /\ FollowInv

-----------------------------------------------------------------------------
(* What users see: lists.                                                  *)

\* What was not first in a list is still there when the first is replaced.
LEMMA OldStays ==
    ASSUME NEW more \in Seq(Effects), NEW s \in Seq(Effects), s # << >>
    PROVE  \A k \in DOMAIN s : k # 1 =>
              \E i \in DOMAIN (more \o Tail(s)) :
                 /\ (more \o Tail(s))[i] = s[k]
                 /\ \A b \in Before(more \o Tail(s), i) :
                       b \in Before(s, k) \/ \E j \in DOMAIN more : b = more[j]
<1> SUFFICES ASSUME NEW k \in DOMAIN s, k # 1
             PROVE  \E i \in DOMAIN (more \o Tail(s)) :
                       /\ (more \o Tail(s))[i] = s[k]
                       /\ \A b \in Before(more \o Tail(s), i) :
                             b \in Before(s, k) \/ \E j \in DOMAIN more : b = more[j]
  OBVIOUS
<1> DEFINE all == more \o Tail(s)
           m == Len(more)
           n == Len(s)
<1>1. /\ m \in Nat /\ n \in Nat /\ n >= 1 /\ DOMAIN all = 1 .. m + n - 1
      /\ \A j \in 1 .. m : all[j] = more[j]
      /\ \A j \in 2 .. n : all[m + j - 1] = s[j]
  BY Replaced
<1>2. DOMAIN more = 1 .. m /\ DOMAIN s = 1 .. n
  BY LenProperties
<1> HIDE DEF all, m, n
<1>3. k \in 2 .. n /\ m + k - 1 \in DOMAIN all /\ all[m + k - 1] = s[k]
  BY <1>1, <1>2
<1>4. ASSUME NEW b \in Before(all, m + k - 1)
      PROVE  b \in Before(s, k) \/ \E j \in DOMAIN more : b = more[j]
  <2>1. PICK j \in 1 .. (m + k - 1) - 1 : b = all[j]
    BY DEF Before
  <2>2. CASE j <= m
    <3>1. j \in 1 .. m
      BY <1>1, <2>2
    <3> QED
      BY <1>1, <1>2, <2>1, <3>1
  <2>3. CASE ~(j <= m)
    <3> DEFINE h == j - m + 1
    <3>1. h \in 2 .. n /\ m + h - 1 = j /\ h \in 1 .. k - 1
      BY <1>1, <1>3, <2>3, SMTT(30)
    <3>2. all[j] = s[h]
      BY <1>1, <3>1
    <3> QED
      BY <2>1, <3>1, <3>2 DEF Before
  <2> QED
    BY <2>2, <2>3
<1> QED
  BY <1>3, <1>4 DEF all

\* What replaces the first is in the list.
LEMMA NewIsThere ==
    ASSUME NEW E, NEW more \in Seq(E), NEW s \in Seq(E), s # << >>, NEW j \in DOMAIN more
    PROVE  j \in DOMAIN (more \o Tail(s)) /\ (more \o Tail(s))[j] = more[j]
<1>1. DOMAIN more = 1 .. Len(more)
  BY LenProperties
<1>2. /\ Len(more) \in Nat /\ Len(s) \in Nat /\ Len(s) >= 1
      /\ DOMAIN (more \o Tail(s)) = 1 .. (Len(more) + Len(s) - 1)
      /\ (more \o Tail(s))[j] = more[j]
  BY <1>1, Replaced
<1>3. 1 <= j /\ j <= Len(more) + Len(s) - 1 /\ j \in Nat
  BY <1>1, <1>2
<1> QED
  BY <1>2, <1>3

\* What a list is going to do it still does, unless that was the first.
LEMMA PendingStays ==
    ASSUME NEW more \in Seq(Effects), NEW s \in Seq(Effects), s # << >>
    PROVE  /\ \A user : ForcedFor(s, user) =>
                 \/ ForcedFor(more \o Tail(s), user)
                 \/ Forced(Head(s)) /\ Account(Head(s)).userId = user
           /\ (\A j \in DOMAIN more : more[j].op # "configuration") =>
                 \A user, item : PersistPending(s, user, item) =>
                    \/ PersistPending(more \o Tail(s), user, item)
                    \/ Head(s).op = "persist" /\ About(Head(s)) = user /\ item \in DOMAIN Head(s).values
           /\ \A c, item : ParamPending(s, c, item) =>
                 \/ ParamPending(more \o Tail(s), c, item)
                 \/ Head(s).op = "param" /\ Head(s).context = c /\ item \in DOMAIN Head(s).values
<1>0. s[1] = Head(s)
  OBVIOUS
<1> DEFINE all == more \o Tail(s)
<1>4. \A k \in DOMAIN s : k # 1 =>
         \E i \in DOMAIN all :
            /\ all[i] = s[k]
            /\ \A b \in Before(all, i) : b \in Before(s, k) \/ \E j \in DOMAIN more : b = more[j]
  BY OldStays
<1> HIDE DEF all
<1>1. ASSUME NEW user, ForcedFor(s, user)
      PROVE  ForcedFor(all, user) \/ (Forced(Head(s)) /\ Account(Head(s)).userId = user)
  <2>1. PICK k \in DOMAIN s : Forced(s[k]) /\ Account(s[k]).userId = user
    BY <1>1 DEF ForcedFor
  <2>2. CASE k = 1
    BY <1>0, <2>1, <2>2
  <2>3. CASE k # 1
    <3>1. PICK i \in DOMAIN all : all[i] = s[k]
      BY <1>4, <2>3
    <3> QED
      BY <2>1, <3>1 DEF ForcedFor
  <2> QED
    BY <2>2, <2>3
<1>2. ASSUME \A j \in DOMAIN more : more[j].op # "configuration", NEW user, NEW item, PersistPending(s, user, item)
      PROVE  \/ PersistPending(all, user, item)
             \/ Head(s).op = "persist" /\ About(Head(s)) = user /\ item \in DOMAIN Head(s).values
  <2>1. PICK k \in DOMAIN s : /\ s[k].op = "persist" /\ About(s[k]) = user /\ item \in DOMAIN s[k].values
                              /\ \A b \in Before(s, k) : b.op # "configuration"
    BY <1>2 DEF PersistPending
  <2>2. CASE k = 1
    BY <1>0, <2>1, <2>2
  <2>3. CASE k # 1
    <3>1. PICK i \in DOMAIN all :
             /\ all[i] = s[k]
             /\ \A b \in Before(all, i) : b \in Before(s, k) \/ \E j \in DOMAIN more : b = more[j]
      BY <1>4, <2>3
    <3>2. \A b \in Before(all, i) : b.op # "configuration"
      BY <1>2, <2>1, <3>1
    <3> QED
      BY <2>1, <3>1, <3>2 DEF PersistPending
  <2> QED
    BY <2>2, <2>3
<1>3. ASSUME NEW c, NEW item, ParamPending(s, c, item)
      PROVE  \/ ParamPending(all, c, item)
             \/ Head(s).op = "param" /\ Head(s).context = c /\ item \in DOMAIN Head(s).values
  <2>1. PICK k \in DOMAIN s : s[k].op = "param" /\ s[k].context = c /\ item \in DOMAIN s[k].values
    BY <1>3 DEF ParamPending
  <2>2. CASE k = 1
    BY <1>0, <2>1, <2>2
  <2>3. CASE k # 1
    <3>1. PICK i \in DOMAIN all : all[i] = s[k]
      BY <1>4, <2>3
    <3> QED
      BY <2>1, <3>1 DEF ParamPending
  <2> QED
    BY <2>2, <2>3
<1> QED
  BY <1>1, <1>2, <1>3 DEF all

-----------------------------------------------------------------------------
(* What users see: what a step of a handler may do.                        *)

KeepsShape(t, more) ==
    LET e == Effect(t)
    IN  /\ \A i \in DOMAIN more :
              /\ ShapeFits(more[i], Before(more, i))'
              /\ more[i].op # "configuration"
              /\ e.op # "param"
              /\ e.op \in Setting => more[i].op \in Setting
              /\ e.op \in Preparing => more[i].op \in Preparing
        /\ e.op \in {"initialize", "initialized"} =>
              isInitializationFinished' \/ \E j \in DOMAIN more : more[j].op \in {"initialize", "initialized"}
        /\ phase' = phase
        /\ isInitializationFinished => isInitializationFinished'

LEMMA ShapeKept ==
    ASSUME TypeInv, ShapeInv, NEW t \in Threads, NEW more \in Seq(Effects),
           Proceeds(t, more), KeepsShape(t, more)
    PROVE  /\ ShapeInv'
           /\ \A i \in DOMAIN thread'[t].todo : thread'[t].todo[i].op # "configuration"
<1>1. ASSUME NEW u \in Threads, NEW i \in DOMAIN thread'[u].todo
      PROVE  /\ ShapeFits(thread[u].todo[i], Before(thread[u].todo, i))'
             /\ thread'[u].todo[i].op = "configuration" =>
                   /\ u # t
                   /\ \A user \in thread'[u].todo[i].users :
                         Persists(thread'[u].todo, user, thread'[u].todo[i].item)
  <2>1. PICK e : e = thread'[u].todo[i]
    OBVIOUS
  <2>2. PICK after : after = Before(thread'[u].todo, i)
    OBVIOUS
  <2>3. CASE u # t /\ thread'[u] = thread[u]
    <3>1. /\ ShapeFits(e, after)
          /\ e.op = "configuration" => \A user \in e.users : Persists(thread'[u].todo, user, e.item)
      BY <2>1, <2>2, <2>3 DEF ShapeInv
    <3>2. ShapeFits(e, after)'
      BY <3>1 DEF ShapeFits, KeepsShape
    <3> QED
      BY <2>1, <2>2, <2>3, <3>1, <3>2 DEF ShapeFits, Before
  <2>4. CASE u = t /\ i \in DOMAIN more /\ thread'[t].todo[i] = more[i]
             /\ Before(thread'[t].todo, i) = Before(more, i)
    <3>1. ShapeFits(e, after)' /\ e.op # "configuration"
      BY <2>1, <2>2, <2>4 DEF KeepsShape, ShapeFits
    <3> QED
      BY <2>1, <2>2, <3>1 DEF ShapeFits, Before
  <2>5. ASSUME u = t, NEW k \in DOMAIN thread[t].todo, e = thread[t].todo[k],
               Effect(t) \in Before(thread[t].todo, k),
               \A b \in Before(thread[t].todo, k) : b = Effect(t) \/ b \in after,
               \A b \in after : b \in Before(thread[t].todo, k) \/ \E j \in DOMAIN more : b = more[j],
               \A j \in DOMAIN more : more[j] \in after
        PROVE  /\ ShapeFits(thread[u].todo[i], Before(thread[u].todo, i))'
               /\ thread'[u].todo[i].op # "configuration"
    <3>1. PICK before : before = Before(thread[t].todo, k)
      OBVIOUS
    <3>2. ShapeFits(e, before)
      BY <2>5, <3>1 DEF ShapeInv
    <3>3. PICK head : head = Effect(t)
      OBVIOUS
    <3>4. /\ head \in before
          /\ \A b \in before : b = head \/ b \in after
          /\ \A b \in after : b \in before \/ \E j \in DOMAIN more : b = more[j]
          /\ \A j \in DOMAIN more : more[j] \in after
      BY <2>5, <3>1, <3>3
    <3>5. e.op # "configuration"
      BY <3>2, <3>4 DEF ShapeFits
    <3>6. /\ \A j \in DOMAIN more : /\ more[j].op # "configuration" /\ head.op # "param"
                                    /\ head.op \in Setting => more[j].op \in Setting
                                    /\ head.op \in Preparing => more[j].op \in Preparing
          /\ head.op \in {"initialize", "initialized"} =>
                isInitializationFinished' \/ \E j \in DOMAIN more : more[j].op \in {"initialize", "initialized"}
          /\ phase' = phase
          /\ isInitializationFinished => isInitializationFinished'
      BY <3>3 DEF KeepsShape
    <3>7. e.op = "persist" => \A b \in after : b.op \in Setting
      BY <3>2, <3>4, <3>6 DEF ShapeFits
    <3>8. e.op \in {"update", "send"} => \A b \in after : b.op = "param"
      BY <3>2, <3>4, <3>6 DEF ShapeFits
    <3>9. e.op \in {"loaded", "apply"} => \A b \in after : b.op # "configuration"
      BY <3>2, <3>4, <3>6 DEF ShapeFits
    <3>10. e.op \in {"initialize", "initContext"} => \A b \in after : b.op \in Preparing
      BY <3>2, <3>4, <3>6 DEF ShapeFits
    <3>11. e.op \in {"loaded", "updateForeground"} =>
              isInitializationFinished' \/ \E b \in after : b.op \in {"initialize", "initialized"}
      <4> SUFFICES ASSUME e.op \in {"loaded", "updateForeground"}, ~isInitializationFinished'
                   PROVE  \E b \in after : b.op \in {"initialize", "initialized"}
        OBVIOUS
      <4>1. PICK b \in before : b.op \in {"initialize", "initialized"}
        BY <3>2, <3>6 DEF ShapeFits
      <4> QED
        BY <3>4, <3>6, <4>1
    <3>12. e.op \notin Setting => phase' # "published"
      BY <3>2, <3>6 DEF ShapeFits
    <3>13. ShapeFits(e, after)'
      BY <3>5, <3>7, <3>8, <3>9, <3>10, <3>11, <3>12 DEF ShapeFits
    <3> QED
      BY <2>1, <2>2, <2>5, <3>5, <3>13 DEF ShapeFits, Before
  <2>6. \/ u # t /\ thread'[u] = thread[u]
        \/ /\ u = t /\ i \in DOMAIN more /\ thread'[t].todo[i] = more[i]
           /\ Before(thread'[t].todo, i) = Before(more, i)
        \/ /\ u = t
           /\ \E k \in DOMAIN thread[t].todo :
                 /\ e = thread[t].todo[k]
                 /\ Effect(t) \in Before(thread[t].todo, k)
                 /\ \A b \in Before(thread[t].todo, k) : b = Effect(t) \/ b \in after
                 /\ \A b \in after : b \in Before(thread[t].todo, k) \/ \E j \in DOMAIN more : b = more[j]
                 /\ \A j \in DOMAIN more : more[j] \in after
    <3>1. e = thread'[u].todo[i] /\ after = Before(thread'[u].todo, i)
      BY <2>1, <2>2
    <3>2. \/ u # t /\ thread'[u] = thread[u]
          \/ /\ u = t /\ i \in DOMAIN more
             /\ thread'[t].todo[i] = more[i] /\ Before(thread'[t].todo, i) = Before(more, i)
          \/ /\ u = t
             /\ \E k \in DOMAIN thread[t].todo :
                   /\ thread'[t].todo[i] = thread[t].todo[k] /\ Effect(t) \in Before(thread[t].todo, k)
                   /\ \A b \in Before(thread[t].todo, k) :
                         b = Effect(t) \/ b \in Before(thread'[t].todo, i)
                   /\ \A b \in Before(thread'[t].todo, i) :
                         b \in Before(thread[t].todo, k) \/ \E j \in DOMAIN more : b = more[j]
                   /\ \A j \in DOMAIN more : more[j] \in Before(thread'[t].todo, i)
      BY AfterStep
    <3> QED
      BY <3>1, <3>2
  <2> QED
    BY <2>3, <2>4, <2>5, <2>6
<1>2. ShapeInv'
  BY <1>1 DEF ShapeInv, Persists, About
<1> QED
  BY <1>1, <1>2

KeepsShown(t, more) ==
    LET e == Effect(t)
    IN  /\ \A i \in DOMAIN more : ShownFits(more[i], Before(more, i), thread[t].inDoubt)'
        /\ \A item \in Items \ thread[t].items :
              /\ \A c \in Contexts : (Entry(c)[item])' = Entry(c)[item]
              /\ \A user \in Users : configuration'[user][item] = configuration[user][item]
        /\ \A user \in Users : IsShown(user)' => IsShown(user) \/ (e.op = "send" /\ ~thread[t].inDoubt)
        /\ e.op = "initialized" \/ isInitializationFinished' = isInitializationFinished
        /\ e.op = "param" /\ thread'[t] # Idle /\ ~thread'[t].inDoubt =>
              \A c \in Contexts :
                 /\ Entry(c)' = Entry(c)
                 /\ \A item \in Items : param'[c][item] =
                       IF c = e.context /\ item \in DOMAIN e.values THEN e.values[item] ELSE param[c][item]
        /\ e.op = "configuration" /\ thread'[t] # Idle =>
              \A user \in e.users : configuration'[user][e.item] = e.value
        /\ e.op \in Setting \ {"configuration"} => configuration' = configuration
        /\ UNCHANGED << environment, events >>

\* What handlers have in common puts both in doubt, and all that is shown.
LEMMA CommonItems ==
    ASSUME ApartInv, SoleInv, NEW t \in Threads, NEW u \in Threads, t # u, Busy(t), Busy(u),
           thread[t].items \cap thread[u].items # {}
    PROVE  thread[t].inDoubt /\ thread[u].inDoubt /\ NoneShown
BY DEF ApartInv, SoleInv

\* A handler that switches accounts has all items.
LEMMA SwitchingAlone ==
    ASSUME IInv, SoleInv, NEW t \in Threads, NEW u \in Threads, t # u, Busy(t), Busy(u),
           NEW i \in DOMAIN thread[t].todo, thread[t].todo[i].op \notin Setting
    PROVE  thread[t].inDoubt /\ thread[u].inDoubt /\ NoneShown
<1>1. ItemsOf(thread[t].todo[i]) = Items
  BY DEF ItemsOf, Setting
<1>2. Items \subseteq thread[t].items
  BY <1>1 DEF IInv, ApartInv
<1>3. thread[u].items \subseteq Items /\ thread[u].items # {}
  BY EffectType DEF IInv, SoleInv
<1>4. ApartInv
  BY DEF IInv
<1> QED
  BY <1>2, <1>3, <1>4, CommonItems

\* An effect of a list.
LEMMA TodoType ==
    ASSUME TypeInv, NEW t \in Threads, NEW i \in DOMAIN thread[t].todo
    PROVE  thread[t].todo[i] \in Effects /\ Busy(t) /\ thread[t].inDoubt \in BOOLEAN
<1>1. thread[t] \in Handlers
  BY DEF TypeInv
<1>2. thread[t].todo \in Seq(Effects) /\ thread[t].inDoubt \in BOOLEAN
  BY <1>1, HandlerFields
<1>3. thread[t].todo[i] \in Effects /\ thread[t].todo # << >>
  BY <1>2, LenProperties, ElementOfSeq
<1> QED
  BY <1>2, <1>3 DEF Busy

\* Handlers of others are not disturbed, ...
LEMMA OthersShown ==
    ASSUME IInv, ShownInv, SoleInv, NEW t \in Threads, NEW more, Busy(t), KeepsShown(t, more),
           NEW u \in Threads, u # t, thread'[u] = thread[u], NEW i \in DOMAIN thread[u].todo
    PROVE  ShownFits(thread[u].todo[i], Before(thread[u].todo, i), thread[u].inDoubt)'
<1>1. PICK e \in Effects : e = thread[u].todo[i] /\ Busy(u)
  BY TodoType DEF IInv
<1>2. PICK before : before = Before(thread[u].todo, i)
  OBVIOUS
<1>3. ShownFits(e, before, thread[u].inDoubt) /\ ItemsOf(e) \subseteq thread[u].items
  BY <1>1, <1>2 DEF IInv, ApartInv, ShownInv
<1>4. thread[t].items \subseteq Items /\ thread[t].inDoubt \in BOOLEAN /\ thread[u].inDoubt \in BOOLEAN
      /\ thread[u].items \subseteq Items /\ thread[u].items # {}
  BY <1>1, EffectType DEF IInv, SoleInv
<1>5. CASE e.op \notin Setting
  <2>1. thread[u].inDoubt /\ thread[t].inDoubt /\ NoneShown
    BY <1>1, <1>5, SwitchingAlone
  <2>2. NoneShown'
    BY <2>1 DEF KeepsShown, NoneShown
  <2>3. ShownFits(e, before, thread[u].inDoubt)'
    BY <1>5, <2>1, <2>2 DEF ShownFits, Setting, Showing
  <2> QED
    BY <1>1, <1>2, <2>3 DEF ShownFits, Before
<1>6. ASSUME thread[t].items \cap thread[u].items # {} PROVE NoneShown /\ NoneShown' /\ thread[u].inDoubt
  <2>1. NoneShown /\ thread[t].inDoubt /\ thread[u].inDoubt
    BY <1>1, <1>6, CommonItems DEF IInv
  <2> QED
    BY <2>1 DEF KeepsShown, NoneShown
<1>7. ASSUME ~NoneShown' PROVE ~NoneShown
  <2>1. PICK user \in Users : IsShown(user)'
    BY <1>7 DEF NoneShown
  <2>2. IsShown(user) \/ Effect(t).op = "send"
    BY <2>1 DEF KeepsShown
  <2>3. CASE Effect(t).op = "send"
    <3>1. 1 \in DOMAIN thread[t].todo /\ thread[t].todo[1].op = "send"
      BY <2>3, EffectType DEF IInv
    <3>2. thread[t].inDoubt
      BY <1>1, <3>1, SwitchingAlone DEF Setting
    <3>3. IsShown(user)
      BY <2>1, <3>2 DEF KeepsShown
    <3> QED
      BY <3>3 DEF NoneShown
  <2> QED
    BY <2>2, <2>3 DEF NoneShown
<1>8. CASE e.op = "persist"
  <2> SUFFICES ASSUME IsShown(About(e))'
               PROVE  /\ "user" \in DOMAIN e \/ Current(e.context)'
                      /\ \A item \in DOMAIN e.values : Sent(e, before, item)'
    <3>1. ShownFits(e, before, thread[u].inDoubt)'
      BY <1>8 DEF ShownFits, Showing
    <3> QED
      BY <1>1, <1>2, <3>1 DEF ShownFits, Before
  <2>1. About(e) \in Users /\ DOMAIN e.values \subseteq thread[u].items
    BY <1>1, <1>3, <1>8, EffectFields, AppearanceServiceAssumption DEF About, ItemsOf
  <2>2. ~NoneShown'
    BY <2>1 DEF NoneShown, IsShown
  <2>3. thread[t].items \cap thread[u].items = {}
    BY <1>6, <2>2
  <2>4. IsShown(About(e))
    <3>1. IsShown(About(e)) \/ (Effect(t).op = "send" /\ ~thread[t].inDoubt)
      BY <2>1 DEF KeepsShown, IsShown
    <3>2. ASSUME Effect(t).op = "send" PROVE thread[t].inDoubt
      <4>1. 1 \in DOMAIN thread[t].todo /\ thread[t].todo[1].op = "send"
        BY <3>2, EffectType DEF IInv
      <4> QED
        BY <1>1, <4>1, SwitchingAlone DEF Setting
    <3> QED
      BY <3>1, <3>2
  <2>5. /\ "user" \in DOMAIN e \/ Current(e.context)
        /\ \A item \in DOMAIN e.values : Sent(e, before, item)
    BY <1>3, <1>8, <2>4 DEF ShownFits
  <2>6. Current(e.context) => Current(e.context)'
    BY DEF KeepsShown, Current, Awaited, environment
  <2>7. ASSUME NEW item \in DOMAIN e.values PROVE Sent(e, before, item)'
    <3>1. configuration'[About(e)][item] = configuration[About(e)][item]
      BY <1>4, <2>1, <2>3 DEF KeepsShown
    <3>2. Sent(e, before, item)
      BY <2>5
    <3> QED
      BY <3>1, <3>2 DEF Sent
  <2> QED
    BY <2>5, <2>6, <2>7
<1>9. CASE e.op = "param"
  <2> SUFFICES ASSUME ~thread[u].inDoubt \/ ~NoneShown', NEW item \in DOMAIN e.values
               PROVE  e.values[item] = (Entry(e.context)[item])'
    <3>1. ShownFits(e, before, thread[u].inDoubt)'
      BY <1>9 DEF ShownFits, Showing
    <3> QED
      BY <1>1, <1>2, <3>1 DEF ShownFits, Before
  <2>1. thread[t].items \cap thread[u].items = {}
    BY <1>6
  <2>2. DOMAIN e.values \subseteq thread[u].items /\ e.context \in Contexts
    BY <1>1, <1>3, <1>9, EffectFields DEF ItemsOf
  <2>3. e.values[item] = Entry(e.context)[item]
    BY <1>3, <1>7, <1>9 DEF ShownFits
  <2>4. (Entry(e.context)[item])' = Entry(e.context)[item]
    BY <1>4, <2>1, <2>2 DEF KeepsShown
  <2> QED
    BY <2>3, <2>4
<1>10. CASE e.op \in Setting \ {"persist", "param"}
  <2>1. ShownFits(e, before, thread[u].inDoubt)'
    BY <1>10 DEF ShownFits, Setting, Showing
  <2> QED
    BY <1>1, <1>2, <2>1 DEF ShownFits, Before
<1> QED
  BY <1>5, <1>8, <1>9, <1>10

\* ... nor is what the handler itself has still to do.
LEMMA RestShown ==
    ASSUME IInv, ShownInv, ShapeInv, NEW t \in Threads, NEW more \in Seq(Effects),
           Proceeds(t, more), KeepsShape(t, more), KeepsShown(t, more), thread'[t] # Idle,
           thread[t].inDoubt => thread'[t].inDoubt,
           NEW k \in DOMAIN thread[t].todo, NEW e, e = thread[t].todo[k],
           NEW before, before = Before(thread[t].todo, k), NEW after,
           NEW head, head = Effect(t), head \in before,
           \A b \in before : b = head \/ b \in after,
           \A b \in after : b \in before \/ \E j \in DOMAIN more : b = more[j],
           \A b \in after : b.op # "configuration"
    PROVE  ShownFits(e, after, thread[t].inDoubt)'
<1>1. e \in Effects /\ thread[t].inDoubt \in BOOLEAN /\ head \in Effects
  BY TodoType, EffectType DEF IInv
<1>2. ShownFits(e, before, thread[t].inDoubt) /\ ShapeFits(e, before)
  BY DEF ShownInv, ShapeInv
<1>3. ShownFits(head, {}, thread[t].inDoubt)
  <2>1. 1 \in DOMAIN thread[t].todo /\ head = thread[t].todo[1] /\ Before(thread[t].todo, 1) = {}
    BY <1>1, EffectType DEF IInv, Proceeds
  <2>2. ShownFits(thread[t].todo[1], Before(thread[t].todo, 1), thread[t].inDoubt)
    BY <2>1 DEF ShownInv
  <2> QED
    BY <2>1, <2>2
<1>4. \A c : Current(c) => Current(c)'
  BY DEF KeepsShown, Current, Awaited, environment
<1>5. head.op # "send" => \A user \in Users : IsShown(user)' => IsShown(user)
  BY DEF KeepsShown
<1>6. e.op \in Showing /\ ~thread'[t].inDoubt => Current(Account(e))'
  BY <1>2, <1>4 DEF ShownFits
<1>7. ASSUME e.op \in {"update", "send"}, ~thread'[t].inDoubt
      PROVE  /\ e.op = "send" => e.entry = Entry(e.context)'
             /\ isInitializationFinished' \/ \A item \in Items : SavedAfter(e.context, item, after)'
  <2>1. head.op = "param" /\ (\A b \in before : b.op = "param") /\ e.context \in Contexts
    BY <1>1, <1>2, <1>7, EffectFields DEF ShapeFits
  <2>2. ~thread[t].inDoubt
    BY <1>7
  <2>3. \A c \in Contexts :
           /\ Entry(c)' = Entry(c)
           /\ \A item \in Items : param'[c][item] =
                 IF c = head.context /\ item \in DOMAIN head.values THEN head.values[item] ELSE param[c][item]
    BY <1>7, <2>1 DEF KeepsShown
  <2>4. /\ e.op = "send" => e.entry = Entry(e.context)
        /\ isInitializationFinished \/ \A item \in Items : SavedAfter(e.context, item, before)
    BY <1>2, <1>7, <2>2 DEF ShownFits
  <2>5. \A item \in DOMAIN head.values : head.values[item] = Entry(head.context)[item]
    BY <1>3, <2>1, <2>2 DEF ShownFits
  <2>6. isInitializationFinished' = isInitializationFinished
    BY <2>1 DEF KeepsShown
  <2>7. ASSUME NEW item \in Items, SavedAfter(e.context, item, before)
        PROVE  SavedAfter(e.context, item, after)'
    <3>1. (Entry(e.context)[item])' = Entry(e.context)[item]
      BY <2>1, <2>3
    <3>2. CASE e.context = head.context /\ item \in DOMAIN head.values
      BY <2>1, <2>3, <2>5, <3>1, <3>2 DEF SavedAfter
    <3>3. CASE ~(e.context = head.context /\ item \in DOMAIN head.values)
      <4>1. param'[e.context][item] = param[e.context][item]
        BY <2>1, <2>3, <3>3
      <4>2. CASE param[e.context][item] = Entry(e.context)[item]
        BY <3>1, <4>1, <4>2 DEF SavedAfter
      <4>3. ASSUME NEW b \in before, b.op = "param", b.context = e.context, item \in DOMAIN b.values,
                   b.values[item] = Entry(e.context)[item]
            PROVE  SavedAfter(e.context, item, after)'
        <5>1. b \in after
          BY <3>3, <4>3
        <5> QED
          BY <3>1, <4>3, <5>1 DEF SavedAfter
      <4> QED
        BY <2>7, <4>2, <4>3 DEF SavedAfter
    <3> QED
      BY <3>2, <3>3
  <2>8. e.op = "send" => e.entry = Entry(e.context)'
    BY <2>1, <2>3, <2>4
  <2> QED
    BY <2>4, <2>6, <2>7, <2>8
<1>8. e.op \in {"initialize", "initContext"} /\ isInitializationFinished' => NoneShown'
  <2> SUFFICES ASSUME e.op \in {"initialize", "initContext"}, isInitializationFinished'
               PROVE  NoneShown'
    OBVIOUS
  <2>1. head.op \in Preparing
    BY <1>2 DEF ShapeFits
  <2>2. isInitializationFinished
    BY <2>1 DEF KeepsShown, Preparing
  <2>3. NoneShown
    BY <1>2, <2>2 DEF ShownFits
  <2> QED
    BY <1>5, <2>1, <2>3 DEF NoneShown, Preparing
<1>9. ASSUME e.op = "persist", IsShown(About(e))'
      PROVE  /\ "user" \in DOMAIN e \/ Current(e.context)'
             /\ \A item \in DOMAIN e.values : Sent(e, after, item)'
  <2>1. head.op \in Setting /\ About(e) \in Users
    BY <1>1, <1>2, <1>9, EffectFields, AppearanceServiceAssumption DEF ShapeFits, About
  <2>2. IsShown(About(e))
    BY <1>5, <1>9, <2>1 DEF Setting, IsShown
  <2>3. /\ "user" \in DOMAIN e \/ Current(e.context)
        /\ \A item \in DOMAIN e.values : Sent(e, before, item)
    BY <1>2, <1>9, <2>2 DEF ShownFits
  <2>4. ASSUME NEW item \in DOMAIN e.values PROVE Sent(e, after, item)'
    <3>1. Sent(e, before, item)
      BY <2>3
    <3>2. CASE head.op = "configuration"
      <4>1. About(e) \in head.users /\ head.item = item /\ head.value = e.values[item]
        BY <3>1, <3>2 DEF Sent
      <4>2. configuration'[About(e)][item] = e.values[item]
        BY <3>2, <4>1 DEF KeepsShown
      <4> QED
        BY <4>2 DEF Sent
    <3>3. CASE head.op # "configuration"
      <4>1. \A b \in before : b.op # "configuration"
        BY <3>3
      <4>2. configuration[About(e)][item] = e.values[item]
        BY <3>1, <4>1 DEF Sent
      <4>3. configuration' = configuration
        BY <2>1, <3>3 DEF KeepsShown
      <4> QED
        BY <4>2, <4>3 DEF Sent
    <3> QED
      BY <3>2, <3>3
  <2> QED
    BY <1>4, <2>3, <2>4
<1>10. e.op # "param"
  <2>1. PromiseFits(e, before, thread[t].inDoubt)
    BY DEF IInv, PromiseInv
  <2> QED
    BY <2>1 DEF PromiseFits
<1> QED
  BY <1>6, <1>7, <1>8, <1>9, <1>10 DEF ShownFits

LEMMA ShownKept ==
    ASSUME IInv, SInv, NEW t \in Threads, NEW more \in Seq(Effects),
           Proceeds(t, more), KeepsShape(t, more), KeepsShown(t, more),
           thread'[t] = Idle \/ thread'[t].inDoubt = thread[t].inDoubt \/ DOMAIN more = {}
    PROVE  ShownInv'
<1> USE DEF SInv
<1> SUFFICES ASSUME NEW u \in Threads, NEW i \in DOMAIN thread'[u].todo
             PROVE  ShownFits(thread[u].todo[i], Before(thread[u].todo, i), thread[u].inDoubt)'
  BY DEF ShownInv
<1>1. CASE u # t /\ thread'[u] = thread[u]
  <2>1. Busy(t) /\ i \in DOMAIN thread[u].todo
    BY <1>1 DEF Proceeds
  <2> QED
    BY <1>1, <2>1, OthersShown
<1>2. CASE u = t /\ i \in DOMAIN more /\ thread'[t].todo[i] = more[i]
           /\ Before(thread'[t].todo, i) = Before(more, i)
  <2>1. thread'[t].inDoubt = thread[t].inDoubt
    <3>1. thread'[t] # Idle
      BY <1>2 DEF Idle
    <3> QED
      BY <1>2, <3>1
  <2>2. ShownFits(more[i], Before(more, i), thread[t].inDoubt)'
    BY <1>2 DEF KeepsShown
  <2> PICK e : e = more[i]
    OBVIOUS
  <2> PICK before : before = Before(more, i)
    OBVIOUS
  <2>3. ShownFits(e, before, thread[t].inDoubt)'
    BY <2>2 DEF ShownFits
  <2> QED
    BY <1>2, <2>3 DEF ShownFits, Before
<1>3. ASSUME u = t, thread[t].inDoubt => thread'[t].inDoubt,
             NEW k \in DOMAIN thread[t].todo, thread'[t].todo[i] = thread[t].todo[k],
             Effect(t) \in Before(thread[t].todo, k),
             \A b \in Before(thread[t].todo, k) : b = Effect(t) \/ b \in Before(thread'[t].todo, i),
             \A b \in Before(thread'[t].todo, i) :
                b \in Before(thread[t].todo, k) \/ \E j \in DOMAIN more : b = more[j]
      PROVE  ShownFits(thread[u].todo[i], Before(thread[u].todo, i), thread[u].inDoubt)'
  <2>1. PICK e : e = thread[t].todo[k]
    OBVIOUS
  <2>2. PICK before : before = Before(thread[t].todo, k)
    OBVIOUS
  <2>3. PICK after : after = Before(thread'[t].todo, i)
    OBVIOUS
  <2>4. PICK head : head = Effect(t)
    OBVIOUS
  <2>5. \A b \in after : b.op # "configuration"
    <3>1. \A j \in DOMAIN thread'[t].todo : thread'[t].todo[j].op # "configuration"
      BY ShapeKept DEF IInv
    <3>2. \A j \in 1 .. i - 1 : j \in DOMAIN thread'[t].todo
      <4>1. thread'[t] \in Handlers
        BY DEF Proceeds
      <4>2. thread'[t].todo \in Seq(Effects)
        BY <4>1, HandlerFields
      <4>3. DOMAIN thread'[t].todo = 1 .. Len(thread'[t].todo) /\ Len(thread'[t].todo) \in Nat
        BY <4>2, LenProperties
      <4> QED
        BY <1>3, <4>3
    <3> QED
      BY <2>3, <3>1, <3>2 DEF Before
  <2>6. thread'[t] # Idle
    BY <1>3 DEF Idle
  <2>7. /\ head \in before
        /\ \A b \in before : b = head \/ b \in after
        /\ \A b \in after : b \in before \/ \E j \in DOMAIN more : b = more[j]
    BY <1>3, <2>2, <2>3, <2>4
  <2>8. ShownFits(e, after, thread[t].inDoubt)'
    BY <1>3, <2>1, <2>2, <2>4, <2>5, <2>6, <2>7, RestShown
  <2>9. (thread[u].todo[i])' = e /\ Before(thread[u].todo, i)' = after
    BY <1>3, <2>1, <2>3 DEF Before
  <2> QED
    BY <1>3, <2>8, <2>9 DEF ShownFits
<1> QED
  BY <1>1, <1>2, <1>3, AfterStep, SMTT(30) DEF IInv

LEMMA SoleKept ==
    ASSUME IInv, SInv, NEW t \in Threads, NEW more \in Seq(Effects),
           Proceeds(t, more), KeepsShape(t, more), KeepsShown(t, more),
           \A c \in onceFlag' : shown'[c.userId] # Nobody
    PROVE  SoleInv'
<1> USE DEF SInv
<1>1. ASSUME NEW u \in Threads, Busy(u)'
      PROVE  Busy(u) /\ thread'[u].items = thread[u].items /\ thread[u].items # {}
  BY <1>1 DEF Proceeds, Idle, Busy, SoleInv
<1>2. ASSUME ~NoneShown'
      PROVE  /\ phase # "published"
             /\ \A u, v \in Threads : u # v /\ Busy(u)' /\ Busy(v)' => thread[u].items \cap thread[v].items = {}
  <2>1. CASE ~NoneShown
    BY <1>1, <2>1 DEF SoleInv
  <2>2. CASE NoneShown
    <3>1. Effect(t).op = "send" /\ ~thread[t].inDoubt /\ Busy(t)
      BY <1>2, <2>2 DEF KeepsShown, NoneShown, Proceeds
    <3>2. 1 \in DOMAIN thread[t].todo /\ thread[t].todo[1].op = "send"
      BY <3>1, EffectType DEF IInv
    <3>3. phase # "published"
      BY <3>2 DEF ShapeInv, ShapeFits, Setting
    <3>4. \A u \in Threads : u # t => ~Busy(u)
      BY <3>1, <3>2, SwitchingAlone DEF Setting
    <3> QED
      BY <1>1, <3>3, <3>4
  <2> QED
    BY <2>1, <2>2
<1>3. phase' = phase
  BY DEF KeepsShape
<1> QED
  BY <1>1, <1>2, <1>3 DEF SoleInv

\* A user who sees the right account goes on doing so.
KeepsFollowing(t, more, user) ==
    LET e == Effect(t)
    IN  /\ shown'[user] = shown[user]
        /\ Forced(e) /\ Account(e).userId = user =>
              \E j \in DOMAIN more : Forced(more[j]) /\ Account(more[j]).userId = user
        /\ thread'[t].todo = more \o Tail(thread[t].todo) \/ e.op = "configuration"
        /\ \A j \in DOMAIN more : more[j].op # "configuration"
        /\ shown[user] = foreground[user] /\ ~ UnderWay(user) /\ ~ Awaited(user) =>
              \A item \in Items :
                 /\ Agrees(user, item) =>
                       \/ configuration'[user][item] = (Entry(foreground[user])[item])'
                       \/ \E u \in Threads : PersistPending(thread'[u].todo, user, item)
                 /\ isInitializationFinished \/ Saved(user, item) =>
                       \/ isInitializationFinished'
                       \/ param'[foreground[user]][item] = (Entry(foreground[user])[item])'
                       \/ \E u \in Threads : ParamPending(thread'[u].todo, foreground[user], item)

LEMMA ForcedStays ==
    ASSUME TypeInv, ShapeInv, NEW t \in Threads, NEW more \in Seq(Effects), Proceeds(t, more),
           NEW user, UnderWay(user),
           LET e == Effect(t)
           IN  /\ Forced(e) /\ Account(e).userId = user =>
                     \E j \in DOMAIN more : Forced(more[j]) /\ Account(more[j]).userId = user
               /\ thread'[t].todo = more \o Tail(thread[t].todo) \/ e.op = "configuration"
    PROVE  UnderWay(user)'
<1>1. PICK u \in Threads : ForcedFor(thread[u].todo, user)
  BY DEF UnderWay
<1>2. CASE u # t
  BY <1>1, <1>2 DEF Proceeds, UnderWay
<1>3. CASE u = t /\ thread'[t].todo = more \o Tail(thread[t].todo)
  <2>1. thread[t].todo \in Seq(Effects) /\ thread[t].todo # << >> /\ Effect(t) = Head(thread[t].todo)
    BY EffectType DEF Proceeds, Busy, Effect
  <2>2. \/ ForcedFor(more \o Tail(thread[t].todo), user)
        \/ Forced(Effect(t)) /\ Account(Effect(t)).userId = user
    BY <1>1, <1>3, <2>1, PendingStays
  <2>3. ASSUME NEW j \in DOMAIN more, Forced(more[j]), Account(more[j]).userId = user
        PROVE  ForcedFor(thread'[t].todo, user)
    <3>1. j \in DOMAIN thread'[t].todo /\ thread'[t].todo[j] = more[j]
      BY <1>3, <2>1, NewIsThere
    <3> QED
      BY <2>3, <3>1 DEF ForcedFor
  <2>4. ForcedFor(thread'[t].todo, user)
    BY <1>3, <2>2, <2>3
  <2> QED
    BY <2>4 DEF UnderWay
<1>4. CASE u = t /\ Effect(t).op = "configuration"
  <2>1. PICK k \in DOMAIN thread[t].todo : Forced(thread[t].todo[k])
    BY <1>1, <1>4 DEF ForcedFor
  <2>2. thread[t].todo \in Seq(Effects) /\ thread[t].todo # << >> /\ Effect(t) = Head(thread[t].todo)
    BY EffectType DEF Proceeds, Busy, Effect
  <2>3. k = 1 \/ Effect(t) \in Before(thread[t].todo, k)
    BY <2>2, FirstAndRest
  <2>4. k # 1
    BY <1>4, <2>1, <2>2, FirstAndRest DEF Forced
  <2>5. ShapeFits(thread[t].todo[k], Before(thread[t].todo, k))
    BY DEF ShapeInv
  <2> QED
    BY <1>4, <2>1, <2>3, <2>4, <2>5 DEF ShapeFits, Forced
<1> QED
  BY <1>2, <1>3, <1>4

LEMMA FollowingKept ==
    ASSUME TypeInv, ShapeInv, NEW t \in Threads, NEW more \in Seq(Effects), Proceeds(t, more),
           NEW user \in Users, Follows(user), KeepsFollowing(t, more, user),
           UNCHANGED << environment, events >>
    PROVE  Follows(user)'
<1>1. CASE Awaited(user)
  BY <1>1 DEF Awaited, Follows, environment
<1>2. CASE UnderWay(user)
  <2>1. UnderWay(user)'
    BY <1>2, ForcedStays DEF KeepsFollowing
  <2> QED
    BY <2>1 DEF Follows
<1>3. CASE ~Awaited(user) /\ ~UnderWay(user)
  <2>1. /\ shown[user] = foreground[user]
        /\ \A item \in Items : Agrees(user, item) /\ (isInitializationFinished \/ Saved(user, item))
    BY <1>3 DEF Follows
  <2>2. foreground' = foreground /\ shown'[user] = shown[user]
    BY DEF environment, KeepsFollowing
  <2>3. ASSUME NEW item \in Items
        PROVE  Agrees(user, item)' /\ (isInitializationFinished' \/ Saved(user, item)')
    <3>1. /\ \/ configuration'[user][item] = (Entry(foreground[user])[item])'
             \/ \E u \in Threads : PersistPending(thread'[u].todo, user, item)
          /\ \/ isInitializationFinished'
             \/ param'[foreground[user]][item] = (Entry(foreground[user])[item])'
             \/ \E u \in Threads : ParamPending(thread'[u].todo, foreground[user], item)
      BY <1>3, <2>1 DEF KeepsFollowing
    <3> QED
      BY <2>2, <3>1 DEF Agrees, Saved
  <2> QED
    BY <2>1, <2>2, <2>3 DEF Follows
<1> QED
  BY <1>1, <1>2, <1>3

LEMMA StepShows ==
    ASSUME IInv, SInv, NEW t \in Threads, NEW more \in Seq(Effects),
           Proceeds(t, more), KeepsShape(t, more), KeepsShown(t, more),
           thread'[t] = Idle \/ thread'[t].inDoubt = thread[t].inDoubt \/ DOMAIN more = {},
           \A c \in onceFlag' : shown'[c.userId] # Nobody,
           \A user \in Users : IsShown(user)' =>
              Follows(user)' \/ (IsShown(user) /\ KeepsFollowing(t, more, user))
    PROVE  SInv'
<1>1. UNCHANGED << environment, events >>
  BY DEF KeepsShown
<1>2. TypeInv /\ ShapeInv
  BY DEF IInv, SInv
<1>3. ShapeInv'
  BY <1>2, ShapeKept
<1>4. ShownInv'
  BY ShownKept
<1>5. SoleInv'
  BY SoleKept
<1>6. EventsInv'
  BY <1>1 DEF SInv, EventsInv, environment
<1>7. ASSUME NEW user \in Users, IsShown(user)' PROVE Follows(user)'
  <2>1. CASE IsShown(user) /\ KeepsFollowing(t, more, user)
    <3>1. Follows(user)
      BY <2>1 DEF SInv, FollowInv
    <3> QED
      BY <1>1, <1>2, <2>1, <3>1, FollowingKept
  <2> QED
    BY <1>7, <2>1
<1>8. FollowInv'
  BY <1>7 DEF FollowInv
<1> QED
  BY <1>3, <1>4, <1>5, <1>6, <1>8 DEF SInv

\* What handlers are about to do for a user they are still about to do.
LEMMA PendingKept ==
    ASSUME TypeInv, NEW t \in Threads, NEW more \in Seq(Effects), Proceeds(t, more),
           thread'[t].todo = more \o Tail(thread[t].todo),
           \A j \in DOMAIN more : more[j].op # "configuration"
    PROVE  /\ \A user, item : (\E u \in Threads : PersistPending(thread[u].todo, user, item)) =>
                 \/ \E u \in Threads : PersistPending(thread'[u].todo, user, item)
                 \/ /\ Effect(t).op = "persist" /\ About(Effect(t)) = user
                    /\ item \in DOMAIN Effect(t).values
           /\ \A c, item : (\E u \in Threads : ParamPending(thread[u].todo, c, item)) =>
                 \/ \E u \in Threads : ParamPending(thread'[u].todo, c, item)
                 \/ /\ Effect(t).op = "param" /\ Effect(t).context = c
                    /\ item \in DOMAIN Effect(t).values
<1>1. thread[t].todo \in Seq(Effects) /\ thread[t].todo # << >> /\ Effect(t) = Head(thread[t].todo)
  BY EffectType DEF Proceeds, Busy, Effect
<1>2. \A u \in Threads : u # t => thread'[u].todo = thread[u].todo
  BY DEF Proceeds
<1>3. /\ \A user, item : PersistPending(thread[t].todo, user, item) =>
            \/ PersistPending(thread'[t].todo, user, item)
            \/ Effect(t).op = "persist" /\ About(Effect(t)) = user /\ item \in DOMAIN Effect(t).values
      /\ \A c, item : ParamPending(thread[t].todo, c, item) =>
            \/ ParamPending(thread'[t].todo, c, item)
            \/ Effect(t).op = "param" /\ Effect(t).context = c /\ item \in DOMAIN Effect(t).values
  BY <1>1, PendingStays
<1> QED
  BY <1>2, <1>3

\* The effects that write neither the memory of an account nor a configuration.
Unwriting ==
    {"base", "promise", "upgradeIfNeeded", "initializeIfNeeded", "compatible", "carry", "carryTo", "carried",
     "initialize", "update", "updateForeground", "spread"}

NewShape(more) == \A i \in DOMAIN more : ShapeFits(more[i], Before(more, i))
NewShown(t, more) == \A i \in DOMAIN more : ShownFits(more[i], Before(more, i), thread[t].inDoubt)
MayFollow(e, more) ==
    \A i \in DOMAIN more : /\ more[i].op # "configuration" /\ e.op # "param"
                           /\ e.op \in Setting => more[i].op \in Setting
                           /\ e.op \in Preparing => more[i].op \in Preparing

LEMMA NotShown ==
    /\ Doubtful \notin Contexts /\ Nobody \notin Contexts /\ Doubtful # Nobody
    /\ \A c \in Contexts : c.userId \in Users
<1>1. Contexts \subseteq [userId : Users, subProfileId : Int] /\ Users \subseteq Nat
  BY AppearanceServiceAssumption
<1>2. \A c \in Contexts : c.userId \in Users /\ c.userId \in Nat
  BY <1>1
<1>3. Doubtful.userId = -2 /\ Nobody.userId = -1
  BY DEF Doubtful, Nobody
<1> QED
  BY <1>2, <1>3

LEMMA ContinueTodo ==
    ASSUME TypeInv, NEW t \in Threads, NEW more, Continue(t, more)
    PROVE  thread'[t].todo = more \o Tail(thread[t].todo)
<1> PICK todo : todo = more \o Tail(thread[t].todo)
  OBVIOUS
<1>1. thread' = [thread EXCEPT ![t] = IF todo = << >> THEN Idle ELSE [thread[t] EXCEPT !.todo = todo]]
  BY DEF Continue
<1>2. thread \in [Threads -> Handlers] /\ thread[t] \in Handlers
  BY DEF TypeInv
<1>3. [thread[t] EXCEPT !.todo = todo].todo = todo
  BY <1>2 DEF Handlers
<1> QED
  BY <1>1, <1>2, <1>3 DEF Idle

LEMMA UnwritingShows ==
    ASSUME IInv, SInv, NEW t \in Threads, NEW more \in Seq(Effects), Busy(t), Continue(t, more),
           Effect(t).op \in Unwriting,
           Effect(t).op = "initialize" => \E j \in DOMAIN more : more[j].op = "initialized",
           \A c \in Contexts : Entry(c)' = Entry(c),
           \A c \in Contexts, item \in Items : param[c][item] \in {param'[c][item], Unset},
           UNCHANGED << environment, events, configuration, isInitializationFinished, onceFlag, phase >>,
           shown' = shown \/ \E user \in Users : shown' = [shown EXCEPT ![user] = Doubtful],
           MayFollow(Effect(t), more), NewShape(more)', NewShown(t, more)',
           Effect(t).op = "update" /\ shown'[Effect(t).context.userId] \in Contexts =>
              \E j \in DOMAIN more : /\ more[j].op = "send" /\ more[j].force = Effect(t).force
                                     /\ more[j].context = Effect(t).context
    PROVE  SInv'
<1>1. TypeInv /\ ShapeInv
  BY DEF IInv, SInv
<1>2. PICK e \in Effects : e = Effect(t)
  BY <1>1, EffectType
<1>3. Proceeds(t, more) /\ (thread'[t].inDoubt = thread[t].inDoubt \/ thread'[t] = Idle)
  BY <1>1, ContinueProceeds
<1>4. thread'[t].todo = more \o Tail(thread[t].todo)
  BY <1>1, ContinueTodo
<1>5. e.op \notin {"configuration", "persist", "param", "send", "loaded", "apply", "initContext", "initialized"}
  BY <1>2 DEF Unwriting
<1>6. KeepsShape(t, more)
  <2>1. ASSUME NEW i \in DOMAIN more PROVE ShapeFits(more[i], Before(more, i))'
    BY DEF NewShape
  <2> QED
    BY <1>2, <1>5, <2>1 DEF KeepsShape, MayFollow
<1>7. \A user \in Users : shown'[user] = shown[user] \/ shown'[user] = Doubtful
  BY DEF IInv, TypeInv, TypeOK
<1>8. \A user \in Users : IsShown(user)' => IsShown(user) /\ shown'[user] = shown[user]
  BY <1>7, NotShown DEF IsShown
<1>9. KeepsShown(t, more)
  <2>1. ASSUME NEW i \in DOMAIN more PROVE ShownFits(more[i], Before(more, i), thread[t].inDoubt)'
    BY DEF NewShown
  <2> QED
    BY <1>2, <1>5, <1>8, <2>1 DEF KeepsShown
<1>10. \A c \in onceFlag' : shown'[c.userId] # Nobody
  <2>1. \A c \in onceFlag : c.userId \in Users /\ shown[c.userId] # Nobody
    BY NotShown DEF IInv, TypeInv, TypeOK, SInv, SoleInv
  <2> QED
    BY <1>7, <2>1, NotShown
<1>11. ASSUME NEW user \in Users, IsShown(user)' PROVE IsShown(user) /\ KeepsFollowing(t, more, user)
  <2>1. Forced(e) /\ Account(e).userId = user =>
           \E j \in DOMAIN more : Forced(more[j]) /\ Account(more[j]).userId = user
    <3> SUFFICES ASSUME Forced(e), Account(e).userId = user
                 PROVE  \E j \in DOMAIN more : Forced(more[j]) /\ Account(more[j]).userId = user
      OBVIOUS
    <3>1. e.op = "update" /\ e.force /\ e.context.userId = user
      BY <1>5 DEF Forced, Account
    <3> QED
      BY <1>2, <1>11, <3>1 DEF Forced, Account, IsShown
  <2>2. ASSUME shown[user] = foreground[user], NEW item \in Items
        PROVE  /\ Agrees(user, item) =>
                     \/ configuration'[user][item] = (Entry(foreground[user])[item])'
                     \/ \E u \in Threads : PersistPending(thread'[u].todo, user, item)
               /\ isInitializationFinished \/ Saved(user, item) =>
                     \/ isInitializationFinished'
                     \/ param'[foreground[user]][item] = (Entry(foreground[user])[item])'
                     \/ \E u \in Threads : ParamPending(thread'[u].todo, foreground[user], item)
    <3>1. foreground[user] \in Contexts /\ foreground' = foreground
      BY DEF IInv, TypeInv, environment
    <3>2. (Entry(foreground[user])[item])' = Entry(foreground[user])[item]
      BY <3>1 DEF Entry
    <3>3. Entry(foreground[user])[item] \in Values
      BY <1>1, EntryType
    <3>4. param[foreground[user]][item] = Entry(foreground[user])[item] =>
             param'[foreground[user]][item] = Entry(foreground[user])[item]
      BY <3>1, <3>3 DEF Values, Unset
    <3>5. \A j \in DOMAIN more : more[j].op # "configuration"
      BY DEF MayFollow
    <3> QED
      BY <1>1, <1>2, <1>3, <1>4, <1>5, <3>2, <3>4, <3>5, PendingKept DEF Agrees, Saved
  <2> QED
    BY <1>2, <1>4, <1>8, <1>11, <2>1, <2>2 DEF KeepsFollowing, MayFollow
<1> QED
  BY <1>3, <1>6, <1>9, <1>10, <1>11, StepShows

-----------------------------------------------------------------------------
(* What users see: the steps that write neither memory nor configurations. *)

LEMMA HeadShows ==
    ASSUME IInv, SInv, NEW t \in Threads, Busy(t)
    PROVE  ShapeFits(Effect(t), {}) /\ ShownFits(Effect(t), {}, thread[t].inDoubt)
<1>1. 1 \in DOMAIN thread[t].todo /\ Effect(t) = thread[t].todo[1] /\ Before(thread[t].todo, 1) = {}
  BY EffectType DEF IInv
<1>2. /\ ShapeFits(thread[t].todo[1], Before(thread[t].todo, 1))
      /\ ShownFits(thread[t].todo[1], Before(thread[t].todo, 1), thread[t].inDoubt)
  BY <1>1 DEF SInv, ShapeInv, ShownInv
<1> QED
  BY <1>1, <1>2

\* A step that is followed by nothing new.
LEMMA DoneShows ==
    ASSUME IInv, SInv, NEW t \in Threads, Busy(t), Continue(t, << >>),
           Effect(t).op \in Unwriting \ {"initialize"},
           \A c \in Contexts : Entry(c)' = Entry(c),
           \A c \in Contexts, item \in Items : param[c][item] \in {param'[c][item], Unset},
           UNCHANGED << environment, events, configuration, isInitializationFinished, onceFlag, phase >>,
           shown' = shown \/ \E user \in Users : shown' = [shown EXCEPT ![user] = Doubtful],
           Effect(t).op = "update" => shown'[Effect(t).context.userId] \notin Contexts
    PROVE  SInv'
<1>1. PICK more \in Seq(Effects) : more = << >> /\ DOMAIN more = {}
  BY NoEffects
<1>2. MayFollow(Effect(t), more) /\ NewShape(more)' /\ NewShown(t, more)'
  BY <1>1 DEF MayFollow, NewShape, NewShown
<1> QED
  BY <1>1, <1>2, UnwritingShows

LEMMA SetBaseParamShows ==
    ASSUME IInv, SInv, NEW t \in Threads, SetBaseParam(t)
    PROVE  SInv'
<1>1. Busy(t) /\ Effect(t).op = "base" /\ Continue(t, << >>)
  BY DEF SetBaseParam, Doing, Effect
<1>2. UNCHANGED << environment, configuration, param, usersParam, flags, events, shown >>
  BY DEF SetBaseParam
<1> QED
  BY <1>1, <1>2, DoneShows DEF Unwriting, Entry, flags

LEMMA PromiseShows ==
    ASSUME IInv, SInv, NEW t \in Threads, Promise(t)
    PROVE  SInv'
<1>1. Busy(t) /\ Effect(t).op = "promise" /\ Continue(t, << >>)
  BY DEF Promise, Doing, Effect
<1>2. UNCHANGED << environment, configuration, persistent, usersParam, flags, events, shown >>
  BY DEF Promise
<1> QED
  BY <1>1, <1>2, DoneShows DEF Unwriting, Entry, flags, persistent

LEMMA CarryToShows ==
    ASSUME IInv, SInv, NEW t \in Threads, CarryTo(t)
    PROVE  SInv'
<1>1. PICK e \in Effects : e = Effect(t) /\ e.op = "carryTo" /\ Busy(t) /\ Continue(t, << >>)
  BY HeadFits DEF CarryTo, Doing, Effect
<1>2. UNCHANGED << environment, configuration, usersParam, flags, events, shown >>
  BY DEF CarryTo
<1>3. e.context \in Contexts /\ e.item \in Items
  BY <1>1, EffectFields
<1>4. \/ param' = param
      \/ param' = [param EXCEPT ![e.context][e.item] = e.value] /\ param[e.context][e.item] = Unset
  BY <1>1 DEF CarryTo
<1>5. param \in [ParamContexts -> [Items -> Values \cup {Unset}]] /\ Contexts \subseteq ParamContexts
  BY DEF IInv, TypeInv, TypeOK, ParamContexts
<1>6. \A c \in Contexts, item \in Items : param[c][item] \in {param'[c][item], Unset}
  BY <1>3, <1>4, <1>5
<1> QED
  BY <1>1, <1>2, <1>6, DoneShows DEF Unwriting, Entry, flags

LEMMA CarriedShows ==
    ASSUME IInv, SInv, NEW t \in Threads, Carried(t)
    PROVE  SInv'
<1>1. Busy(t) /\ Effect(t).op = "carried" /\ Continue(t, << >>)
  BY DEF Carried, Doing, Effect
<1>2. UNCHANGED << environment, configuration, param, usersParam, isInitializationFinished, onceFlag,
                   phase, events, history >>
  BY DEF Carried
<1> QED
  BY <1>1, <1>2, DoneShows DEF Unwriting, Entry, history

LEMMA UpgradeIfNeededShows ==
    ASSUME IInv, SInv, NEW t \in Threads, UpgradeIfNeeded(t)
    PROVE  SInv'
<1>1. Busy(t) /\ Effect(t).op = "upgradeIfNeeded"
  BY DEF UpgradeIfNeeded, Doing, Effect
<1>2. UNCHANGED << environment, configuration, persistent, usersParam, flags, events, shown >>
  BY DEF UpgradeIfNeeded
<1>3. /\ \A c \in Contexts : Entry(c)' = Entry(c)
      /\ \A c \in Contexts, item \in Items : param[c][item] \in {param'[c][item], Unset}
      /\ UNCHANGED << environment, events, configuration, isInitializationFinished, onceFlag, phase, shown >>
  BY <1>2 DEF Entry, flags, persistent
<1>4. CASE Continue(t, << >>)
  BY <1>1, <1>3, <1>4, DoneShows DEF Unwriting
<1>5. CASE Continue(t, << [op |-> "compatible"] >>)
  <2>1. PICK f \in Effects : f = [op |-> "compatible"] /\ f.op = "compatible"
    <3>1. [op |-> "compatible"] \in Effects
      BY DEF Effects
    <3> QED
      BY <3>1
  <2>2. PICK more \in Seq(Effects) : more = << f >> /\ DOMAIN more = {1} /\ more[1] = f
    <3>1. << f >> \in Seq(Effects) /\ DOMAIN << f >> = {1} /\ << f >>[1] = f
      BY <2>1, OneEffect
    <3> QED
      BY <3>1, Zenon
  <2>3. Continue(t, more)
    BY <1>5, <2>1, <2>2
  <2>4. phase # "published"
    BY <1>1, HeadFits DEF TypeFits
  <2>5. NewShape(more)' /\ NewShown(t, more)' /\ MayFollow(Effect(t), more)
    <3>1. \A i \in DOMAIN more : more[i].op = "compatible"
      BY <2>1, <2>2
    <3>2. phase' # "published"
      BY <1>3, <2>4
    <3> QED
      BY <1>1, <3>1, <3>2 DEF NewShape, NewShown, MayFollow, ShapeFits, ShownFits, Setting, Showing, Preparing
  <2> QED
    BY <1>1, <1>3, <2>3, <2>5, UnwritingShows DEF Unwriting
<1> QED
  BY <1>4, <1>5 DEF UpgradeIfNeeded

LEMMA InitializeIfNeededShows ==
    ASSUME IInv, SInv, NEW t \in Threads, InitializeIfNeeded(t)
    PROVE  SInv'
<1>1. Busy(t) /\ Effect(t).op = "initializeIfNeeded"
  BY DEF InitializeIfNeeded, Doing, Effect
<1>2. UNCHANGED << environment, configuration, persistent, usersParam, flags, events, shown >>
  BY DEF InitializeIfNeeded
<1>3. /\ \A c \in Contexts : Entry(c)' = Entry(c)
      /\ \A c \in Contexts, item \in Items : param[c][item] \in {param'[c][item], Unset}
      /\ UNCHANGED << environment, events, configuration, isInitializationFinished, onceFlag, phase, shown >>
  BY <1>2 DEF Entry, flags, persistent
<1>4. CASE Continue(t, << >>)
  BY <1>1, <1>3, <1>4, DoneShows DEF Unwriting
<1>5. CASE ~isInitializationFinished
           /\ Continue(t, << [op |-> "initialize"], [op |-> "updateForeground"] >>)
  <2>1. PICK f \in Effects, g \in Effects :
           /\ f = [op |-> "initialize"] /\ f.op = "initialize"
           /\ g = [op |-> "updateForeground"] /\ g.op = "updateForeground"
    <3>1. [op |-> "initialize"] \in Effects /\ [op |-> "updateForeground"] \in Effects
      BY DEF Effects
    <3> QED
      BY <3>1
  <2>2. PICK more \in Seq(Effects) : /\ more = << f, g >> /\ DOMAIN more = {1, 2} /\ more[1] = f /\ more[2] = g
                                     /\ Before(more, 1) = {} /\ Before(more, 2) = {f}
    <3>1. /\ << f, g >> \in Seq(Effects) /\ DOMAIN << f, g >> = {1, 2}
          /\ << f, g >>[1] = f /\ << f, g >>[2] = g
          /\ Before(<< f, g >>, 1) = {} /\ Before(<< f, g >>, 2) = {f}
      BY <2>1, TwoEffects
    <3> QED
      BY <3>1, Zenon
  <2>3. Continue(t, more)
    BY <1>5, <2>1, <2>2
  <2>4. phase' # "published" /\ ~isInitializationFinished'
    BY <1>1, <1>3, <1>5, HeadShows DEF ShapeFits, Setting
  <2>5. ShapeFits(f, {})' /\ ShapeFits(g, {f})' /\ \A i \in DOMAIN more : ShapeFits(more[i], Before(more, i))'
    <3>1. ShapeFits(f, {})' /\ ShapeFits(g, {f})'
      BY <2>1, <2>4 DEF ShapeFits, Setting
    <3> QED
      BY <2>2, <3>1 DEF ShapeFits
  <2>6. \A i \in DOMAIN more : ShownFits(more[i], Before(more, i), thread[t].inDoubt)'
    BY <2>1, <2>2, <2>4 DEF ShownFits, Showing
  <2>7. NewShape(more)' /\ NewShown(t, more)' /\ MayFollow(Effect(t), more)
    BY <1>1, <2>1, <2>2, <2>5, <2>6 DEF NewShape, NewShown, MayFollow, Setting, Preparing
  <2> QED
    BY <1>1, <1>3, <2>3, <2>7, UnwritingShows DEF Unwriting
<1> QED
  BY <1>4, <1>5 DEF InitializeIfNeeded

\* The lists that replace an effect, by what they consist of.
LEMMA GetOldParamList ==
    ASSUME IInv, NEW t \in Threads, GetOldParam(t)
    PROVE  \E more \in Seq(Effects) : Continue(t, more) /\ \A i \in DOMAIN more : more[i].op = "carryTo"
<1>1. PICK e \in Effects : e = Effect(t) /\ e.op = "carry" /\ Busy(t)
  BY HeadFits DEF GetOldParam, Doing, Effect
<1>2. e.item \in Items /\ e.contexts \subseteq Contexts
  BY <1>1, EffectFields
<1>3. PICK value : value = OldParam(e.item)
  OBVIOUS
<1>4. value \in Values
  <2>1. baseParam[e.item] \in Values
    BY <1>2 DEF IInv, TypeInv, TypeOK
  <2> QED
    BY <1>3, <2>1, AppearanceServiceAssumption DEF OldParam, GetDefaultFontWeightScaleValue
<1> DEFINE f == [c \in e.contexts |-> [op |-> "carryTo", context |-> c, item |-> e.item, value |-> value]]
           list == [i \in DOMAIN SetToSeq(e.contexts) |-> f[SetToSeq(e.contexts)[i]]]
<1>5. IsFiniteSet(e.contexts)
  BY <1>2, FS_Subset, AppearanceServiceAssumption
<1>6. Continue(t, list)
  <2>1. \A i \in DOMAIN SetToSeq(e.contexts) : SetToSeq(e.contexts)[i] \in e.contexts
    <3>1. SetToSeq(e.contexts) \in Seq(e.contexts)
      BY <1>5, SeqOfSet
    <3> QED
      BY <3>1, LenProperties, ElementOfSeq
  <2>2. Continue(t, [i \in DOMAIN SetToSeq(e.contexts) |->
             [op |-> "carryTo", context |-> SetToSeq(e.contexts)[i], item |-> e.item, value |-> value]])
    BY <1>1, <1>3 DEF GetOldParam, ForEach
  <2>3. [i \in DOMAIN SetToSeq(e.contexts) |->
             [op |-> "carryTo", context |-> SetToSeq(e.contexts)[i], item |-> e.item, value |-> value]] = list
    BY <2>1
  <2> QED
    BY <2>2, <2>3
<1>7. f \in [e.contexts -> Effects] /\ \A c \in e.contexts : f[c].op = "carryTo"
  <2>1. \A c \in e.contexts : f[c] \in [op : {"carryTo"}, context : Contexts, item : Items, value : Values]
    BY <1>2, <1>4
  <2>2. \A c \in e.contexts : f[c] \in Effects
    BY <2>1 DEF Effects
  <2> QED
    BY <2>2
<1> HIDE DEF f
<1>8. list \in Seq(Effects) /\ \A i \in DOMAIN list : \E c \in e.contexts : list[i] = f[c]
  <2> HIDE DEF list
  <2>1. f \in [e.contexts -> Effects]
    BY <1>7
  <2>2. /\ list \in Seq(Effects)
        /\ \A i \in DOMAIN list : \E c \in e.contexts : list[i] = f[c]
        /\ \A c \in e.contexts : \E i \in DOMAIN list : list[i] = f[c]
    BY <1>5, <2>1, ListOf DEF list
  <2> QED
    BY <2>2
<1> HIDE DEF list
<1> QED
  BY <1>6, <1>7, <1>8

LEMMA DoCompatibleProcessList ==
    ASSUME NEW t \in Threads, DoCompatibleProcess(t)
    PROVE  \E more \in Seq(Effects) :
              Continue(t, more) /\ \A i \in DOMAIN more : more[i].op \in {"carry", "carried"}
<1> DEFINE names == << "darkMode", "fontScale", "fontWeightScale" >>
           list(contexts) == [i \in 1 .. 3 |-> [op |-> "carry", item |-> names[i], contexts |-> contexts]]
           last == [op |-> "carried"]
<1>1. PICK contexts \in {Contexts, {}} : Continue(t, list(contexts) \o << last >>)
  BY DEF DoCompatibleProcess
<1>2. \A i \in 1 .. 3 : names[i] \in Items
  BY DEF Items
<1> HIDE DEF names
<1>3. list(contexts) \in Seq(Effects) /\ \A i \in DOMAIN list(contexts) : list(contexts)[i].op = "carry"
  <2>1. \A i \in 1 .. 3 : list(contexts)[i] \in [op : {"carry"}, item : Items, contexts : SUBSET Contexts]
    BY <1>2
  <2>2. list(contexts) \in [1 .. 3 -> Effects]
    BY <2>1 DEF Effects
  <2>3. 3 \in Nat
    OBVIOUS
  <2> QED
    BY <2>2, <2>3, SeqDef
<1>4. last \in Effects /\ last.op = "carried"
  BY DEF Effects
<1> HIDE DEF list, last
<1>5. /\ list(contexts) \o << last >> \in Seq(Effects)
      /\ \A i \in DOMAIN (list(contexts) \o << last >>) :
            \/ i \in DOMAIN list(contexts) /\ (list(contexts) \o << last >>)[i] = list(contexts)[i]
            \/ (list(contexts) \o << last >>)[i] = last
  BY <1>3, <1>4, ListAndOne
<1> QED
  BY <1>1, <1>3, <1>4, <1>5

\* What comes before an element of a list that another follows.
LEMMA BeforeLast ==
    ASSUME NEW list \in Seq(Effects), NEW e \in Effects, NEW i \in DOMAIN list
    PROVE  Before(list \o << e >>, i) = Before(list, i)
<1>1. DOMAIN list = 1 .. Len(list) /\ Len(list) \in Nat
  BY LenProperties
<1>2. \A j \in DOMAIN list : (list \o << e >>)[j] = list[j]
  BY ListAndOne
<1>3. \A j \in 1 .. i - 1 : j \in DOMAIN list
  BY <1>1
<1> QED
  BY <1>2, <1>3 DEF Before

LEMMA DoInitProcessList ==
    ASSUME NEW t \in Threads, DoInitProcess(t)
    PROVE  \E more \in Seq(Effects) :
              /\ Continue(t, more)
              /\ \A i \in DOMAIN more : more[i].op \in {"initContext", "initialized"}
              /\ \A i \in DOMAIN more : more[i].op = "initContext" =>
                    \A b \in Before(more, i) : b.op = "initContext"
              /\ \E i \in DOMAIN more : more[i].op = "initialized"
<1> DEFINE last == [op |-> "initialized"]
<1>1. PICK contexts \in {Contexts, {}} :
         Continue(t, [i \in DOMAIN SetToSeq(contexts) |->
                        [op |-> "initContext", context |-> SetToSeq(contexts)[i]]] \o << last >>)
  BY DEF DoInitProcess, ForEach
<1> DEFINE f == [c \in contexts |-> [op |-> "initContext", context |-> c]]
           list == [i \in DOMAIN SetToSeq(contexts) |-> f[SetToSeq(contexts)[i]]]
<1>2. contexts \subseteq Contexts /\ IsFiniteSet(contexts)
  BY FS_EmptySet, AppearanceServiceAssumption
<1>3. \A i \in DOMAIN SetToSeq(contexts) : SetToSeq(contexts)[i] \in contexts
  <2>1. SetToSeq(contexts) \in Seq(contexts)
    BY <1>2, SeqOfSet
  <2> QED
    BY <2>1, LenProperties, ElementOfSeq
<1>4. Continue(t, list \o << last >>)
  <2>1. [i \in DOMAIN SetToSeq(contexts) |-> [op |-> "initContext", context |-> SetToSeq(contexts)[i]]] = list
    BY <1>3
  <2> QED
    BY <1>1, <2>1
<1>5. f \in [contexts -> Effects] /\ \A c \in contexts : f[c].op = "initContext"
  <2>1. \A c \in contexts : f[c] \in [op : {"initContext", "loaded", "spread"}, context : Contexts]
    BY <1>2
  <2>2. \A c \in contexts : f[c] \in Effects
    BY <2>1 DEF Effects
  <2> QED
    BY <2>2
<1>6. last \in Effects /\ last.op = "initialized"
  BY DEF Effects
<1> HIDE DEF f, last
<1>7. list \in Seq(Effects) /\ \A i \in DOMAIN list : \E c \in contexts : list[i] = f[c]
  <2> HIDE DEF list
  <2> QED
    BY <1>2, <1>5, ListOf DEF list
<1> HIDE DEF list
<1>8. \A i \in DOMAIN list : list[i].op = "initContext"
  BY <1>5, <1>7
<1> DEFINE all == list \o << last >>
<1>9. /\ all \in Seq(Effects)
      /\ \A i \in DOMAIN all : (i \in DOMAIN list /\ all[i] = list[i]) \/ all[i] = last
      /\ \E i \in DOMAIN all : all[i] = last
  <2>1. all \in Seq(Effects) /\ \E i \in DOMAIN all : all[i] = last
    BY <1>6, <1>7, ListAndOne
  <2>2. \A i \in DOMAIN all : (i \in DOMAIN list /\ all[i] = list[i]) \/ all[i] = last
    BY <1>6, <1>7, ListAndOne
  <2> QED
    BY <2>1, <2>2
<1>10. ASSUME NEW i \in DOMAIN list PROVE \A b \in Before(all, i) : b.op = "initContext"
  <2>1. Before(all, i) = Before(list, i)
    BY <1>6, <1>7, BeforeLast
  <2>2. DOMAIN list = 1 .. Len(list) /\ Len(list) \in Nat
    BY <1>7, LenProperties
  <2>3. \A j \in 1 .. i - 1 : j \in DOMAIN list
    BY <2>2
  <2> QED
    BY <1>8, <2>1, <2>3 DEF Before
<1>11. Continue(t, all)
  BY <1>4
<1> HIDE DEF all
<1> QED
  BY <1>6, <1>8, <1>9, <1>10, <1>11

LEMMA GetMultipleUsersList ==
    ASSUME IInv, NEW t \in Threads, GetMultipleUsers(t)
    PROVE  \E more \in Seq(Effects) :
              /\ Continue(t, more)
              /\ \A i \in DOMAIN more : /\ more[i].op = "apply"
                                        /\ \E user \in active \ {USER100} : more[i].target = foreground[user]
              /\ \A user \in active \ {USER100} : \E i \in DOMAIN more : more[i].target = foreground[user]
<1>1. PICK e \in Effects : e = Effect(t) /\ e.op = "spread" /\ Busy(t)
  BY HeadFits DEF GetMultipleUsers, Doing, Effect
<1>2. e.context \in Contexts
  BY <1>1, EffectFields
<1> DEFINE S == active \ {USER100}
           f == [user \in S |-> [op |-> "apply", source |-> e.context, target |-> foreground[user]]]
           list == [i \in DOMAIN SetToSeq(S) |-> f[SetToSeq(S)[i]]]
<1>3. S \subseteq Users /\ IsFiniteSet(S) /\ \A user \in S : foreground[user] \in Contexts
  <2>1. S \subseteq Users /\ \A user \in S : foreground[user] \in Contexts
    BY DEF IInv, TypeInv, TypeOK
  <2> QED
    BY <2>1, FS_Subset, AppearanceServiceAssumption
<1>4. \A i \in DOMAIN SetToSeq(S) : SetToSeq(S)[i] \in S
  <2>1. SetToSeq(S) \in Seq(S)
    BY <1>3, SeqOfSet
  <2> QED
    BY <2>1, LenProperties, ElementOfSeq
<1>5. Continue(t, list)
  <2>1. Continue(t, [i \in DOMAIN SetToSeq(S) |->
           [op |-> "apply", source |-> e.context, target |-> foreground[SetToSeq(S)[i]]]])
    BY <1>1 DEF GetMultipleUsers, ForEach
  <2>2. [i \in DOMAIN SetToSeq(S) |->
           [op |-> "apply", source |-> e.context, target |-> foreground[SetToSeq(S)[i]]]] = list
    BY <1>4
  <2> QED
    BY <2>1, <2>2
<1>6. f \in [S -> Effects] /\ \A user \in S : f[user].op = "apply" /\ f[user].target = foreground[user]
  <2>1. \A user \in S : f[user] \in [op : {"apply"}, source : Contexts, target : Contexts]
    BY <1>2, <1>3
  <2>2. \A user \in S : f[user] \in Effects
    BY <2>1 DEF Effects
  <2> QED
    BY <2>2
<1> HIDE DEF f, S
<1>7. /\ list \in Seq(Effects) /\ \A i \in DOMAIN list : \E user \in S : list[i] = f[user]
      /\ \A user \in S : \E i \in DOMAIN list : list[i] = f[user]
  <2> HIDE DEF list
  <2> QED
    BY <1>3, <1>6, ListOf DEF list
<1> HIDE DEF list
<1>8. \A i \in DOMAIN list : list[i].op = "apply" /\ \E user \in S : list[i].target = foreground[user]
  <2> TAKE i \in DOMAIN list
  <2>1. PICK user \in S : list[i] = f[user]
    BY <1>7
  <2> QED
    BY <2>1, <1>6
<1>9. \A user \in S : \E i \in DOMAIN list : list[i].target = foreground[user]
  <2> TAKE user \in S
  <2>1. PICK i \in DOMAIN list : list[i] = f[user]
    BY <1>7
  <2> QED
    BY <2>1, <1>6
<1> HIDE DEF S
<1> QED
  <2>1. S = active \ {USER100}
    BY DEF S
  <2> QED
    BY <1>5, <1>7, <1>8, <1>9, <2>1, Zenon

LEMMA GetOldParamShows ==
    ASSUME IInv, SInv, NEW t \in Threads, GetOldParam(t)
    PROVE  SInv'
<1>1. Busy(t) /\ Effect(t).op = "carry"
  BY DEF GetOldParam, Doing, Effect
<1>2. UNCHANGED << environment, configuration, persistent, usersParam, flags, events, history >>
  BY DEF GetOldParam
<1>3. PICK more \in Seq(Effects) : Continue(t, more) /\ \A i \in DOMAIN more : more[i].op = "carryTo"
  BY GetOldParamList
<1>4. phase' # "published"
  BY <1>1, <1>2, HeadShows DEF ShapeFits, Setting, flags
<1>5. MayFollow(Effect(t), more) /\ NewShape(more)' /\ NewShown(t, more)'
  BY <1>1, <1>3, <1>4 DEF MayFollow, NewShape, NewShown, ShapeFits, ShownFits, Setting, Showing, Preparing
<1> QED
  BY <1>1, <1>2, <1>3, <1>5, UnwritingShows DEF Unwriting, Entry, flags, persistent, history

LEMMA DoCompatibleProcessShows ==
    ASSUME IInv, SInv, NEW t \in Threads, DoCompatibleProcess(t)
    PROVE  SInv'
<1>1. Busy(t) /\ Effect(t).op = "compatible"
  BY DEF DoCompatibleProcess, Doing, Effect
<1>2. UNCHANGED << environment, configuration, persistent, usersParam, flags, events, shown >>
  BY DEF DoCompatibleProcess
<1>3. PICK more \in Seq(Effects) :
         Continue(t, more) /\ \A i \in DOMAIN more : more[i].op \in {"carry", "carried"}
  BY DoCompatibleProcessList
<1>4. phase' # "published"
  BY <1>1, <1>2, HeadShows DEF ShapeFits, Setting, flags
<1>5. MayFollow(Effect(t), more) /\ NewShape(more)' /\ NewShown(t, more)'
  BY <1>1, <1>3, <1>4 DEF MayFollow, NewShape, NewShown, ShapeFits, ShownFits, Setting, Showing, Preparing
<1> QED
  BY <1>1, <1>2, <1>3, <1>5, UnwritingShows DEF Unwriting, Entry, flags, persistent

LEMMA DoInitProcessShows ==
    ASSUME IInv, SInv, NEW t \in Threads, DoInitProcess(t)
    PROVE  SInv'
<1>1. Busy(t) /\ Effect(t).op = "initialize"
  BY DEF DoInitProcess, Doing, Effect
<1>2. UNCHANGED << environment, configuration, persistent, usersParam, flags, events, shown >>
  BY DEF DoInitProcess
<1>3. PICK more \in Seq(Effects) :
         /\ Continue(t, more)
         /\ \A i \in DOMAIN more : more[i].op \in {"initContext", "initialized"}
         /\ \A i \in DOMAIN more : more[i].op = "initContext" =>
               \A b \in Before(more, i) : b.op = "initContext"
         /\ \E i \in DOMAIN more : more[i].op = "initialized"
  BY DoInitProcessList
<1>4. phase' # "published"
  BY <1>1, <1>2, HeadShows DEF ShapeFits, Setting, flags
<1>5. isInitializationFinished' => NoneShown'
  BY <1>1, <1>2, HeadShows DEF ShownFits, NoneShown, IsShown, flags
<1>6. NewShape(more)'
  BY <1>3, <1>4 DEF NewShape, ShapeFits, Setting, Preparing
<1>7. NewShown(t, more)'
  BY <1>3, <1>5 DEF NewShown, ShownFits, Showing
<1>8. MayFollow(Effect(t), more)
  BY <1>1, <1>3 DEF MayFollow, Setting, Preparing
<1> QED
  BY <1>1, <1>2, <1>3, <1>6, <1>7, <1>8, UnwritingShows DEF Unwriting, Entry, flags, persistent

LEMMA GetMultipleUsersShows ==
    ASSUME IInv, SInv, NEW t \in Threads, GetMultipleUsers(t)
    PROVE  SInv'
<1>1. Busy(t) /\ Effect(t).op = "spread"
  BY DEF GetMultipleUsers, Doing, Effect
<1>2. UNCHANGED << environment, configuration, persistent, usersParam, flags, events, history >>
  BY DEF GetMultipleUsers
<1>3. PICK more \in Seq(Effects) :
         /\ Continue(t, more)
         /\ \A i \in DOMAIN more : /\ more[i].op = "apply"
                                   /\ \E user \in Users : more[i].target = foreground[user]
  <2>1. active \subseteq Users
    BY DEF IInv, TypeInv, TypeOK
  <2>2. PICK more \in Seq(Effects) :
           /\ Continue(t, more)
           /\ \A i \in DOMAIN more : /\ more[i].op = "apply"
                                     /\ \E user \in active \ {USER100} : more[i].target = foreground[user]
    BY GetMultipleUsersList
  <2> QED
    BY <2>1, <2>2
<1>4. phase' # "published"
  BY <1>1, <1>2, HeadShows DEF ShapeFits, Setting, flags
<1>5. \A i \in DOMAIN more : Account(more[i]) = foreground'[Account(more[i]).userId]
  <2>1. \A user \in Users : foreground[user].userId = user
    BY DEF IInv, TypeInv, TypeOK
  <2> QED
    BY <1>2, <1>3, <2>1 DEF Account, environment
<1>6. \A i \in DOMAIN more : \A b \in Before(more, i) : b.op = "apply"
  <2>1. DOMAIN more = 1 .. Len(more) /\ Len(more) \in Nat
    BY LenProperties
  <2>2. \A i \in DOMAIN more : \A j \in 1 .. i - 1 : j \in DOMAIN more
    BY <2>1
  <2> QED
    BY <1>3, <2>2 DEF Before
<1>7. NewShape(more)'
  BY <1>3, <1>4, <1>6 DEF NewShape, ShapeFits, Setting, Preparing
<1>8. NewShown(t, more)'
  BY <1>3, <1>5 DEF NewShown, ShownFits, Showing, Current
<1>9. MayFollow(Effect(t), more)
  BY <1>1, <1>3 DEF MayFollow, Setting, Preparing
<1> QED
  BY <1>1, <1>2, <1>3, <1>7, <1>8, <1>9, UnwritingShows DEF Unwriting, Entry, flags, persistent, history

LEMMA UpdateForegroundShows ==
    ASSUME IInv, SInv, NEW t \in Threads, UpdateForeground(t)
    PROVE  SInv'
<1>1. Busy(t) /\ Effect(t).op = "updateForeground"
  BY DEF UpdateForeground, Doing, Effect
<1>2. UNCHANGED << environment, configuration, persistent, usersParam, flags, events, history >>
  BY DEF UpdateForeground
<1>3. PICK user \in Users :
         Continue(t, << [op |-> "update", context |-> foreground[user], force |-> FALSE] >>)
  BY AppearanceServiceAssumption DEF UpdateForeground, IInv, TypeInv, TypeOK
<1>4. foreground[user] \in Contexts /\ foreground[user].userId = user
  BY DEF IInv, TypeInv, TypeOK
<1>5. PICK f \in Effects : /\ f = [op |-> "update", context |-> foreground[user], force |-> FALSE]
                           /\ f.op = "update" /\ f.context = foreground[user]
  <2>1. [op |-> "update", context |-> foreground[user], force |-> FALSE]
           \in [op : {"update"}, context : Contexts, force : BOOLEAN]
    BY <1>4
  <2>2. [op |-> "update", context |-> foreground[user], force |-> FALSE] \in Effects
    BY <2>1 DEF Effects
  <2> QED
    BY <2>2
<1>6. PICK more \in Seq(Effects) :
         more = << f >> /\ DOMAIN more = {1} /\ more[1] = f /\ Before(more, 1) = {}
  <2>1. << f >> \in Seq(Effects) /\ DOMAIN << f >> = {1} /\ << f >>[1] = f /\ Before(<< f >>, 1) = {}
    BY <1>5, OneEffect
  <2> QED
    BY <2>1, Zenon
<1>7. Continue(t, more)
  BY <1>3, <1>5, <1>6
<1>8. phase' # "published" /\ isInitializationFinished'
  BY <1>1, <1>2, HeadShows DEF ShapeFits, Setting, flags
<1>9. NewShape(more)'
  BY <1>5, <1>6, <1>8 DEF NewShape, ShapeFits, Setting
<1>10. Current(f.context)'
  BY <1>2, <1>4, <1>5 DEF Current, environment
<1>11. NewShown(t, more)'
  BY <1>5, <1>6, <1>8, <1>10 DEF NewShown, ShownFits, Account
<1>12. MayFollow(Effect(t), more)
  BY <1>1, <1>5, <1>6 DEF MayFollow, Setting, Preparing
<1> QED
  BY <1>1, <1>2, <1>7, <1>9, <1>11, <1>12, UnwritingShows DEF Unwriting, Entry, flags, persistent, history

\* A handler that goes on has the doubts it had.
LEMMA ContinueDoubt ==
    ASSUME TypeInv, NEW t \in Threads, Busy(t), NEW more \in Seq(Effects), DOMAIN more # {}, Continue(t, more)
    PROVE  thread'[t] # Idle /\ thread'[t].inDoubt = thread[t].inDoubt
<1>1. PICK j \in DOMAIN more : TRUE
  OBVIOUS
<1>2. thread[t].todo \in Seq(Effects) /\ thread[t].todo # << >>
  BY EffectType DEF Busy
<1>3. j \in DOMAIN (more \o Tail(thread[t].todo))
  BY <1>2, NewIsThere
<1>4. thread'[t].todo = more \o Tail(thread[t].todo)
  BY ContinueTodo
<1>5. thread'[t] # Idle
  BY <1>3, <1>4 DEF Idle
<1>6. thread'[t].inDoubt = thread[t].inDoubt \/ thread'[t] = Idle
  BY ContinueProceeds
<1> QED
  BY <1>5, <1>6

LEMMA UpdateCurrentUserConfigurationShows ==
    ASSUME IInv, SInv, NEW t \in Threads, UpdateCurrentUserConfiguration(t)
    PROVE  SInv'
<1>1. PICK e \in Effects : e = Effect(t) /\ e.op = "update" /\ Busy(t)
  BY HeadFits DEF UpdateCurrentUserConfiguration, Doing, Effect
<1>2. PICK entry : entry = Entry(e.context)
  OBVIOUS
<1>3. /\ e.context \in Contexts /\ e.force \in BOOLEAN /\ entry \in [Items -> Values]
      /\ e.context.userId \in Users
  BY <1>1, <1>2, EffectFields, EntryType, NotShown DEF IInv
<1>4. EntrySet(e.context, entry)
  BY <1>1, <1>2 DEF UpdateCurrentUserConfiguration
<1>5. \A c \in Contexts : Entry(c)' = Entry(c)
  BY <1>2, <1>4, EntryAfter
<1>6. UNCHANGED << environment, configuration, persistent, flags, events >>
  BY DEF UpdateCurrentUserConfiguration
<1>7. UNCHANGED << environment, configuration, param, events, isInitializationFinished, onceFlag, phase >>
  BY <1>6 DEF flags, persistent
<1>8. CASE /\ shown' = [shown EXCEPT ![e.context.userId] = Doubtful]
           /\ Continue(t, << >>)
  <2>1. shown'[e.context.userId] \notin Contexts
    BY <1>3, <1>8, NotShown DEF IInv, TypeInv, TypeOK
  <2> QED
    BY <1>1, <1>3, <1>5, <1>7, <1>8, <2>1, DoneShows DEF Unwriting
<1>9. CASE /\ shown' = shown
           /\ Continue(t, << [op |-> "send", context |-> e.context, force |-> e.force, entry |-> entry],
                             [op |-> "base", values |-> entry] >>)
  <2>1. PICK f \in Effects, g \in Effects :
           /\ f = [op |-> "send", context |-> e.context, force |-> e.force, entry |-> entry]
           /\ g = [op |-> "base", values |-> entry]
           /\ f.op = "send" /\ f.context = e.context /\ f.force = e.force /\ f.entry = entry /\ g.op = "base"
    <3>1. [op |-> "send", context |-> e.context, force |-> e.force, entry |-> entry]
             \in [op : {"send"}, context : Contexts, force : BOOLEAN, entry : [Items -> Values]]
      BY <1>3
    <3>2. [op |-> "base", values |-> entry] \in [op : {"base"}, values : PartialParams]
      BY <1>3 DEF PartialParams
    <3>3. /\ [op |-> "send", context |-> e.context, force |-> e.force, entry |-> entry] \in Effects
          /\ [op |-> "base", values |-> entry] \in Effects
      BY <3>1, <3>2 DEF Effects
    <3> QED
      BY <3>3
  <2>2. PICK more \in Seq(Effects) : /\ more = << f, g >> /\ DOMAIN more = {1, 2} /\ more[1] = f /\ more[2] = g
                                     /\ Before(more, 1) = {} /\ Before(more, 2) = {f}
    <3>1. /\ << f, g >> \in Seq(Effects) /\ DOMAIN << f, g >> = {1, 2}
          /\ << f, g >>[1] = f /\ << f, g >>[2] = g
          /\ Before(<< f, g >>, 1) = {} /\ Before(<< f, g >>, 2) = {f}
      BY <2>1, TwoEffects
    <3> QED
      BY <3>1, Zenon
  <2>3. Continue(t, more)
    BY <1>9, <2>1, <2>2
  <2>4. thread'[t].inDoubt = thread[t].inDoubt
    BY <1>1, <2>2, <2>3, ContinueDoubt DEF IInv
  <2>5. phase' # "published"
    BY <1>1, <1>7, HeadShows DEF ShapeFits, Setting
  <2>6. NewShape(more)'
    BY <2>1, <2>2, <2>5 DEF NewShape, ShapeFits, Setting
  <2>7. ShownFits(e, {}, thread[t].inDoubt)
    BY <1>1, HeadShows
  <2>8. ASSUME ~thread[t].inDoubt
        PROVE  /\ Current(f.context)' /\ f.entry = Entry(f.context)'
               /\ isInitializationFinished' \/ \A item \in Items : SavedAfter(f.context, item, {})'
    <3>1. /\ Current(e.context)
          /\ isInitializationFinished \/ \A item \in Items : SavedAfter(e.context, item, {})
      BY <1>1, <2>7, <2>8 DEF ShownFits, Showing, Account
    <3>2. Current(f.context)'
      BY <1>7, <2>1, <3>1 DEF Current, Awaited, environment
    <3>3. f.entry = Entry(f.context)'
      BY <1>2, <1>3, <1>5, <2>1
    <3>4. \A item \in Items : SavedAfter(e.context, item, {}) => SavedAfter(f.context, item, {})'
      BY <1>3, <1>5, <1>7, <2>1 DEF SavedAfter
    <3> QED
      BY <1>7, <3>1, <3>2, <3>3, <3>4
  <2>9. NewShown(t, more)'
    <3>1. ShownFits(f, {}, thread[t].inDoubt)'
      BY <2>1, <2>4, <2>8 DEF ShownFits, Account
    <3>2. ShownFits(g, {f}, thread[t].inDoubt)'
      BY <2>1 DEF ShownFits, Showing
    <3> QED
      BY <2>2, <3>1, <3>2 DEF NewShown
  <2>10. MayFollow(Effect(t), more)
    BY <1>1, <2>1, <2>2 DEF MayFollow, Setting, Preparing
  <2>11. \E j \in DOMAIN more : /\ more[j].op = "send" /\ more[j].force = Effect(t).force
                                /\ more[j].context = Effect(t).context
    BY <1>1, <2>1, <2>2
  <2>12. \A c \in Contexts, item \in Items : param[c][item] \in {param'[c][item], Unset}
    BY <1>7
  <2> QED
    BY <1>1, <1>5, <1>7, <1>9, <2>3, <2>6, <2>9, <2>10, <2>11, <2>12, UnwritingShows DEF Unwriting
<1> QED
  BY <1>1, <1>2, <1>8, <1>9 DEF UpdateCurrentUserConfiguration

-----------------------------------------------------------------------------
(* What users see: the steps that write memory or a configuration.         *)

\* A step that writes nothing that a user sees or is about to see.
LEMMA Undisturbed ==
    ASSUME IInv, NEW t \in Threads, NEW more \in Seq(Effects), Proceeds(t, more),
           thread'[t].todo = more \o Tail(thread[t].todo),
           \A j \in DOMAIN more : more[j].op # "configuration",
           Effect(t).op \notin {"persist", "param"},
           NEW user \in Users, shown'[user] = shown[user],
           Forced(Effect(t)) /\ Account(Effect(t)).userId = user =>
              \E j \in DOMAIN more : Forced(more[j]) /\ Account(more[j]).userId = user,
           NEW c \in Contexts, c = foreground[user],
           foreground' = foreground, Entry(c)' = Entry(c), configuration'[user] = configuration[user],
           \A item \in Items : param[c][item] \in {param'[c][item], Unset},
           isInitializationFinished => isInitializationFinished'
    PROVE  KeepsFollowing(t, more, user)
<1>1. TypeInv
  BY DEF IInv
<1>2. PICK e \in Effects : e = Effect(t)
  BY <1>1, EffectType DEF Proceeds
<1>3. ASSUME NEW item \in Items
      PROVE  /\ Agrees(user, item) =>
                   \/ configuration'[user][item] = (Entry(foreground[user])[item])'
                   \/ \E u \in Threads : PersistPending(thread'[u].todo, user, item)
             /\ isInitializationFinished \/ Saved(user, item) =>
                   \/ isInitializationFinished'
                   \/ param'[foreground[user]][item] = (Entry(foreground[user])[item])'
                   \/ \E u \in Threads : ParamPending(thread'[u].todo, foreground[user], item)
  <2>1. (Entry(foreground[user])[item])' = Entry(foreground[user])[item]
    BY DEF Entry
  <2>2. Entry(foreground[user])[item] \in Values
    BY <1>1, EntryType
  <2>3. param[foreground[user]][item] = Entry(foreground[user])[item] =>
           param'[foreground[user]][item] = Entry(foreground[user])[item]
    BY <2>2 DEF Values, Unset
  <2> QED
    BY <1>1, <1>2, <2>1, <2>3, PendingKept DEF Agrees, Saved
<1> QED
  BY <1>2, <1>3 DEF KeepsFollowing

LEMMA InitializedShows ==
    ASSUME IInv, SInv, NEW t \in Threads, Initialized(t)
    PROVE  SInv'
<1>1. PICK e \in Effects : e = Effect(t) /\ e.op = "initialized" /\ Busy(t) /\ Continue(t, << >>)
  BY HeadFits DEF Initialized, Doing, Effect
<1>2. /\ isInitializationFinished' = TRUE
      /\ UNCHANGED << environment, configuration, persistent, usersParam, onceFlag, phase, events, history >>
  BY DEF Initialized
<1>3. UNCHANGED << param, shown, foreground >>
  BY <1>2 DEF persistent, history, environment
<1>4. PICK more \in Seq(Effects) : more = << >> /\ DOMAIN more = {}
  BY NoEffects
<1>5. /\ Proceeds(t, more)
      /\ thread'[t].inDoubt = thread[t].inDoubt \/ thread'[t] = Idle
      /\ thread'[t].todo = more \o Tail(thread[t].todo)
  BY <1>1, <1>4, ContinueProceeds, ContinueTodo DEF IInv
<1>6. \A c \in Contexts : Entry(c)' = Entry(c)
  BY <1>2 DEF Entry
<1>7. KeepsShape(t, more)
  BY <1>1, <1>2, <1>4 DEF KeepsShape
<1>8. KeepsShown(t, more)
  BY <1>1, <1>2, <1>3, <1>4, <1>6 DEF KeepsShown, IsShown, Setting
<1>9. \A c \in onceFlag' : shown'[c.userId] # Nobody
  BY <1>2, <1>3 DEF SInv, SoleInv
<1>10. \A user \in Users : KeepsFollowing(t, more, user)
  <2> TAKE user \in Users
  <2>1. PICK c \in Contexts : c = foreground[user]
    BY DEF IInv, TypeInv, TypeOK
  <2>2. Entry(c)' = Entry(c) /\ \A item \in Items : param[c][item] \in {param'[c][item], Unset}
    BY <1>3, <1>6
  <2>3. ~Forced(Effect(t))
    BY <1>1 DEF Forced
  <2> QED
    BY <1>1, <1>2, <1>3, <1>4, <1>5, <2>1, <2>2, <2>3, Undisturbed
<1> QED
  BY <1>3, <1>5, <1>7, <1>8, <1>9, <1>10, StepShows DEF IsShown

\* The parameters of an account that a user sees are those in memory.
LEMMA InitContextShows ==
    ASSUME IInv, SInv, NEW t \in Threads, InitContext(t)
    PROVE  SInv'
<1>1. PICK e \in Effects : e = Effect(t) /\ e.op = "initContext" /\ Busy(t) /\ Continue(t, << >>)
  BY HeadFits DEF InitContext, Doing, Effect
<1>2. UNCHANGED << environment, configuration, baseParam, firstInitialization, flags, events, history >>
  BY DEF InitContext
<1>3. UNCHANGED << shown, foreground, phase, onceFlag, isInitializationFinished >>
  BY <1>2 DEF flags, history, environment
<1>4. PICK more \in Seq(Effects) : more = << >> /\ DOMAIN more = {}
  BY NoEffects
<1>5. /\ Proceeds(t, more)
      /\ thread'[t].inDoubt = thread[t].inDoubt \/ thread'[t] = Idle
      /\ thread'[t].todo = more \o Tail(thread[t].todo)
  BY <1>1, <1>4, ContinueProceeds, ContinueTodo DEF IInv
<1>6. e.context \in Contexts /\ Items \subseteq thread[t].items
  BY <1>1, EffectFields, HeadFits DEF ItemsOf
<1>7. PICK loaded : loaded = [item \in Items |-> LoadContextParam(e.context, item)]
  OBVIOUS
<1>8. EntrySet(e.context, loaded)
  BY <1>1, <1>7 DEF InitContext
<1>9. \A c : Entry(c)' = IF c = e.context THEN loaded ELSE Entry(c)
  BY <1>8, EntryAfter
<1>10. KeepsShape(t, more)
  BY <1>1, <1>3, <1>4 DEF KeepsShape
<1>11. KeepsShown(t, more)
  BY <1>1, <1>2, <1>3, <1>4, <1>6 DEF KeepsShown, IsShown, Setting
<1>12. \A c \in onceFlag' : shown'[c.userId] # Nobody
  BY <1>3 DEF SInv, SoleInv
<1>13. param \in [ParamContexts -> [Items -> Values \cup {Unset}]] /\ Contexts \subseteq ParamContexts
  BY DEF IInv, TypeInv, TypeOK, ParamContexts
<1>14. \A c \in Contexts, item \in Items : param[c][item] \in {param'[c][item], Unset}
  <2>1. PICK failed : param' = IF IsSubProfileContext(Effect(t).context)
                      THEN [param EXCEPT ![Effect(t).context] = [item \in Items |->
                               IF item \in {i \in Items : param[Effect(t).context][i] = Unset} \ failed
                               THEN [i \in Items |-> LoadContextParam(Effect(t).context, i)][item]
                               ELSE @[item]]]
                      ELSE param
    BY DEF InitContext
  <2>2. \A item \in Items : param[e.context][item] # Unset => param'[e.context][item] = param[e.context][item]
    BY <1>1, <1>6, <1>13, <2>1
  <2>3. \A c \in Contexts : c # e.context => param'[c] = param[c]
    BY <1>1, <1>6, <1>13, <2>1
  <2> QED
    BY <2>2, <2>3
<1>15. ASSUME NEW user \in Users, IsShown(user), ~Follows(user)'
       PROVE  KeepsFollowing(t, more, user)
  <2>1. PICK c \in Contexts : c = foreground[user]
    BY DEF IInv, TypeInv, TypeOK
  <2>2. ~NoneShown
    BY <1>15 DEF NoneShown
  <2>3. ~isInitializationFinished
    BY <1>1, <2>2, HeadShows DEF ShownFits
  <2>4. \A u \in Threads : u # t => ~Busy(u)
    <3>1. 1 \in DOMAIN thread[t].todo /\ thread[t].todo[1].op \notin Setting
      BY <1>1, EffectType DEF IInv, Setting
    <3> QED
      BY <1>1, <2>2, <3>1, SwitchingAlone DEF SInv
  <2>5. Follows(user)
    BY <1>15 DEF SInv, FollowInv
  <2>6. ~Awaited(user)
    BY <1>2, <1>15 DEF Follows, Awaited
  <2>7. ~Forced(Effect(t))
    BY <1>1 DEF Forced
  <2>8. ~UnderWay(user)
    <3> SUFFICES ASSUME UnderWay(user) PROVE FALSE
      OBVIOUS
    <3>1. UnderWay(user)'
      BY <1>5, <2>7, ForcedStays DEF IInv, SInv
    <3> QED
      BY <1>15, <3>1 DEF Follows
  <2>9. ASSUME NEW item \in Items PROVE param[c][item] = Entry(c)[item]
    <3>1. Saved(user, item)
      BY <2>3, <2>5, <2>6, <2>8 DEF Follows
    <3>2. ASSUME NEW u \in Threads, ParamPending(thread[u].todo, c, item) PROVE FALSE
      <4>1. PICK i \in DOMAIN thread[u].todo : thread[u].todo[i].op = "param"
        BY <3>2 DEF ParamPending
      <4>2. Busy(u)
        BY TodoType DEF IInv
      <4>3. u = t
        BY <2>4, <4>2
      <4>4. Before(thread[t].todo, i) = {}
        BY <4>1, <4>3 DEF IInv, PromiseInv, PromiseFits
      <4>5. i = 1 \/ Effect(t) \in Before(thread[t].todo, i)
        <5>1. thread[t].todo \in Seq(Effects) /\ thread[t].todo # << >> /\ Effect(t) = Head(thread[t].todo)
          BY <1>1, EffectType DEF IInv, Busy, Effect
        <5> QED
          BY <4>3, <5>1, FirstAndRest
      <4> QED
        BY <1>1, <4>1, <4>3, <4>4, <4>5, EffectType DEF IInv
    <3> QED
      BY <2>1, <3>1, <3>2 DEF Saved
  <2>10. Entry(c)' = Entry(c)
    <3>1. CASE c # e.context
      BY <1>9, <3>1
    <3>2. CASE c = e.context
      <4>1. Entry(c) \in [Items -> Values]
        BY EntryType DEF IInv
      <4>2. \A item \in Items : LoadContextParam(c, item) = Entry(c)[item]
        BY <2>9, <4>1 DEF LoadContextParam, Values, Unset
      <4>3. loaded = Entry(c)
        BY <1>7, <3>2, <4>1, <4>2
      <4> QED
        BY <1>9, <3>2, <4>3
    <3> QED
      BY <3>1, <3>2
  <2> QED
    BY <1>1, <1>2, <1>3, <1>4, <1>5, <1>14, <2>1, <2>7, <2>10, Undisturbed
<1> QED
  BY <1>3, <1>5, <1>10, <1>11, <1>12, <1>15, StepShows DEF IsShown

\* What a user is sent is what memory has; what was sent before still is it.
LEMMA SendOnceShows ==
    ASSUME IInv, SInv, NEW t \in Threads, SendOnce(t)
    PROVE  SInv'
<1>1. PICK e \in Effects : e = Effect(t) /\ e.op = "send" /\ Busy(t) /\ Continue(t, << >>)
  BY HeadFits DEF SendOnce, Doing, Effect
<1>2. PICK c \in Contexts : c = e.context
  BY <1>1, EffectFields
<1>3. PICK w \in Users : w = c.userId
  BY NotShown
<1>4. PICK own \in BOOLEAN : own = (e.force \/ c \notin onceFlag)
  OBVIOUS
<1>5. UNCHANGED << environment, persistent, usersParam, isInitializationFinished, phase, events >>
  BY DEF SendOnce
<1>6. UNCHANGED << param, foreground >>
  BY <1>5 DEF persistent, environment
<1>7. onceFlag' = IF own THEN onceFlag \cup {c} ELSE onceFlag
  BY <1>1, <1>2, <1>4 DEF SendOnce
<1>8. \/ /\ configuration' = IF own THEN [configuration EXCEPT ![w] = e.entry] ELSE configuration
         /\ shown' = [shown EXCEPT ![w] =
               IF thread[t].inDoubt \/ (~own /\ shown[w] = Doubtful) THEN Doubtful ELSE c]
      \/ own /\ shown' = [shown EXCEPT ![w] = Doubtful] /\ configuration' = configuration
  BY <1>1, <1>2, <1>3, <1>4 DEF SendOnce
<1>9. PICK more \in Seq(Effects) : more = << >> /\ DOMAIN more = {}
  BY NoEffects
<1>10. /\ Proceeds(t, more)
       /\ thread'[t].inDoubt = thread[t].inDoubt \/ thread'[t] = Idle
       /\ thread'[t].todo = more \o Tail(thread[t].todo)
  BY <1>1, <1>9, ContinueProceeds, ContinueTodo DEF IInv
<1>11. Items \subseteq thread[t].items
  BY <1>1, HeadFits DEF ItemsOf
<1>12. \A d \in Contexts : Entry(d)' = Entry(d)
  BY <1>5 DEF Entry
<1>13. /\ shown \in [Users -> Contexts \cup {Nobody, Doubtful}]
       /\ configuration \in [Users -> [Items -> Values \cup {Lost}]]
       /\ \A user \in Users : foreground[user] \in Contexts /\ foreground[user].userId = user
  BY DEF IInv, TypeInv, TypeOK
<1>14. ShownFits(e, {}, thread[t].inDoubt)
  BY <1>1, HeadShows
<1>15. KeepsShape(t, more)
  BY <1>1, <1>5, <1>9 DEF KeepsShape
<1>16. /\ \A user \in Users : user # w => shown'[user] = shown[user] /\ configuration'[user] = configuration[user]
       /\ thread[t].inDoubt => ~IsShown(w)'
       /\ shown'[w] # Nobody
  <2>1. shown'[w] \in {Doubtful, c}
    BY <1>8, <1>13
  <2>2. thread[t].inDoubt => shown'[w] = Doubtful
    BY <1>8, <1>13
  <2>3. \A user \in Users : user # w => shown'[user] = shown[user] /\ configuration'[user] = configuration[user]
    BY <1>8, <1>13
  <2> QED
    BY <2>1, <2>2, <2>3, NotShown DEF IsShown
<1>17. KeepsShown(t, more)
  <2>1. \A user \in Users : IsShown(user)' => IsShown(user) \/ ~thread[t].inDoubt
    BY <1>16 DEF IsShown
  <2> QED
    BY <1>1, <1>5, <1>9, <1>11, <2>1 DEF KeepsShown, Setting
<1>18. \A d \in onceFlag' : shown'[d.userId] # Nobody
  <2>1. \A d \in onceFlag : d.userId \in Users /\ shown[d.userId] # Nobody
    BY NotShown DEF IInv, TypeInv, TypeOK, SInv, SoleInv
  <2> QED
    BY <1>3, <1>7, <1>16, <2>1
<1>19. ASSUME NEW user \in Users, user # w, IsShown(user)'
       PROVE  IsShown(user) /\ KeepsFollowing(t, more, user)
  <2>1. IsShown(user) /\ shown'[user] = shown[user] /\ configuration'[user] = configuration[user]
    BY <1>16, <1>19 DEF IsShown
  <2>2. PICK d \in Contexts : d = foreground[user]
    BY <1>13
  <2>3. Entry(d)' = Entry(d) /\ \A item \in Items : param[d][item] \in {param'[d][item], Unset}
    BY <1>6, <1>12
  <2>4. Account(Effect(t)).userId # user
    BY <1>1, <1>2, <1>3, <1>19 DEF Account
  <2>5. KeepsFollowing(t, more, user)
    BY <1>1, <1>5, <1>6, <1>9, <1>10, <2>1, <2>2, <2>3, <2>4, Undisturbed
  <2> QED
    BY <2>1, <2>5
<1>20. ASSUME IsShown(w)' PROVE Follows(w)'
  <2>1. /\ ~thread[t].inDoubt
        /\ configuration' = IF own THEN [configuration EXCEPT ![w] = e.entry] ELSE configuration
        /\ shown'[w] = c /\ (own \/ shown[w] # Doubtful)
    BY <1>8, <1>13, <1>16, <1>20, NotShown DEF IsShown
  <2>2. /\ Current(c) /\ e.entry = Entry(c)
        /\ isInitializationFinished \/ \A item \in Items : param[c][item] = Entry(c)[item]
    BY <1>1, <1>2, <1>14, <2>1 DEF ShownFits, Showing, Account, SavedAfter
  <2>3. CASE Awaited(w)
    BY <1>5, <2>3 DEF Awaited, Follows
  <2>4. CASE ~Awaited(w) /\ own
    <3>1. c = foreground[w]
      BY <1>3, <2>2, <2>4 DEF Current
    <3>2. shown'[w] = foreground'[w] /\ configuration'[w] = Entry(c)
      BY <1>6, <1>13, <2>1, <2>2, <2>4, <3>1
    <3>3. ASSUME NEW item \in Items
          PROVE  Agrees(w, item)' /\ (isInitializationFinished' \/ Saved(w, item)')
      <4>1. (Entry(foreground[w])[item])' = Entry(c)[item]
        BY <1>6, <1>12, <3>1 DEF Entry
      <4> QED
        BY <1>5, <1>6, <2>2, <3>1, <3>2, <4>1 DEF Agrees, Saved
    <3> QED
      BY <3>2, <3>3 DEF Follows
  <2>5. CASE ~Awaited(w) /\ ~own
    <3>1. c = foreground[w] /\ c \in onceFlag /\ ~e.force
      BY <1>3, <1>4, <2>2, <2>5 DEF Current
    <3>2. shown[w] # Nobody /\ shown[w] # Doubtful
      BY <1>3, <2>1, <2>5, <3>1 DEF SInv, SoleInv
    <3>3. IsShown(w)
      BY <1>13, <3>2 DEF IsShown
    <3>4. Follows(w)
      BY <3>3 DEF SInv, FollowInv
    <3>5. ~Forced(Effect(t))
      BY <1>1, <3>1 DEF Forced
    <3>6. CASE UnderWay(w)
      <4>1. UnderWay(w)'
        BY <1>10, <3>5, <3>6, ForcedStays DEF IInv, SInv
      <4> QED
        BY <4>1 DEF Follows
    <3>7. CASE ~UnderWay(w)
      <4>1. shown[w] = foreground[w]
        BY <2>5, <3>4, <3>7 DEF Follows
      <4>2. shown'[w] = shown[w] /\ configuration'[w] = configuration[w]
        BY <2>1, <2>5, <3>1, <4>1
      <4>3. Entry(c)' = Entry(c) /\ \A item \in Items : param[c][item] \in {param'[c][item], Unset}
        BY <1>6, <1>12
      <4>4. KeepsFollowing(t, more, w)
        BY <1>1, <1>5, <1>6, <1>9, <1>10, <3>1, <3>5, <4>2, <4>3, Undisturbed
      <4> QED
        BY <1>5, <1>10, <3>4, <4>4, FollowingKept DEF IInv, SInv
    <3> QED
      BY <3>6, <3>7
  <2> QED
    BY <2>3, <2>4, <2>5
<1> QED
  BY <1>10, <1>15, <1>17, <1>18, <1>19, <1>20, StepShows

\* A changed colour is going to be sent.
LEMMA LoadedDarkModeShows ==
    ASSUME IInv, SInv, NEW t \in Threads, LoadedDarkMode(t)
    PROVE  SInv'
<1>1. PICK e \in Effects : e = Effect(t) /\ e.op = "loaded" /\ Busy(t)
  BY HeadFits DEF LoadedDarkMode, Doing, Effect
<1>2. PICK c \in Contexts : c = e.context
  BY <1>1, EffectFields
<1>3. UNCHANGED << environment, configuration, persistent, flags, events, shown >>
  BY DEF LoadedDarkMode
<1>4. UNCHANGED << environment, configuration, param, foreground, isInitializationFinished, onceFlag, phase, events >>
  BY <1>3 DEF flags, persistent, environment
<1>5. PICK old \in [Items -> Values] : old = Entry(c)
  BY EntryType DEF IInv
<1>6. PICK darkMode :
         /\ EntrySet(c, [old EXCEPT !["darkMode"] = darkMode])
         /\ Continue(t, << [op |-> "update", context |-> c,
                            force |-> darkMode # old["darkMode"] \/ IsSubProfileContext(c)] >>)
  BY <1>1, <1>2, <1>5 DEF LoadedDarkMode
<1>7. PICK force \in BOOLEAN : force = (darkMode # old["darkMode"] \/ IsSubProfileContext(c))
  OBVIOUS
<1>8. PICK f \in Effects : /\ f = [op |-> "update", context |-> c, force |-> force]
                           /\ f.op = "update" /\ f.context = c /\ f.force = force
  <2>1. [op |-> "update", context |-> c, force |-> force]
           \in [op : {"update"}, context : Contexts, force : BOOLEAN]
    OBVIOUS
  <2>2. [op |-> "update", context |-> c, force |-> force] \in Effects
    BY <2>1 DEF Effects
  <2> QED
    BY <2>2
<1>9. PICK more \in Seq(Effects) :
         more = << f >> /\ DOMAIN more = {1} /\ more[1] = f /\ Before(more, 1) = {}
  <2>1. << f >> \in Seq(Effects) /\ DOMAIN << f >> = {1} /\ << f >>[1] = f /\ Before(<< f >>, 1) = {}
    BY <1>8, OneEffect
  <2> QED
    BY <2>1, Zenon
<1>10. Continue(t, more)
  BY <1>6, <1>7, <1>8, <1>9
<1>11. /\ Proceeds(t, more) /\ thread'[t].inDoubt = thread[t].inDoubt
       /\ thread'[t].todo = more \o Tail(thread[t].todo)
  BY <1>1, <1>9, <1>10, ContinueProceeds, ContinueTodo, ContinueDoubt DEF IInv
<1>12. Items \subseteq thread[t].items
  BY <1>1, HeadFits DEF ItemsOf
<1>13. /\ \A d \in Contexts : d # c => Entry(d)' = Entry(d)
       /\ ~force => Entry(c)' = Entry(c)
  <2>1. \A d : Entry(d)' = IF d = c THEN [old EXCEPT !["darkMode"] = darkMode] ELSE Entry(d)
    BY <1>6, EntryAfter
  <2>2. ~force => [old EXCEPT !["darkMode"] = darkMode] = old
    BY <1>7
  <2> QED
    BY <1>5, <2>1, <2>2
<1>14. isInitializationFinished /\ phase # "published" /\ (~thread[t].inDoubt => Current(c))
  BY <1>1, <1>2, HeadShows DEF ShapeFits, ShownFits, Setting, Showing, Account
<1>15. KeepsShape(t, more)
  <2>1. ShapeFits(f, {})'
    BY <1>4, <1>8, <1>14 DEF ShapeFits
  <2> QED
    BY <1>1, <1>4, <1>8, <1>9, <2>1 DEF KeepsShape, ShapeFits, Setting, Preparing
<1>16. KeepsShown(t, more)
  <2>1. Current(c) => Current(c)'
    BY <1>4 DEF Current, Awaited
  <2>2. ShownFits(f, {}, thread[t].inDoubt)'
    BY <1>4, <1>8, <1>11, <1>14, <2>1 DEF ShownFits, Account
  <2>3. \A i \in DOMAIN more : ShownFits(more[i], Before(more, i), thread[t].inDoubt)'
    BY <1>9, <2>2 DEF ShownFits
  <2> QED
    BY <1>1, <1>3, <1>4, <1>12, <2>3 DEF KeepsShown, IsShown, Setting
<1>17. \A d \in onceFlag' : shown'[d.userId] # Nobody
  BY <1>3, <1>4 DEF SInv, SoleInv
<1>18. ASSUME NEW user \in Users, IsShown(user), ~Follows(user)' PROVE KeepsFollowing(t, more, user)
  <2>1. PICK d \in Contexts : d = foreground[user] /\ d.userId = user
    BY DEF IInv, TypeInv, TypeOK
  <2>2. Forced(f) /\ c.userId = user => UnderWay(user)'
    <3>1. 1 \in DOMAIN thread'[t].todo /\ thread'[t].todo[1] = f
      <4>1. thread[t].todo \in Seq(Effects) /\ thread[t].todo # << >>
        BY <1>1, EffectType DEF IInv, Busy
      <4> QED
        BY <1>9, <1>11, <4>1, NewIsThere
    <3>2. Account(f) = c
      BY <1>8 DEF Account
    <3> QED
      BY <3>1, <3>2 DEF UnderWay, ForcedFor
  <2>3. ~(force /\ c.userId = user)
    <3>1. force => Forced(f)
      BY <1>8 DEF Forced
    <3> QED
      BY <1>18, <2>2, <3>1 DEF Follows
  <2>4. Entry(d)' = Entry(d)
    BY <1>13, <2>1, <2>3
  <2>5. ~(Forced(Effect(t)) /\ Account(Effect(t)).userId = user)
    BY <1>1, <1>2, <1>7, <2>3 DEF Forced, Account
  <2>6. \A item \in Items : param[d][item] \in {param'[d][item], Unset}
    BY <1>4
  <2> QED
    BY <1>1, <1>3, <1>4, <1>8, <1>9, <1>11, <2>1, <2>4, <2>5, <2>6, Undisturbed
<1> QED
  BY <1>3, <1>11, <1>15, <1>16, <1>17, <1>18, StepShows DEF IsShown

\* A user whose account follows another's is going to be sent it.
LEMMA ApplyAppearanceContextToUserShows ==
    ASSUME IInv, SInv, NEW t \in Threads, ApplyAppearanceContextToUser(t)
    PROVE  SInv'
<1>1. PICK e \in Effects : e = Effect(t) /\ e.op = "apply" /\ Busy(t)
  BY HeadFits DEF ApplyAppearanceContextToUser, Doing, Effect
<1>2. PICK c \in Contexts : c = e.target
  BY <1>1, EffectFields
<1>3. PICK w \in Users : w = c.userId
  BY NotShown
<1>4. UNCHANGED << environment, configuration, persistent, flags, events >>
  BY DEF ApplyAppearanceContextToUser
<1>5. UNCHANGED << environment, configuration, param, foreground, isInitializationFinished, onceFlag, phase, events >>
  BY <1>4 DEF flags, persistent, environment
<1>6. Items \subseteq thread[t].items
  BY <1>1, HeadFits DEF ItemsOf
<1>7. ShapeFits(e, {}) /\ ShownFits(e, {}, thread[t].inDoubt)
  BY <1>1, HeadShows
<1>8. phase # "published" /\ (~thread[t].inDoubt => Current(c))
  BY <1>1, <1>2, <1>7 DEF ShapeFits, ShownFits, Setting, Showing, Account
<1>9. \A user \in Users : \E d \in Contexts : d = foreground[user] /\ d.userId = user
  BY DEF IInv, TypeInv, TypeOK
<1>10. ASSUME NEW more \in Seq(Effects), Proceeds(t, more), thread'[t].todo = more \o Tail(thread[t].todo),
              \A j \in DOMAIN more : more[j].op # "configuration",
              NEW user \in Users, user # w, shown'[user] = shown[user],
              \A d \in Contexts : d # c => Entry(d)' = Entry(d)
       PROVE  KeepsFollowing(t, more, user)
  <2>1. PICK d \in Contexts : d = foreground[user] /\ d.userId = user
    BY <1>9
  <2>2. Entry(d)' = Entry(d) /\ \A item \in Items : param[d][item] \in {param'[d][item], Unset}
    BY <1>3, <1>5, <1>10, <2>1
  <2>3. Account(Effect(t)).userId # user
    BY <1>1, <1>2, <1>3, <1>10 DEF Account
  <2> QED
    BY <1>1, <1>5, <1>10, <2>1, <2>2, <2>3, Undisturbed
<1>11. CASE e.source \notin DOMAIN usersParam
  <2>1. /\ shown' = [shown EXCEPT ![w] = Doubtful]
        /\ Continue(t, << >>) /\ usersParam' = usersParam
    BY <1>1, <1>2, <1>3, <1>11 DEF ApplyAppearanceContextToUser
  <2>2. PICK more \in Seq(Effects) : more = << >> /\ DOMAIN more = {}
    BY NoEffects
  <2>3. /\ Proceeds(t, more) /\ thread'[t].todo = more \o Tail(thread[t].todo)
        /\ thread'[t].inDoubt = thread[t].inDoubt \/ thread'[t] = Idle
    BY <1>1, <2>1, <2>2, ContinueProceeds, ContinueTodo DEF IInv
  <2>4. shown'[w] = Doubtful /\ \A user \in Users : user # w => shown'[user] = shown[user]
    BY <2>1 DEF IInv, TypeInv, TypeOK
  <2>5. \A user \in Users : IsShown(user)' => user # w /\ shown'[user] = shown[user] /\ IsShown(user)
    BY <2>4, NotShown DEF IsShown
  <2>6. KeepsShape(t, more)
    BY <1>1, <1>5, <2>2 DEF KeepsShape
  <2>7. KeepsShown(t, more)
    BY <1>1, <1>5, <1>6, <2>2, <2>5 DEF KeepsShown, Setting
  <2>8. \A d \in onceFlag' : shown'[d.userId] # Nobody
    <3>1. \A d \in onceFlag : d.userId \in Users /\ shown[d.userId] # Nobody
      BY NotShown DEF IInv, TypeInv, TypeOK, SInv, SoleInv
    <3> QED
      BY <1>5, <2>4, <3>1, NotShown
  <2>9. \A d \in Contexts : Entry(d)' = Entry(d)
    BY <2>1 DEF Entry
  <2>10. \A user \in Users : IsShown(user)' => IsShown(user) /\ KeepsFollowing(t, more, user)
    BY <1>10, <2>2, <2>3, <2>5, <2>9
  <2> QED
    BY <2>3, <2>6, <2>7, <2>8, <2>10, StepShows
<1>12. CASE e.source \in DOMAIN usersParam
  <2>1. PICK values \in [Items -> Values] : values = usersParam[e.source]
    BY <1>12 DEF IInv, TypeInv, TypeOK
  <2>2. /\ EntrySet(c, values) /\ shown' = shown
        /\ Continue(t, << [op |-> "param", context |-> c, values |-> values, must |-> FALSE],
                          [op |-> "update", context |-> c, force |-> TRUE],
                          [op |-> "promise", context |-> c, values |-> values] >>)
    BY <1>1, <1>2, <1>12, <2>1 DEF ApplyAppearanceContextToUser
  <2>3. PICK f \in Effects, g \in Effects, h \in Effects :
           /\ f = [op |-> "param", context |-> c, values |-> values, must |-> FALSE]
           /\ g = [op |-> "update", context |-> c, force |-> TRUE]
           /\ h = [op |-> "promise", context |-> c, values |-> values]
           /\ f.op = "param" /\ f.context = c /\ f.values = values
           /\ g.op = "update" /\ g.context = c /\ g.force /\ h.op = "promise"
    <3>1. values \in PartialParams
      BY DEF PartialParams
    <3>2. [op |-> "param", context |-> c, values |-> values, must |-> FALSE]
             \in [op : {"param"}, context : Contexts, values : PartialParams, must : BOOLEAN]
      BY <3>1
    <3>3. [op |-> "update", context |-> c, force |-> TRUE]
             \in [op : {"update"}, context : Contexts, force : BOOLEAN]
      OBVIOUS
    <3>4. [op |-> "promise", context |-> c, values |-> values]
             \in [op : {"promise"}, context : Contexts, values : PartialParams]
      BY <3>1
    <3>5. /\ [op |-> "param", context |-> c, values |-> values, must |-> FALSE] \in Effects
          /\ [op |-> "update", context |-> c, force |-> TRUE] \in Effects
          /\ [op |-> "promise", context |-> c, values |-> values] \in Effects
      BY <3>2, <3>3, <3>4 DEF Effects
    <3> QED
      BY <3>5
  <2>4. PICK more \in Seq(Effects) :
           /\ more = << f, g, h >> /\ DOMAIN more = {1, 2, 3}
           /\ more[1] = f /\ more[2] = g /\ more[3] = h
           /\ Before(more, 1) = {} /\ Before(more, 2) = {f} /\ Before(more, 3) = {f, g}
    <3>1. f \in Effects /\ g \in Effects /\ h \in Effects
      BY <2>3
    <3>2. /\ << f, g, h >> \in Seq(Effects) /\ DOMAIN << f, g, h >> = {1, 2, 3}
          /\ << f, g, h >>[1] = f /\ << f, g, h >>[2] = g /\ << f, g, h >>[3] = h
          /\ Before(<< f, g, h >>, 1) = {} /\ Before(<< f, g, h >>, 2) = {f}
          /\ Before(<< f, g, h >>, 3) = {f, g}
      BY <3>1, ThreeEffects
    <3> QED
      BY <3>2, Zenon
  <2>5. Continue(t, more)
    BY <2>2, <2>3, <2>4
  <2>6. /\ Proceeds(t, more) /\ thread'[t].inDoubt = thread[t].inDoubt
        /\ thread'[t].todo = more \o Tail(thread[t].todo)
    BY <1>1, <2>4, <2>5, ContinueProceeds, ContinueTodo, ContinueDoubt DEF IInv
  <2>7. \A d : Entry(d)' = IF d = c THEN values ELSE Entry(d)
    BY <2>2, EntryAfter
  <2>8. KeepsShape(t, more)
    <3>1. ShapeFits(f, {})' /\ ShapeFits(g, {f})' /\ ShapeFits(h, {f, g})'
      BY <1>5, <1>8, <2>3 DEF ShapeFits, Setting
    <3>2. \A i \in DOMAIN more : ShapeFits(more[i], Before(more, i))'
      BY <2>4, <3>1 DEF ShapeFits
    <3>3. \A i \in DOMAIN more : more[i].op # "configuration"
      BY <2>3, <2>4
    <3>4. Effect(t).op = "apply" /\ "apply" \notin Setting \cup Preparing
      BY <1>1 DEF Setting, Preparing
    <3> QED
      BY <1>5, <3>2, <3>3, <3>4 DEF KeepsShape
  <2>9. KeepsShown(t, more)
    <3>1. Current(c) => Current(c)'
      BY <1>5 DEF Current, Awaited
    <3>2. DOMAIN values = Items /\ Entry(c)' = values
      BY <2>7
    <3>3. \A item \in Items : SavedAfter(c, item, {f})'
      BY <2>3, <3>2 DEF SavedAfter
    <3>4. ShownFits(f, {}, thread[t].inDoubt)'
      BY <2>3, <3>2 DEF ShownFits, Showing
    <3>5. ShownFits(g, {f}, thread[t].inDoubt)'
      BY <1>8, <2>3, <2>6, <3>1, <3>3 DEF ShownFits, Account
    <3>6. ShownFits(h, {f, g}, thread[t].inDoubt)'
      BY <2>3 DEF ShownFits, Showing
    <3>7. \A i \in DOMAIN more : ShownFits(more[i], Before(more, i), thread[t].inDoubt)'
      BY <2>4, <3>4, <3>5, <3>6, SMTT(30) DEF ShownFits
    <3> QED
      BY <1>1, <1>5, <1>6, <2>2, <3>7 DEF KeepsShown, IsShown, Setting
  <2>10. \A d \in onceFlag' : shown'[d.userId] # Nobody
    BY <1>5, <2>2 DEF SInv, SoleInv
  <2>11. Follows(w)'
    <3>1. 2 \in DOMAIN thread'[t].todo /\ thread'[t].todo[2] = g
      <4>1. thread[t].todo \in Seq(Effects) /\ thread[t].todo # << >>
        BY <1>1, EffectType DEF IInv, Busy
      <4> QED
        BY <2>4, <2>6, <4>1, NewIsThere
    <3>2. Forced(g) /\ Account(g).userId = w
      BY <1>3, <2>3 DEF Forced, Account
    <3> QED
      BY <3>1, <3>2 DEF Follows, UnderWay, ForcedFor
  <2>12. \A user \in Users : user # w => KeepsFollowing(t, more, user)
    <3>1. \A j \in DOMAIN more : more[j].op # "configuration"
      BY <2>3, <2>4
    <3>2. \A d \in Contexts : d # c => Entry(d)' = Entry(d)
      BY <2>7
    <3>3. \A user \in Users : shown'[user] = shown[user]
      BY <2>2
    <3> QED
      BY <1>10, <2>6, <3>1, <3>2, <3>3
  <2> QED
    BY <2>2, <2>6, <2>8, <2>9, <2>10, <2>11, <2>12, StepShows DEF IsShown
<1> QED
  BY <1>11, <1>12

\* A configuration that is sent to a user goes to memory after that.
LEMMA UpdateConfigurationShows ==
    ASSUME IInv, SInv, NEW t \in Threads, UpdateConfiguration(t)
    PROVE  SInv'
<1>1. PICK e \in Effects : e = Effect(t) /\ e.op = "configuration" /\ Busy(t)
  BY HeadFits DEF UpdateConfiguration, Doing, Effect
<1>2. e.users \subseteq Users /\ e.item \in Items /\ e.item \in thread[t].items
  BY <1>1, EffectFields, HeadFits DEF ItemsOf
<1>3. UNCHANGED << environment, persistent, usersParam, flags, events, history >>
  BY DEF UpdateConfiguration
<1>4. UNCHANGED << environment, param, foreground, usersParam, isInitializationFinished, onceFlag, phase, events, shown >>
  BY <1>3 DEF flags, persistent, environment, history
<1>5. configuration \in [Users -> [Items -> Values \cup {Lost}]]
  BY DEF IInv, TypeInv, TypeOK
<1>6. \A c : Entry(c)' = Entry(c)
  BY <1>4 DEF Entry
<1>7. PICK more \in Seq(Effects) : more = << >> /\ DOMAIN more = {}
  BY NoEffects
<1>8. KeepsShape(t, more)
  BY <1>1, <1>4, <1>7 DEF KeepsShape
<1>9. \A c \in onceFlag' : shown'[c.userId] # Nobody
  BY <1>4 DEF SInv, SoleInv
<1>10. thread[t].todo \in Seq(Effects) /\ thread[t].todo # << >> /\ Effect(t) = Head(thread[t].todo)
       /\ 1 \in DOMAIN thread[t].todo /\ e = thread[t].todo[1]
  BY <1>1, EffectType DEF IInv, Busy, Effect
<1>11. TypeInv /\ ShapeInv
  BY DEF IInv, SInv
<1>12. CASE /\ Continue(t, << >>)
            /\ \A user \in Users, item \in Items :
                  configuration'[user][item] = IF user \in e.users /\ item = e.item THEN e.value
                                               ELSE configuration[user][item]
  <2>1. /\ Proceeds(t, more) /\ thread'[t].todo = more \o Tail(thread[t].todo)
        /\ thread'[t].inDoubt = thread[t].inDoubt \/ thread'[t] = Idle
    BY <1>1, <1>7, <1>11, <1>12, ContinueProceeds, ContinueTodo
  <2>2. KeepsShown(t, more)
    <3>1. \A user \in e.users : configuration'[user][e.item] = e.value
      BY <1>2, <1>12
    <3>2. \A item \in Items \ thread[t].items : \A user \in Users :
             configuration'[user][item] = configuration[user][item]
      BY <1>2, <1>12
    <3> QED
      BY <1>1, <1>4, <1>6, <1>7, <3>1, <3>2 DEF KeepsShown, IsShown
  <2>3. ASSUME NEW user \in e.users PROVE PersistPending(thread'[t].todo, user, e.item)
    <3>1. Persists(thread[t].todo, user, e.item)
      BY <1>1, <1>10, <1>11, <2>3 DEF ShapeInv
    <3>2. PICK k \in DOMAIN thread[t].todo :
             /\ thread[t].todo[k].op = "persist" /\ About(thread[t].todo[k]) = user
             /\ e.item \in DOMAIN thread[t].todo[k].values
      BY <3>1 DEF Persists
    <3>3. k # 1
      BY <1>1, <1>10, <3>2
    <3>4. PICK i \in DOMAIN thread'[t].todo : thread'[t].todo[i] = thread[t].todo[k]
      <4>1. PICK s \in Seq(Effects) : s = thread[t].todo /\ s # << >> /\ thread'[t].todo = more \o Tail(s)
        BY <1>10, <2>1
      <4>2. \E i \in DOMAIN (more \o Tail(s)) : (more \o Tail(s))[i] = s[k]
        BY <3>3, <4>1, OldStays
      <4> QED
        BY <4>1, <4>2
    <3>5. \A b \in Before(thread'[t].todo, i) : b.op # "configuration"
      <4>1. \A j \in DOMAIN thread'[t].todo : thread'[t].todo[j].op # "configuration"
        BY <1>8, <1>11, <2>1, ShapeKept
      <4>2. thread'[t].todo \in Seq(Effects)
        <5>1. thread'[t] \in Handlers
          BY <2>1 DEF Proceeds
        <5> QED
          BY <5>1, HandlerFields
      <4>3. \A j \in 1 .. i - 1 : j \in DOMAIN thread'[t].todo
        BY <4>2, LenProperties
      <4> QED
        BY <4>1, <4>3 DEF Before
    <3> QED
      BY <3>2, <3>4, <3>5 DEF PersistPending
  <2>4. ASSUME NEW user \in Users, NEW item \in Items
        PROVE  /\ Agrees(user, item) =>
                     \/ configuration'[user][item] = (Entry(foreground[user])[item])'
                     \/ \E u \in Threads : PersistPending(thread'[u].todo, user, item)
               /\ isInitializationFinished \/ Saved(user, item) =>
                     \/ isInitializationFinished'
                     \/ param'[foreground[user]][item] = (Entry(foreground[user])[item])'
                     \/ \E u \in Threads : ParamPending(thread'[u].todo, foreground[user], item)
    <3>1. (Entry(foreground[user])[item])' = Entry(foreground[user])[item]
      BY <1>4 DEF Entry
    <3>2. CASE user \in e.users /\ item = e.item
      BY <1>1, <1>4, <1>7, <1>11, <2>1, <2>3, <3>1, <3>2, PendingKept DEF Saved
    <3>3. CASE ~(user \in e.users /\ item = e.item)
      <4>1. configuration'[user][item] = configuration[user][item]
        BY <1>12, <3>3
      <4> QED
        BY <1>1, <1>4, <1>7, <1>11, <2>1, <3>1, <4>1, PendingKept DEF Agrees, Saved
    <3> QED
      BY <3>2, <3>3
  <2>5. \A user \in Users : KeepsFollowing(t, more, user)
    <3>1. ~Forced(Effect(t))
      BY <1>1 DEF Forced
    <3> QED
      BY <1>4, <1>7, <2>1, <2>4, <3>1 DEF KeepsFollowing
  <2> QED
    BY <1>4, <1>8, <1>9, <2>1, <2>2, <2>5, StepShows DEF IsShown
<1>13. CASE Return(t) /\ configuration' = configuration
  <2>1. Proceeds(t, more) /\ thread'[t] = Idle
    BY <1>1, <1>7, <1>11, <1>13, ReturnProceeds
  <2>2. KeepsShown(t, more)
    BY <1>1, <1>4, <1>6, <1>7, <1>13, <2>1 DEF KeepsShown, IsShown
  <2>3. ASSUME NEW i \in DOMAIN thread[t].todo
        PROVE  /\ thread[t].todo[i].op # "param"
               /\ thread[t].todo[i].op = "persist" => \E b \in Before(thread[t].todo, i) : b.op = "configuration"
    <3>1. i = 1 \/ e \in Before(thread[t].todo, i)
      BY <1>1, <1>10, FirstAndRest
    <3>2. thread[t].todo[i].op = "param" => Before(thread[t].todo, i) = {}
      BY DEF IInv, PromiseInv, PromiseFits
    <3> QED
      BY <1>1, <1>10, <3>1, <3>2
  <2>4. /\ \A user, item : ~PersistPending(thread[t].todo, user, item)
        /\ \A c, item : ~ParamPending(thread[t].todo, c, item)
    BY <2>3 DEF PersistPending, ParamPending
  <2>5. \A u \in Threads : u # t => thread'[u] = thread[u]
    BY <2>1 DEF Proceeds
  <2>6. ASSUME NEW user \in Users, NEW item \in Items
        PROVE  /\ Agrees(user, item) =>
                     \/ configuration'[user][item] = (Entry(foreground[user])[item])'
                     \/ \E u \in Threads : PersistPending(thread'[u].todo, user, item)
               /\ isInitializationFinished \/ Saved(user, item) =>
                     \/ isInitializationFinished'
                     \/ param'[foreground[user]][item] = (Entry(foreground[user])[item])'
                     \/ \E u \in Threads : ParamPending(thread'[u].todo, foreground[user], item)
    <3>1. (Entry(foreground[user])[item])' = Entry(foreground[user])[item]
      BY <1>4 DEF Entry
    <3> QED
      BY <1>4, <1>13, <2>4, <2>5, <3>1 DEF Agrees, Saved
  <2>7. \A user \in Users : KeepsFollowing(t, more, user)
    <3>1. ~Forced(Effect(t))
      BY <1>1 DEF Forced
    <3> QED
      BY <1>1, <1>4, <1>7, <2>6, <3>1 DEF KeepsFollowing
  <2> QED
    BY <1>4, <1>8, <1>9, <2>1, <2>2, <2>7, StepShows DEF IsShown
<1>14. \/ /\ Continue(t, << >>)
          /\ configuration' = [user \in Users |->
                IF user \in e.users THEN [configuration[user] EXCEPT ![e.item] = e.value] ELSE configuration[user]]
       \/ /\ Continue(t, << >>) /\ configuration' = configuration
          /\ \A user \in e.users : configuration[user][e.item] = e.value
       \/ Return(t) /\ configuration' = configuration
  BY <1>1 DEF UpdateConfiguration
<1> QED
  BY <1>2, <1>5, <1>12, <1>13, <1>14

\* What goes to memory was sent to the user, and goes to the parameter next.
LEMMA ConfigurePersistenceShows ==
    ASSUME IInv, SInv, NEW t \in Threads, ConfigurePersistence(t)
    PROVE  SInv'
<1>1. PICK e \in Effects : e = Effect(t) /\ e.op = "persist" /\ Busy(t)
  BY HeadFits DEF ConfigurePersistence, Doing, Effect
<1>2. PICK values \in PartialParams : values = e.values
  BY <1>1, EffectFields
<1>3. DOMAIN values \subseteq Items /\ DOMAIN values \subseteq thread[t].items
  BY <1>1, <1>2, HeadFits, PartialFields DEF ItemsOf
<1>4. PICK context : context = IF "user" \in DOMAIN e THEN foreground[e.user] ELSE e.context
  OBVIOUS
<1>5. \A user \in Users : foreground[user] \in Contexts /\ foreground[user].userId = user
  BY DEF IInv, TypeInv, TypeOK
<1>6. context \in Contexts /\ About(e) = context.userId
  <2>1. IF "user" \in DOMAIN e THEN e.user \in Users ELSE e.context \in Contexts
    BY <1>1, EffectFields
  <2> QED
    BY <1>4, <1>5, <2>1 DEF About
<1>7. PICK entry : entry = Updated(Entry(context), values, DOMAIN values)
  OBVIOUS
<1>8. \A item \in Items : entry[item] = IF item \in DOMAIN values THEN values[item] ELSE Entry(context)[item]
  BY <1>7, UpdatedFields
<1>9. EntrySet(context, entry)
  BY <1>1, <1>2, <1>4, <1>7 DEF ConfigurePersistence
<1>10. \A c : Entry(c)' = IF c = context THEN entry ELSE Entry(c)
  BY <1>9, EntryAfter
<1>11. UNCHANGED << environment, configuration, persistent, flags, events, shown >>
  BY DEF ConfigurePersistence
<1>12. UNCHANGED << environment, configuration, param, foreground, isInitializationFinished, onceFlag, phase,
                    events, shown >>
  BY <1>11 DEF flags, persistent, environment
<1>13. PICK f \in Effects, g \in Effects :
          /\ f = [op |-> "param", context |-> context, values |-> values, must |-> e.must]
          /\ g = [op |-> "promise", context |-> context, values |-> values]
          /\ f.op = "param" /\ f.context = context /\ f.values = values /\ g.op = "promise"
  <2>1. e.must \in BOOLEAN
    BY <1>1, EffectFields
  <2>2. [op |-> "param", context |-> context, values |-> values, must |-> e.must]
           \in [op : {"param"}, context : Contexts, values : PartialParams, must : BOOLEAN]
    BY <1>6, <2>1
  <2>3. [op |-> "promise", context |-> context, values |-> values]
           \in [op : {"promise"}, context : Contexts, values : PartialParams]
    BY <1>6
  <2>4. /\ [op |-> "param", context |-> context, values |-> values, must |-> e.must] \in Effects
        /\ [op |-> "promise", context |-> context, values |-> values] \in Effects
    BY <2>2, <2>3 DEF Effects
  <2> QED
    BY <2>4
<1>14. PICK more \in Seq(Effects) : /\ more = << f, g >> /\ DOMAIN more = {1, 2} /\ more[1] = f /\ more[2] = g
                                    /\ Before(more, 1) = {} /\ Before(more, 2) = {f}
  <2>1. f \in Effects /\ g \in Effects
    BY <1>13
  <2>2. /\ << f, g >> \in Seq(Effects) /\ DOMAIN << f, g >> = {1, 2}
        /\ << f, g >>[1] = f /\ << f, g >>[2] = g
        /\ Before(<< f, g >>, 1) = {} /\ Before(<< f, g >>, 2) = {f}
    BY <2>1, TwoEffects
  <2> QED
    BY <2>2, Zenon
<1>15. Continue(t, more)
  BY <1>1, <1>2, <1>4, <1>13, <1>14 DEF ConfigurePersistence
<1>16. /\ Proceeds(t, more) /\ thread'[t].inDoubt = thread[t].inDoubt
       /\ thread'[t].todo = more \o Tail(thread[t].todo)
  BY <1>1, <1>14, <1>15, ContinueProceeds, ContinueTodo, ContinueDoubt DEF IInv
<1>17. \A j \in DOMAIN more : more[j].op \in {"param", "promise"}
  BY <1>13, <1>14
<1>18. KeepsShape(t, more)
  <2>1. \A i \in DOMAIN more : ShapeFits(more[i], Before(more, i))'
    BY <1>17 DEF ShapeFits, Setting
  <2>2. Effect(t).op = "persist"
    BY <1>1
  <2> QED
    BY <1>12, <1>17, <2>1, <2>2 DEF KeepsShape, Setting, Preparing
<1>19. KeepsShown(t, more)
  <2>1. \A item \in DOMAIN values : values[item] = Entry(context)'[item]
    BY <1>3, <1>8, <1>10
  <2>2. ShownFits(f, {}, thread[t].inDoubt)'
    BY <1>13, <2>1 DEF ShownFits, Showing
  <2>3. ShownFits(g, {f}, thread[t].inDoubt)'
    BY <1>13 DEF ShownFits, Showing
  <2>4. \A i \in DOMAIN more : ShownFits(more[i], Before(more, i), thread[t].inDoubt)'
    BY <1>14, <2>2, <2>3 DEF ShownFits
  <2>5. \A item \in Items \ thread[t].items : \A c \in Contexts : (Entry(c)[item])' = Entry(c)[item]
    BY <1>3, <1>8, <1>10
  <2>6. Effect(t).op = "persist"
    BY <1>1
  <2> QED
    BY <1>12, <2>4, <2>5, <2>6 DEF KeepsShown, IsShown
<1>20. \A c \in onceFlag' : shown'[c.userId] # Nobody
  BY <1>12 DEF SInv, SoleInv
<1>21. ShownFits(e, {}, thread[t].inDoubt)
  BY <1>1, HeadShows
<1>22. ASSUME NEW user \in Users, IsShown(user), ~Awaited(user), NEW item \in Items
       PROVE  /\ Agrees(user, item) =>
                    \/ configuration'[user][item] = (Entry(foreground[user])[item])'
                    \/ \E u \in Threads : PersistPending(thread'[u].todo, user, item)
              /\ isInitializationFinished \/ Saved(user, item) =>
                    \/ isInitializationFinished'
                    \/ param'[foreground[user]][item] = (Entry(foreground[user])[item])'
                    \/ \E u \in Threads : ParamPending(thread'[u].todo, foreground[user], item)
  <2>1. PICK c \in Contexts : c = foreground[user] /\ c.userId = user
    BY <1>5
  <2>2. (Entry(foreground[user])[item])' = Entry(c)'[item]
    BY <1>12, <2>1 DEF Entry
  <2>3. About(e) = user => context = c
    <3>1. SUFFICES ASSUME About(e) = user, "user" \notin DOMAIN e PROVE context = c
      BY <1>1, <1>4, <2>1 DEF About
    <3>2. Current(e.context)
      BY <1>1, <1>21, <1>22, <3>1 DEF ShownFits
    <3> QED
      BY <1>4, <1>6, <1>22, <2>1, <3>1, <3>2 DEF Current
  <2>4. CASE context = c /\ item \in DOMAIN values
    <3>1. Entry(c)'[item] = values[item]
      BY <1>8, <1>10, <2>4
    <3>2. Sent(e, {}, item)
      BY <1>1, <1>2, <1>6, <1>21, <1>22, <2>1, <2>4 DEF ShownFits
    <3>3. configuration[user][item] = values[item]
      BY <1>2, <1>6, <2>1, <2>4, <3>2 DEF Sent
    <3>4. ParamPending(thread'[t].todo, c, item)
      <4>1. 1 \in DOMAIN thread'[t].todo /\ thread'[t].todo[1] = f
        <5>1. thread[t].todo \in Seq(Effects) /\ thread[t].todo # << >>
          BY <1>1, EffectType DEF IInv, Busy
        <5> QED
          BY <1>14, <1>16, <5>1, NewIsThere
      <4> QED
        BY <1>13, <2>4, <4>1 DEF ParamPending
    <3> QED
      BY <1>12, <2>1, <2>2, <3>1, <3>3, <3>4
  <2>5. CASE ~(context = c /\ item \in DOMAIN values)
    <3>1. Entry(c)'[item] = Entry(c)[item]
      BY <1>8, <1>10, <2>5
    <3>2. ~(About(e) = user /\ item \in DOMAIN e.values)
      BY <1>2, <2>3, <2>5
    <3>3. \A j \in DOMAIN more : more[j].op # "configuration"
      BY <1>17
    <3>4. /\ (\E u \in Threads : PersistPending(thread[u].todo, user, item)) =>
                \E u \in Threads : PersistPending(thread'[u].todo, user, item)
          /\ (\E u \in Threads : ParamPending(thread[u].todo, c, item)) =>
                \E u \in Threads : ParamPending(thread'[u].todo, c, item)
      BY <1>1, <1>16, <3>2, <3>3, PendingKept DEF IInv
    <3> QED
      BY <1>12, <2>1, <2>2, <3>1, <3>4 DEF Agrees, Saved
  <2> QED
    BY <2>4, <2>5
<1>23. \A user \in Users : IsShown(user)' => IsShown(user) /\ KeepsFollowing(t, more, user)
  <2>1. ~Forced(Effect(t))
    BY <1>1 DEF Forced
  <2>2. \A j \in DOMAIN more : more[j].op # "configuration"
    BY <1>17
  <2> QED
    BY <1>12, <1>16, <1>22, <2>1, <2>2 DEF KeepsFollowing, IsShown
<1> QED
  BY <1>16, <1>18, <1>19, <1>20, <1>23, StepShows

\* A parameter that is written is what memory has.
LEMMA SetContextParamShows ==
    ASSUME IInv, SInv, NEW t \in Threads, SetContextParam(t)
    PROVE  SInv'
<1>1. PICK e \in Effects : e = Effect(t) /\ e.op = "param" /\ Busy(t)
  BY HeadFits DEF SetContextParam, Doing, Effect
<1>2. PICK c \in Contexts : c = e.context
  BY <1>1, EffectFields
<1>3. DOMAIN e.values \subseteq Items
  BY <1>1, EffectFields, PartialFields
<1>4. UNCHANGED << environment, configuration, usersParam, flags, events >>
  BY DEF SetContextParam
<1>5. UNCHANGED << environment, configuration, foreground, usersParam, isInitializationFinished, onceFlag, phase,
                   events >>
  BY <1>4 DEF flags, environment
<1>6. \A d : Entry(d)' = Entry(d)
  BY <1>5 DEF Entry
<1>7. PICK more \in Seq(Effects) : more = << >> /\ DOMAIN more = {}
  BY NoEffects
<1>8. param \in [ParamContexts -> [Items -> Values \cup {Unset}]] /\ Contexts \subseteq ParamContexts
  BY DEF IInv, TypeInv, TypeOK, ParamContexts
<1>9. thread[t] \in Handlers /\ thread \in [Threads -> Handlers]
      /\ thread[t].todo \in Seq(Effects) /\ thread[t].todo # << >>
  BY <1>1, EffectType DEF IInv, TypeInv, Busy
<1>10. ShownFits(e, {}, thread[t].inDoubt)
  BY <1>1, HeadShows
<1>11. KeepsShape(t, more)
  BY <1>1, <1>5, <1>7 DEF KeepsShape
<1>12. \/ /\ param' = [param EXCEPT ![c] = Updated(param[c], e.values, DOMAIN e.values)]
          /\ Continue(t, << >>) /\ shown' = shown
       \/ shown' = InDoubt /\ Return(t)
       \/ /\ thread' = [thread EXCEPT ![t] =
                [todo |-> Tail(thread[t].todo), items |-> thread[t].items, inDoubt |-> TRUE]]
          /\ shown' = IF isInitializationFinished THEN shown ELSE InDoubt
  BY <1>1, <1>2 DEF SetContextParam, history
<1>13. ASSUME shown' \in {shown, InDoubt}
       PROVE  /\ \A d \in onceFlag' : shown'[d.userId] # Nobody
              /\ \A user \in Users : IsShown(user)' => IsShown(user) /\ shown'[user] = shown[user]
  <2>1. \A d \in onceFlag : d.userId \in Users /\ shown[d.userId] # Nobody
    BY NotShown DEF IInv, TypeInv, TypeOK, SInv, SoleInv
  <2>2. \A user \in Users : InDoubt[user] = Doubtful
    BY DEF InDoubt
  <2> QED
    BY <1>5, <1>13, <2>1, <2>2, NotShown DEF IsShown
<1>14. CASE /\ param' = [param EXCEPT ![c] = Updated(param[c], e.values, DOMAIN e.values)]
            /\ Continue(t, << >>) /\ shown' = shown
  <2>1. /\ Proceeds(t, more) /\ thread'[t].todo = more \o Tail(thread[t].todo)
        /\ thread'[t].inDoubt = thread[t].inDoubt \/ thread'[t] = Idle
    BY <1>1, <1>7, <1>14, ContinueProceeds, ContinueTodo DEF IInv
  <2>2. \A d \in Contexts, item \in Items : param'[d][item] =
           IF d = c /\ item \in DOMAIN e.values THEN e.values[item] ELSE param[d][item]
    <3>1. \A d \in Contexts : param'[d] = IF d = c THEN Updated(param[c], e.values, DOMAIN e.values) ELSE param[d]
      BY <1>8, <1>14
    <3> QED
      BY <3>1, UpdatedFields
  <2>3. KeepsShown(t, more)
    BY <1>1, <1>2, <1>5, <1>6, <1>7, <1>13, <1>14, <2>2 DEF KeepsShown
  <2>4. ASSUME NEW user \in Users, IsShown(user), NEW item \in Items
        PROVE  /\ Agrees(user, item) =>
                     \/ configuration'[user][item] = (Entry(foreground[user])[item])'
                     \/ \E u \in Threads : PersistPending(thread'[u].todo, user, item)
               /\ isInitializationFinished \/ Saved(user, item) =>
                     \/ isInitializationFinished'
                     \/ param'[foreground[user]][item] = (Entry(foreground[user])[item])'
                     \/ \E u \in Threads : ParamPending(thread'[u].todo, foreground[user], item)
    <3>1. PICK d \in Contexts : d = foreground[user]
      BY DEF IInv, TypeInv, TypeOK
    <3>2. (Entry(foreground[user])[item])' = Entry(d)[item]
      BY <1>5, <3>1 DEF Entry
    <3>3. \A i \in DOMAIN e.values : e.values[i] = Entry(c)[i]
      BY <1>1, <1>2, <1>10, <2>4 DEF ShownFits, NoneShown
    <3>4. param[d][item] = Entry(d)[item] => param'[d][item] = Entry(d)[item]
      BY <2>2, <3>3
    <3>5. /\ (\E u \in Threads : PersistPending(thread[u].todo, user, item)) =>
                \E u \in Threads : PersistPending(thread'[u].todo, user, item)
          /\ (\E u \in Threads : ParamPending(thread[u].todo, d, item)) =>
                \/ \E u \in Threads : ParamPending(thread'[u].todo, d, item)
                \/ d = c /\ item \in DOMAIN e.values
      BY <1>1, <1>2, <1>7, <2>1, PendingKept DEF IInv
    <3> QED
      BY <1>5, <2>2, <3>1, <3>2, <3>3, <3>4, <3>5 DEF Agrees, Saved
  <2>5. \A user \in Users : IsShown(user)' => IsShown(user) /\ KeepsFollowing(t, more, user)
    <3>1. ~Forced(Effect(t))
      BY <1>1 DEF Forced
    <3> QED
      BY <1>7, <1>13, <1>14, <2>1, <2>4, <3>1 DEF KeepsFollowing
  <2> QED
    BY <1>11, <1>13, <1>14, <2>1, <2>3, <2>5, StepShows
<1>15. CASE shown' = InDoubt /\ Return(t)
  <2>1. Proceeds(t, more) /\ thread'[t] = Idle
    BY <1>1, <1>7, <1>15, ReturnProceeds DEF IInv
  <2>2. \A user \in Users : ~IsShown(user)'
    BY <1>15, NotShown DEF IsShown, InDoubt
  <2>3. KeepsShown(t, more)
    BY <1>1, <1>5, <1>6, <1>7, <2>1, <2>2 DEF KeepsShown
  <2> QED
    BY <1>11, <1>13, <1>15, <2>1, <2>2, <2>3, StepShows
<1>16. CASE /\ thread' = [thread EXCEPT ![t] =
                  [todo |-> Tail(thread[t].todo), items |-> thread[t].items, inDoubt |-> TRUE]]
            /\ shown' = IF isInitializationFinished THEN shown ELSE InDoubt
  <2>1. /\ thread'[t].todo = more \o Tail(thread[t].todo) /\ thread'[t].items = thread[t].items
        /\ thread'[t].inDoubt /\ \A u \in Threads : u # t => thread'[u] = thread[u]
    <3>1. Tail(thread[t].todo) \in Seq(Effects)
      BY <1>9, FirstAndRest
    <3>2. more \o Tail(thread[t].todo) = Tail(thread[t].todo)
      BY <1>7, <3>1, ConcatEmptySeq
    <3> QED
      BY <1>9, <1>16, <3>2
  <2>2. Proceeds(t, more)
    <3>1. Tail(thread[t].todo) \in Seq(Effects) /\ thread[t].items \subseteq Items
      BY <1>9, FirstAndRest, HandlerFields
    <3>2. [todo |-> Tail(thread[t].todo), items |-> thread[t].items, inDoubt |-> TRUE] \in Handlers
      BY <3>1 DEF Handlers
    <3>3. thread' \in [Threads -> Handlers]
      BY <1>9, <1>16, <3>2
    <3> QED
      BY <1>1, <2>1, <3>3 DEF Proceeds
  <2>3. shown' \in {shown, InDoubt}
    BY <1>16
  <2>4. KeepsShown(t, more)
    BY <1>1, <1>5, <1>6, <1>7, <1>13, <2>1, <2>3 DEF KeepsShown
  <2>5. ASSUME NEW user \in Users, IsShown(user)' PROVE IsShown(user) /\ KeepsFollowing(t, more, user)
    <3>1. isInitializationFinished' /\ IsShown(user) /\ shown'[user] = shown[user]
      <4>1. \A w \in Users : InDoubt[w] \notin Contexts
        BY NotShown DEF InDoubt
      <4> QED
        BY <1>5, <1>13, <1>16, <2>3, <2>5, <4>1 DEF IsShown
    <3>2. ASSUME NEW item \in Items, Agrees(user, item)
          PROVE  \/ configuration'[user][item] = (Entry(foreground[user])[item])'
                 \/ \E u \in Threads : PersistPending(thread'[u].todo, user, item)
      <4>1. (Entry(foreground[user])[item])' = Entry(foreground[user])[item]
        BY <1>5 DEF Entry
      <4>2. (\E u \in Threads : PersistPending(thread[u].todo, user, item)) =>
               \E u \in Threads : PersistPending(thread'[u].todo, user, item)
        BY <1>1, <1>7, <2>1, <2>2, PendingKept DEF IInv
      <4> QED
        BY <1>5, <3>2, <4>1, <4>2 DEF Agrees
    <3>3. ~Forced(Effect(t))
      BY <1>1 DEF Forced
    <3> QED
      BY <1>7, <2>1, <3>1, <3>2, <3>3 DEF KeepsFollowing
  <2> QED
    BY <1>7, <1>11, <1>13, <2>2, <2>3, <2>4, <2>5, StepShows
<1> QED
  BY <1>12, <1>14, <1>15, <1>16

-----------------------------------------------------------------------------
(* What users see: the start of a handler.                                 *)

LEMMA BeginDoubts ==
    ASSUME TypeInv, NEW t \in Threads, NEW items \in SUBSET Items, NEW todo \in Seq(Effects),
           Begin(t, items, todo)
    PROVE  \/ /\ shown' = shown
              /\ \A u \in Threads \ {t} : Busy(u) => thread[u].items \cap items = {}
           \/ shown' = InDoubt /\ NoneShown'
<1> DEFINE others == {u \in Threads \ {t} : Busy(u) /\ thread[u].items \cap items # {}}
<1>1. shown' = IF others = {} THEN shown ELSE InDoubt
  BY DEF Begin
<1>2. CASE others = {}
  BY <1>1, <1>2
<1>3. CASE others # {}
  <2>1. shown' = InDoubt
    BY <1>1, <1>3
  <2>2. \A user \in Users : shown'[user] = Doubtful
    BY <2>1 DEF InDoubt
  <2> QED
    BY <2>1, <2>2, NotShown DEF NoneShown, IsShown
<1> QED
  BY <1>2, <1>3

\* A handler that is under way is not disturbed if what is shown and current stays.
LEMMA UnderWayShown ==
    ASSUME NEW e \in Effects, NEW before, NEW inDoubt \in BOOLEAN, NEW inDoubt1 \in BOOLEAN,
           ShownFits(e, before, inDoubt), inDoubt => inDoubt1,
           UNCHANGED << usersParam, param, isInitializationFinished >>,
           \A user \in Users : IsShown(user)' => IsShown(user),
           configuration' = configuration \/ NoneShown',
           \/ \A c \in Contexts : Current(c) => Current(c)'
           \/ NoneShown' /\ (inDoubt1 \/ e.op \notin Showing)
    PROVE  ShownFits(e, before, inDoubt1)'
<1>1. /\ e.op \in Showing => Account(e) \in Contexts
      /\ e.op = "persist" => About(e) \in Users /\ ("user" \in DOMAIN e \/ e.context \in Contexts)
  BY EffectFields, NotShown DEF Showing, Account, About
<1>2. \A c : Entry(c)' = Entry(c)
  BY DEF Entry
<1>3. NoneShown => NoneShown'
  BY DEF NoneShown
<1>4. e.op \in Showing /\ ~inDoubt1 => Current(Account(e))'
  <2> SUFFICES ASSUME e.op \in Showing, ~inDoubt1 PROVE Current(Account(e))'
    OBVIOUS
  <2>1. PICK c \in Contexts : c = Account(e)
    BY <1>1
  <2>2. Current(c)'
    BY <2>1 DEF ShownFits
  <2> QED
    BY <2>1, <2>2 DEF Account
<1>5. e.op = "send" /\ ~inDoubt1 => e.entry = Entry(e.context)'
  BY <1>2 DEF ShownFits
<1>6. e.op \in {"update", "send"} /\ ~inDoubt1 =>
         isInitializationFinished' \/ \A item \in Items : SavedAfter(e.context, item, before)'
  BY <1>2 DEF ShownFits, SavedAfter
<1>7. e.op \in {"initialize", "initContext"} /\ isInitializationFinished' => NoneShown'
  BY <1>3 DEF ShownFits
<1>8. ASSUME e.op = "persist", IsShown(About(e))'
      PROVE  /\ "user" \in DOMAIN e \/ Current(e.context)'
             /\ \A item \in DOMAIN e.values : Sent(e, before, item)'
  <2>1. About(e) \in Users /\ IsShown(About(e)) /\ ~NoneShown'
    BY <1>1, <1>8 DEF NoneShown, IsShown
  <2>2. /\ "user" \in DOMAIN e \/ Current(e.context)
        /\ \A item \in DOMAIN e.values : Sent(e, before, item)
    BY <1>8, <2>1 DEF ShownFits
  <2>3. "user" \in DOMAIN e \/ Current(e.context)'
    BY <1>1, <1>8, <2>1, <2>2
  <2> QED
    BY <2>1, <2>2, <2>3 DEF Sent
<1>9. e.op = "param" /\ (~inDoubt1 \/ ~NoneShown') =>
         \A item \in DOMAIN e.values : e.values[item] = (Entry(e.context)[item])'
  BY <1>2, <1>3 DEF ShownFits
<1> QED
  BY <1>4, <1>5, <1>6, <1>7, <1>8, <1>9 DEF ShownFits

LEMMA BeginShows ==
    ASSUME IInv, SInv, NEW t \in Threads, NEW items \in SUBSET Items, items # {}, NEW todo \in Seq(Effects),
           Begin(t, items, todo),
           UNCHANGED << usersParam, param, configuration, isInitializationFinished, onceFlag, foreground >>,
           phase # "published" => phase' # "published",
           events' = events \/ items = Items,
           \A i \in DOMAIN todo :
              /\ ShapeFits(todo[i], Before(todo, i))'
              /\ todo[i].op = "configuration" =>
                    \A user \in todo[i].users : Persists(todo, user, todo[i].item)
              /\ ShownFits(todo[i], Before(todo, i), thread[t].inDoubt)',
           EventsInv',
           \A user \in Users : Awaited(user) => Awaited(user)' \/ ForcedFor(todo, user)
    PROVE  SInv'
<1>0. TypeInv /\ ShapeInv /\ ShownInv /\ SoleInv /\ FollowInv
  BY DEF IInv, SInv
<1>1. /\ ~Busy(t) /\ thread' \in [Threads -> Handlers]
      /\ thread'[t].todo = todo /\ thread'[t].items = items
      /\ \A u \in Threads \ {t} :
            /\ thread'[u].todo = thread[u].todo /\ thread'[u].items = thread[u].items
            /\ thread[u].inDoubt => thread'[u].inDoubt
            /\ Busy(u) /\ thread[u].items \cap items # {} => thread'[u].inDoubt /\ thread'[t].inDoubt
      /\ shown' = shown \/ shown' = InDoubt
  BY <1>0, BeginThreads
<1>2. \/ /\ shown' = shown
         /\ \A u \in Threads \ {t} : Busy(u) => thread[u].items \cap items = {}
      \/ shown' = InDoubt /\ NoneShown'
  BY <1>0, BeginDoubts
<1>3. \A user \in Users : IsShown(user)' => IsShown(user)
  BY <1>2 DEF NoneShown, IsShown
<1>4. \A u \in Threads \ {t} : Busy(u) =>
         /\ thread[u].items # {} /\ thread[u].items \subseteq Items
  <2> SUFFICES ASSUME NEW u \in Threads \ {t}, Busy(u)
               PROVE  thread[u].items # {} /\ thread[u].items \subseteq Items
    OBVIOUS
  <2>1. thread[u] \in Handlers
    BY <1>0 DEF TypeInv
  <2> QED
    BY <1>0, <2>1 DEF SoleInv, Handlers
<1>5. ShapeInv'
  <2> SUFFICES ASSUME NEW u \in Threads, NEW i \in DOMAIN thread'[u].todo
               PROVE  /\ ShapeFits(thread[u].todo[i], Before(thread[u].todo, i))'
                      /\ thread'[u].todo[i].op = "configuration" =>
                            \A user \in thread'[u].todo[i].users :
                               Persists(thread'[u].todo, user, thread'[u].todo[i].item)
    BY DEF ShapeInv, Persists, About
  <2>1. PICK e : e = thread'[u].todo[i]
    OBVIOUS
  <2>2. PICK before : before = Before(thread'[u].todo, i)
    OBVIOUS
  <2>3. CASE u = t
    <3>1. ShapeFits(e, before)'
      BY <1>1, <2>1, <2>2, <2>3 DEF ShapeFits
    <3> QED
      BY <1>1, <2>1, <2>2, <2>3, <3>1 DEF ShapeFits, Before
  <2>4. CASE u # t
    <3>1. ShapeFits(e, before)
      BY <1>0, <1>1, <2>1, <2>2, <2>4 DEF ShapeInv
    <3>2. ShapeFits(e, before)'
      BY <3>1 DEF ShapeFits
    <3>3. e.op = "configuration" => \A user \in e.users : Persists(thread'[u].todo, user, e.item)
      BY <1>0, <1>1, <2>1, <2>4 DEF ShapeInv
    <3> QED
      BY <2>1, <2>2, <3>2, <3>3 DEF ShapeFits, Before
  <2> QED
    BY <2>3, <2>4
<1>6. ShownInv'
  <2> SUFFICES ASSUME NEW u \in Threads, NEW i \in DOMAIN thread'[u].todo
               PROVE  ShownFits(thread[u].todo[i], Before(thread[u].todo, i), thread[u].inDoubt)'
    BY DEF ShownInv
  <2>1. PICK e : e = thread'[u].todo[i]
    OBVIOUS
  <2>2. PICK before : before = Before(thread'[u].todo, i)
    OBVIOUS
  <2>3. PICK inDoubt1 \in BOOLEAN : inDoubt1 = thread'[u].inDoubt
    BY <1>1 DEF Handlers
  <2>4. CASE u = t
    <3>1. ShownFits(e, before, inDoubt1)'
      <4>1. ShownFits(todo[i], Before(todo, i), thread[t].inDoubt)' /\ e = todo[i] /\ before = Before(todo, i)
        BY <1>1, <2>1, <2>2, <2>4
      <4> QED
        BY <2>3, <2>4, <4>1 DEF ShownFits
    <3> QED
      BY <2>1, <2>2, <2>3, <2>4, <3>1 DEF ShownFits, Before
  <2>5. CASE u # t
    <3>1. i \in DOMAIN thread[u].todo /\ e = thread[u].todo[i] /\ before = Before(thread[u].todo, i)
      BY <1>1, <2>1, <2>2, <2>5
    <3>2. PICK inDoubt \in BOOLEAN : inDoubt = thread[u].inDoubt
      BY <1>0, <3>1, TodoType
    <3>3. Busy(u) /\ e \in Effects
      BY <1>0, <3>1, TodoType
    <3>4. ShownFits(e, before, inDoubt) /\ (inDoubt => inDoubt1)
      BY <1>0, <1>1, <2>3, <2>5, <3>1, <3>2 DEF ShownInv
    <3>5. events' = events \/ (inDoubt1 /\ NoneShown')
      <4> SUFFICES ASSUME items = Items PROVE inDoubt1 /\ NoneShown'
        OBVIOUS
      <4>1. thread[u].items \cap items # {}
        BY <1>4, <2>5, <3>3
      <4> QED
        BY <1>1, <1>2, <2>3, <2>5, <3>3, <4>1
    <3>6. ShownFits(e, before, inDoubt1)'
      <4>1. events' = events => \A c \in Contexts : Current(c) => Current(c)'
        BY DEF Current, Awaited
      <4> QED
        BY <1>3, <3>3, <3>4, <3>5, <4>1, UnderWayShown
    <3> QED
      BY <2>1, <2>2, <2>3, <3>6 DEF ShownFits, Before
  <2> QED
    BY <2>4, <2>5
<1>7. SoleInv'
  <2>1. \A u \in Threads : Busy(u)' => thread'[u].items # {}
    BY <1>1, <1>4 DEF Busy
  <2>2. ASSUME ~NoneShown'
        PROVE  /\ phase' # "published"
               /\ \A u, v \in Threads :
                     u # v /\ Busy(u)' /\ Busy(v)' => thread'[u].items \cap thread'[v].items = {}
    <3>1. ~NoneShown
      BY <1>3, <2>2 DEF NoneShown
    <3>2. /\ phase # "published"
          /\ \A u, v \in Threads : u # v /\ Busy(u) /\ Busy(v) => thread[u].items \cap thread[v].items = {}
      BY <1>0, <3>1 DEF SoleInv
    <3>3. \A u \in Threads \ {t} : /\ Busy(u)' = Busy(u)
                                   /\ Busy(u) => thread[u].items \cap items = {}
      BY <1>1, <1>2, <2>2 DEF Busy
    <3> QED
      BY <1>1, <3>2, <3>3
  <2>3. \A c \in onceFlag' : shown'[c.userId] # Nobody
    <3>1. \A c \in onceFlag : c.userId \in Users /\ shown[c.userId] # Nobody
      BY <1>0, NotShown DEF TypeInv, TypeOK, SoleInv
    <3> QED
      BY <1>1, <3>1, NotShown DEF InDoubt
  <2> QED
    BY <2>1, <2>2, <2>3 DEF SoleInv
<1>8. ASSUME NEW user \in Users, IsShown(user)' PROVE Follows(user)'
  <2>1. shown' = shown /\ IsShown(user) /\ Follows(user)
    BY <1>0, <1>2, <1>3, <1>8 DEF NoneShown, FollowInv
  <2>2. \A u \in Threads : DOMAIN thread[u].todo # {} => thread'[u].todo = thread[u].todo
    <3>1. DOMAIN thread[t].todo = {}
      BY <1>1, NoEffects DEF Busy
    <3> QED
      BY <1>1, <3>1
  <2>3. CASE Awaited(user)
    <3>1. Awaited(user)' \/ ForcedFor(todo, user)
      BY <2>3
    <3>2. ForcedFor(todo, user) => UnderWay(user)'
      BY <1>1 DEF UnderWay
    <3> QED
      BY <3>1, <3>2 DEF Follows
  <2>4. CASE UnderWay(user)
    <3>1. PICK u \in Threads : ForcedFor(thread[u].todo, user)
      BY <2>4 DEF UnderWay
    <3>2. thread'[u].todo = thread[u].todo
      BY <2>2, <3>1 DEF ForcedFor
    <3> QED
      BY <3>1, <3>2 DEF UnderWay, Follows
  <2>5. CASE ~Awaited(user) /\ ~UnderWay(user)
    <3>1. /\ shown[user] = foreground[user]
          /\ \A item \in Items : Agrees(user, item) /\ (isInitializationFinished \/ Saved(user, item))
      BY <2>1, <2>5 DEF Follows
    <3>2. \A c : Entry(c)' = Entry(c)
      BY DEF Entry
    <3>3. ASSUME NEW item \in Items
          PROVE  Agrees(user, item)' /\ (isInitializationFinished' \/ Saved(user, item)')
      <4>1. \A u \in Threads : PersistPending(thread[u].todo, user, item) => thread'[u].todo = thread[u].todo
        BY <2>2 DEF PersistPending
      <4>2. \A u \in Threads : ParamPending(thread[u].todo, foreground[user], item) =>
               thread'[u].todo = thread[u].todo
        BY <2>2 DEF ParamPending
      <4>3. (Entry(foreground[user])[item])' = Entry(foreground[user])[item]
        BY DEF Entry
      <4>4. Agrees(user, item)'
        BY <3>1, <4>1, <4>3 DEF Agrees
      <4>5. isInitializationFinished' \/ Saved(user, item)'
        BY <3>1, <4>2, <4>3 DEF Saved
      <4> QED
        BY <4>4, <4>5
    <3> QED
      BY <2>1, <3>1, <3>3 DEF Follows
  <2> QED
    BY <2>3, <2>4, <2>5
<1>9. FollowInv'
  BY <1>8 DEF FollowInv
<1> QED
  BY <1>5, <1>6, <1>7, <1>9 DEF SInv

-----------------------------------------------------------------------------
(* What users see: a set request.                                          *)

\* The effects that follow when a value is set for users, and the list of all.
Persisting(list, c, b, rest, item, context, value) ==
    /\ list = << c, b >> \o rest
    /\ c.op = "configuration" /\ c.item = item /\ c.value = value /\ c.users \in {active, {context.userId}}
    /\ b.op = "base" /\ DOMAIN b.values = {item} /\ b.values[item] = value
    /\ \A i \in DOMAIN rest :
          /\ rest[i].op = "persist" /\ DOMAIN rest[i].values = {item} /\ rest[i].values[item] = value
          /\ About(rest[i]) \in c.users
          /\ "user" \in DOMAIN rest[i] \/ rest[i].context = context
    /\ \A user \in c.users : \E i \in DOMAIN rest : About(rest[i]) = user
SetsValue(c, list, item, context, value) ==
    /\ c.op = "configuration" /\ c.item = item /\ c.value = value
    /\ \A i \in DOMAIN list :
          /\ i = 1 => list[i] = c /\ Before(list, i) = {}
          /\ i # 1 => list[i].op # "configuration" /\ c \in Before(list, i)
          /\ list[i].op \in {"configuration", "base", "persist"}
          /\ \A x \in Before(list, i) : x = c \/ x.op \in {"base", "persist"}
          /\ list[i].op = "persist" =>
                /\ DOMAIN list[i].values = {item} /\ list[i].values[item] = value
                /\ About(list[i]) \in c.users
                /\ "user" \in DOMAIN list[i] \/ list[i].context = context
    /\ \A user \in c.users :
          \E i \in DOMAIN list : /\ list[i].op = "persist" /\ About(list[i]) = user
                                 /\ DOMAIN list[i].values = {item}

\* The configuration of the users, the base parameters, and then the account of
\* each of the users.
LEMMA OnSetParts ==
    ASSUME TypeInv, NEW item \in Items, NEW context \in Contexts, NEW value \in Values, NEW must \in BOOLEAN
    PROVE  \E c, b \in Effects, rest \in Seq(Effects) :
              Persisting(OnSet(item, context, value, must), c, b, rest, item, context, value)
<1> DEFINE several == Cardinality(active) > 1
           values == [i \in {item} |-> value]
           users == IF several THEN active ELSE {context.userId}
           c == [op |-> "configuration", users |-> users, item |-> item, value |-> value]
           b == [op |-> "base", values |-> values]
           p == [op |-> "persist", context |-> context, values |-> values, must |-> must]
           f == [user \in active |-> [op |-> "persist", user |-> user, values |-> values, must |-> must]]
           Fits(e) == /\ e.op = "persist" /\ DOMAIN e.values = {item} /\ e.values[item] = value
                      /\ About(e) \in users
                      /\ "user" \in DOMAIN e \/ e.context = context
<1>1. values \in PartialParams /\ DOMAIN values = {item} /\ values[item] = value
  <2>1. {item} \in SUBSET Items /\ values \in [{item} -> Values]
    OBVIOUS
  <2> QED
    BY <2>1 DEF PartialParams
<1>2. active \subseteq Users /\ context.userId \in Users /\ IsFiniteSet(active)
  <2>1. active \subseteq Users
    BY DEF TypeInv, TypeOK
  <2> QED
    BY <2>1, FS_Subset, AppearanceServiceAssumption
<1>3. users \subseteq Users
  BY <1>2
<1> HIDE DEF values
<1>4. c \in Effects /\ c.op = "configuration" /\ c.item = item /\ c.value = value /\ c.users = users
  BY <1>3 DEF Effects
<1>5. b \in Effects /\ b.op = "base" /\ b.values = values
  BY <1>1 DEF Effects
<1>6. p \in Effects /\ p.op = "persist" /\ p.values = values /\ p.context = context /\ About(p) = context.userId
  BY <1>1 DEF Effects, About
<1>7. ASSUME NEW user \in active
      PROVE  /\ f[user] \in Effects /\ f[user].op = "persist" /\ f[user].values = values
             /\ About(f[user]) = user /\ "user" \in DOMAIN f[user]
  <2> DEFINE e == [op |-> "persist", user |-> user, values |-> values, must |-> must]
  <2>1. e \in Effects /\ e.op = "persist" /\ e.values = values /\ About(e) = user /\ "user" \in DOMAIN e
    BY <1>1, <1>2, <1>7 DEF Effects, About
  <2> QED
    BY <2>1
<1> DEFINE each == [i \in DOMAIN SetToSeq(active) |-> f[SetToSeq(active)[i]]]
<1>8. ForEach(active, LAMBDA user : [op |-> "persist", user |-> user, values |-> values, must |-> must]) = each
  <2>1. \A i \in DOMAIN SetToSeq(active) : SetToSeq(active)[i] \in active
    BY <1>2, SeqOfSet
  <2> QED
    BY <2>1 DEF ForEach
<1>9. f \in [active -> Effects]
  BY <1>7
<1>10. OnSet(item, context, value, must) = << c, b >> \o IF several THEN each ELSE << p >>
  BY <1>8 DEF OnSet, values
<1> HIDE DEF c, b, p, f
<1>11. PICK rest \in Seq(Effects) :
          /\ OnSet(item, context, value, must) = << c, b >> \o rest
          /\ \A i \in DOMAIN rest : Fits(rest[i])
          /\ \A user \in users : \E i \in DOMAIN rest : About(rest[i]) = user
  <2>1. CASE several
    <3>1. PICK list : list = each
      OBVIOUS
    <3>2. /\ list \in Seq(Effects)
          /\ \A i \in DOMAIN list : \E x \in active : list[i] = f[x]
          /\ \A x \in active : \E i \in DOMAIN list : list[i] = f[x]
      BY <1>2, <1>9, <3>1, ListOf
    <3>3. users = active
      BY <2>1
    <3>4. \A x \in active : Fits(f[x])
      BY <1>1, <1>7, <3>3
    <3>5. OnSet(item, context, value, must) = << c, b >> \o list
      BY <1>10, <2>1, <3>1
    <3> HIDE DEF several, users, each
    <3>6. \A i \in DOMAIN list : Fits(list[i])
      BY <3>2, <3>4
    <3>7. \A user \in users : \E i \in DOMAIN list : About(list[i]) = user
      BY <1>7, <3>2, <3>3
    <3> QED
      BY <3>2, <3>5, <3>6, <3>7
  <2>2. CASE ~several
    <3>1. PICK list : list = << p >>
      OBVIOUS
    <3>2. list \in Seq(Effects) /\ DOMAIN list = {1} /\ list[1] = p
      BY <1>6, <3>1, OneEffect
    <3>3. users = {context.userId}
      BY <2>2
    <3>4. Fits(p)
      BY <1>1, <1>6, <3>3
    <3>5. OnSet(item, context, value, must) = << c, b >> \o list
      BY <1>10, <2>2, <3>1
    <3> HIDE DEF several, users, each
    <3>6. \A i \in DOMAIN list : Fits(list[i])
      BY <3>2, <3>4
    <3>7. \A user \in users : \E i \in DOMAIN list : About(list[i]) = user
      BY <1>6, <3>2, <3>3
    <3> QED
      BY <3>2, <3>5, <3>6, <3>7
  <2> QED
    BY <2>1, <2>2
<1>12. Persisting(OnSet(item, context, value, must), c, b, rest, item, context, value)
  BY <1>1, <1>4, <1>5, <1>11 DEF Persisting
<1> QED
  BY <1>4, <1>5, <1>12

\* Two effects and a list of others.
LEMMA TwoAndMore ==
    ASSUME NEW c \in Effects, NEW b \in Effects, NEW rest \in Seq(Effects), NEW list, list = << c, b >> \o rest
    PROVE  /\ list \in Seq(Effects) /\ Len(rest) \in Nat /\ Len(list) = 2 + Len(rest)
           /\ DOMAIN list = 1 .. 2 + Len(rest) /\ DOMAIN rest = 1 .. Len(rest)
           /\ \A i \in DOMAIN list : \/ i = 1 /\ list[i] = c
                                     \/ i = 2 /\ list[i] = b
                                     \/ i > 2 /\ i - 2 \in DOMAIN rest /\ list[i] = rest[i - 2]
           /\ \A j \in DOMAIN rest : j + 2 \in DOMAIN list /\ list[j + 2] = rest[j]
<1>1. PICK two \in Seq(Effects) : two = << c, b >> /\ DOMAIN two = {1, 2} /\ two[1] = c /\ two[2] = b
                                  /\ Len(two) = 2
  <2>1. << c, b >> \in Seq(Effects) /\ Len(<< c, b >>) = 2
    OBVIOUS
  <2> QED
    BY <2>1, TwoEffects, Zenon
<1>2. /\ list \in Seq(Effects) /\ Len(list) = 2 + Len(rest) /\ Len(rest) \in Nat
      /\ \A i \in 1 .. 2 + Len(rest) : list[i] = IF i <= 2 THEN two[i] ELSE rest[i - 2]
  <2>1. list = two \o rest
    BY <1>1
  <2>2. /\ two \o rest \in Seq(Effects) /\ Len(two \o rest) = 2 + Len(rest) /\ Len(rest) \in Nat
        /\ \A i \in 1 .. 2 + Len(rest) : (two \o rest)[i] = IF i <= 2 THEN two[i] ELSE rest[i - 2]
    BY <1>1, ConcatProperties, LenProperties
  <2> QED
    BY <2>1, <2>2
<1>3. DOMAIN list = 1 .. 2 + Len(rest) /\ DOMAIN rest = 1 .. Len(rest)
  BY <1>2, LenProperties
<1>4. \A i \in DOMAIN list : \/ i = 1 /\ list[i] = c
                             \/ i = 2 /\ list[i] = b
                             \/ i > 2 /\ i - 2 \in DOMAIN rest /\ list[i] = rest[i - 2]
  <2> SUFFICES ASSUME NEW i \in DOMAIN list
               PROVE  \/ i = 1 /\ list[i] = c
                      \/ i = 2 /\ list[i] = b
                      \/ i > 2 /\ i - 2 \in DOMAIN rest /\ list[i] = rest[i - 2]
    OBVIOUS
  <2>1. i = 1 \/ i = 2 \/ (i > 2 /\ ~(i <= 2) /\ i - 2 \in 1 .. Len(rest))
    BY <1>2, <1>3
  <2>2. list[i] = IF i <= 2 THEN two[i] ELSE rest[i - 2]
    BY <1>2, <1>3
  <2>3. 1 <= 2 /\ 2 <= 2
    OBVIOUS
  <2> QED
    BY <1>1, <1>3, <2>1, <2>2, <2>3
<1>5. \A j \in DOMAIN rest : j + 2 \in DOMAIN list /\ list[j + 2] = rest[j]
  <2> SUFFICES ASSUME NEW j \in DOMAIN rest
               PROVE  j + 2 \in DOMAIN list /\ list[j + 2] = rest[j]
    OBVIOUS
  <2>1. j + 2 \in 1 .. 2 + Len(rest) /\ ~(j + 2 <= 2) /\ (j + 2) - 2 = j
    BY <1>2, <1>3
  <2> QED
    BY <1>2, <1>3, <2>1
<1> QED
  BY <1>2, <1>3, <1>4, <1>5

\* The configuration comes first, and every user gets its account.
LEMMA OnSetList ==
    ASSUME TypeInv, NEW item \in Items, NEW context \in Contexts, NEW value \in Values, NEW must \in BOOLEAN,
           NEW list, list = OnSet(item, context, value, must)
    PROVE  \E c \in Effects : SetsValue(c, list, item, context, value)
<1>0. PICK c, b \in Effects, rest \in Seq(Effects) :
         Persisting(OnSet(item, context, value, must), c, b, rest, item, context, value)
  BY OnSetParts, Zenon
<1>1. /\ OnSet(item, context, value, must) = << c, b >> \o rest
      /\ c.op = "configuration" /\ c.item = item /\ c.value = value /\ b.op = "base"
      /\ \A i \in DOMAIN rest :
            /\ rest[i].op = "persist" /\ DOMAIN rest[i].values = {item} /\ rest[i].values[item] = value
            /\ About(rest[i]) \in c.users
            /\ "user" \in DOMAIN rest[i] \/ rest[i].context = context
      /\ \A user \in c.users : \E i \in DOMAIN rest : About(rest[i]) = user
  BY <1>0 DEF Persisting
<1>2. /\ list \in Seq(Effects) /\ Len(rest) \in Nat /\ DOMAIN list = 1 .. 2 + Len(rest)
      /\ \A i \in DOMAIN list : \/ i = 1 /\ list[i] = c
                                \/ i = 2 /\ list[i] = b
                                \/ i > 2 /\ i - 2 \in DOMAIN rest /\ list[i] = rest[i - 2]
      /\ \A j \in DOMAIN rest : j + 2 \in DOMAIN list /\ list[j + 2] = rest[j]
  BY <1>1, TwoAndMore
<1>3. ASSUME NEW i \in DOMAIN list
      PROVE  /\ i = 1 => Before(list, i) = {}
             /\ i # 1 => c \in Before(list, i)
             /\ \A x \in Before(list, i) : x = c \/ x.op \in {"base", "persist"}
  <2>1. i = 1 => 1 .. i - 1 = {}
    BY <1>2
  <2>2. i # 1 => 1 \in 1 .. i - 1 /\ list[1] = c
    BY <1>2
  <2>3. \A j \in 1 .. i - 1 : j \in DOMAIN list
    BY <1>2
  <2> QED
    BY <1>1, <1>2, <2>1, <2>2, <2>3 DEF Before
<1>4. ASSUME NEW i \in DOMAIN list
      PROVE  /\ i = 1 => list[i] = c
             /\ i # 1 => list[i].op # "configuration"
             /\ list[i].op \in {"configuration", "base", "persist"}
             /\ list[i].op = "persist" =>
                   /\ DOMAIN list[i].values = {item} /\ list[i].values[item] = value
                   /\ About(list[i]) \in c.users
                   /\ "user" \in DOMAIN list[i] \/ list[i].context = context
  BY <1>1, <1>2
<1>5. \A user \in c.users : \E i \in DOMAIN list : /\ list[i].op = "persist" /\ About(list[i]) = user
                                                   /\ DOMAIN list[i].values = {item}
  <2> SUFFICES ASSUME NEW user \in c.users
               PROVE  \E i \in DOMAIN list : /\ list[i].op = "persist" /\ About(list[i]) = user
                                             /\ DOMAIN list[i].values = {item}
    OBVIOUS
  <2>1. PICK j \in DOMAIN rest : About(rest[j]) = user
    BY <1>1
  <2> QED
    <3>1. j + 2 \in DOMAIN list /\ list[j + 2] = rest[j]
      BY <1>2
    <3>2. rest[j].op = "persist" /\ DOMAIN rest[j].values = {item}
      BY <1>1
    <3> QED
      BY <2>1, <3>1, <3>2
<1>6. c.op = "configuration" /\ c.item = item /\ c.value = value
  BY <1>1
<1>7. SetsValue(c, list, item, context, value)
  BY <1>3, <1>4, <1>5, <1>6 DEF SetsValue
<1> QED
  BY <1>7

LEMMA RequestShows ==
    ASSUME IInv, SInv, Request
    PROVE  SInv'
<1>1. UNCHANGED << active, foreground, configuration, persistent, usersParam, flags, events, faults, accepted >>
  BY DEF Request
<1>2. UNCHANGED << foreground, param, phase, onceFlag, isInitializationFinished >>
  BY <1>1 DEF environment, persistent, flags
<1>3. PICK user0 \in Users, t \in Threads, item \in Items, value \in Values, must \in BOOLEAN :
         Begin(t, {item}, OnSet(item, foreground[user0], value, must))
  BY RequestBegins DEF IInv
<1>4. foreground[user0] \in Contexts /\ foreground[user0].userId = user0
  BY DEF IInv, TypeInv, TypeOK
<1>5. PICK todo : todo = OnSet(item, foreground[user0], value, must)
  OBVIOUS
<1>6. todo \in Seq(Effects) /\ Begin(t, {item}, todo) /\ {item} \in SUBSET Items /\ {item} # {}
  BY <1>3, <1>4, <1>5, OnSetEffects DEF IInv
<1>7. PICK c \in Effects : SetsValue(c, todo, item, foreground[user0], value)
  <2>1. TypeInv /\ foreground[user0] \in Contexts
    BY <1>4 DEF IInv
  <2> QED
    BY <1>5, <2>1, OnSetList, Zenon
<1>8. ASSUME NEW i \in DOMAIN todo
      PROVE  /\ ShapeFits(todo[i], Before(todo, i))'
             /\ todo[i].op = "configuration" =>
                   \A user \in todo[i].users : Persists(todo, user, todo[i].item)
             /\ ShownFits(todo[i], Before(todo, i), thread[t].inDoubt)'
  <2>1. PICK e : e = todo[i]
    OBVIOUS
  <2>2. PICK before : before = Before(todo, i)
    OBVIOUS
  <2>3. e.op \in {"configuration", "base", "persist"} /\ \A x \in before : x = c \/ x.op \in {"base", "persist"}
    BY <1>7, <2>1, <2>2 DEF SetsValue
  <2>4. ShapeFits(e, before)'
    BY <1>7, <2>1, <2>2, <2>3 DEF SetsValue, ShapeFits, Setting
  <2>5. e.op = "configuration" => \A user \in e.users : Persists(todo, user, e.item)
    BY <1>7, <2>1 DEF SetsValue, Persists
  <2>6. ASSUME e.op = "persist"
        PROVE  /\ "user" \in DOMAIN e \/ Current(e.context)'
               /\ \A item1 \in DOMAIN e.values : Sent(e, before, item1)'
    <3>1. "user" \in DOMAIN e \/ e.context = foreground[user0]
      BY <1>7, <2>1, <2>6 DEF SetsValue
    <3>2. \A c1 : c1 = foreground[user0] => Current(c1)'
      BY <1>2, <1>4 DEF Current
    <3>3. /\ c.op = "configuration" /\ c \in before /\ \A x \in before : x.op = "configuration" => x = c
          /\ DOMAIN e.values = {item} /\ e.values[item] = value /\ About(e) \in c.users
      BY <1>7, <2>1, <2>2, <2>3, <2>6 DEF SetsValue
    <3>4. ASSUME NEW item1 \in DOMAIN e.values PROVE Sent(e, before, item1)'
      <4>1. item1 = item
        BY <3>3
      <4>2. \A x \in before : x.op = "configuration" =>
               About(e) \in x.users /\ x.item = item1 /\ x.value = e.values[item1]
        BY <1>7, <3>3, <4>1 DEF SetsValue
      <4> QED
        BY <3>3, <4>2 DEF SetsValue, Sent
    <3> QED
      <4>1. "user" \in DOMAIN e \/ Current(e.context)'
        BY <3>1, <3>2
      <4> QED
        BY <3>4, <4>1
  <2>7. \A inDoubt : ShownFits(e, before, inDoubt)'
    BY <2>3, <2>6 DEF ShownFits, Showing
  <2> QED
    BY <2>1, <2>2, <2>4, <2>5, <2>7 DEF ShapeFits, ShownFits
<1>9. EventsInv'
  BY <1>1, <1>2 DEF SInv, EventsInv
<1>10. \A user \in Users : Awaited(user) => Awaited(user)'
  BY <1>1 DEF Awaited
<1> QED
  BY <1>1, <1>2, <1>6, <1>8, <1>9, <1>10, BeginShows

-----------------------------------------------------------------------------
(* What users see: what the system tells the service.                      *)

LEMMA OnAddSystemAbilityShows ==
    ASSUME IInv, SInv, OnAddSystemAbility
    PROVE  SInv'
<1> DEFINE e == [op |-> "upgradeIfNeeded"]
           f == [op |-> "initializeIfNeeded"]
<1>1. e \in Effects /\ f \in Effects /\ e.op = "upgradeIfNeeded" /\ f.op = "initializeIfNeeded"
  BY DEF Effects
<1>2. Begin("sa", Items, << e, f >>)
  BY DEF OnAddSystemAbility
<1> HIDE DEF e, f
<1>3. /\ << e, f >> \in Seq(Effects) /\ DOMAIN << e, f >> = {1, 2}
      /\ << e, f >>[1] = e /\ << e, f >>[2] = f
  BY <1>1, TwoEffects
<1>4. PICK todo \in Seq(Effects) : todo = << e, f >> /\ DOMAIN todo = {1, 2} /\ todo[1] = e /\ todo[2] = f
  BY <1>3, Zenon
<1>5. /\ phase' = "serving"
      /\ UNCHANGED << environment, configuration, persistent, usersParam, isInitializationFinished, onceFlag, events >>
  BY DEF OnAddSystemAbility
<1>6. UNCHANGED << param, foreground >>
  BY <1>5 DEF persistent, environment
<1>7. PICK t \in Threads : t = "sa"
  BY DEF Threads
<1>8. Begin(t, Items, todo) /\ Items \in SUBSET Items /\ Items # {}
  BY <1>2, <1>4, <1>7 DEF Items
<1>9. ASSUME NEW i \in DOMAIN todo
      PROVE  /\ ShapeFits(todo[i], Before(todo, i))'
             /\ todo[i].op # "configuration"
             /\ ShownFits(todo[i], Before(todo, i), thread[t].inDoubt)'
  <2>1. PICK x : x = todo[i] /\ x.op \in {"upgradeIfNeeded", "initializeIfNeeded"}
    BY <1>1, <1>4
  <2>2. \A before : ShapeFits(x, before)'
    BY <1>5, <2>1 DEF ShapeFits
  <2>3. \A before, inDoubt : ShownFits(x, before, inDoubt)'
    BY <2>1 DEF ShownFits, Showing
  <2> QED
    BY <2>1, <2>2, <2>3 DEF ShapeFits, ShownFits
<1>10. EventsInv'
  BY <1>5, <1>6 DEF SInv, EventsInv
<1>11. \A user \in Users : Awaited(user) => Awaited(user)'
  BY <1>5 DEF Awaited
<1>12. phase # "published" => phase' # "published"
  BY <1>5
<1> QED
  BY <1>5, <1>6, <1>8, <1>9, <1>10, <1>11, <1>12, BeginShows

\* Effects of a switch to an account.
SwitchesTo(e, before, c) ==
    /\ e.op \in {"compatible", "initialize", "loaded", "spread", "apply"}
    /\ \A b \in before : b.op \in {"compatible", "initialize", "loaded"}
    /\ e.op = "initialize" => ~isInitializationFinished /\ \A b \in before : b.op = "compatible"
    /\ e.op \in {"loaded", "apply"} => Account(e) = c
    /\ e.op = "loaded" => isInitializationFinished \/ \E b \in before : b.op = "initialize"

LEMMA SwitchList ==
    ASSUME NEW c \in Contexts, NEW list, list = AccountContextSwitchFunc(c)
    PROVE  /\ list \in Seq(Effects)
           /\ \A i \in DOMAIN list : /\ SwitchesTo(list[i], Before(list, i), c)
                                     /\ list[i].op \in {"compatible", "initialize", "loaded"}
           /\ \E i \in DOMAIN list : list[i].op = "loaded"
<1> DEFINE a == [op |-> "compatible"]
           b == [op |-> "initialize"]
           l == [op |-> "loaded", context |-> c]
<1>1. /\ a \in Effects /\ b \in Effects /\ l \in Effects
      /\ a.op = "compatible" /\ b.op = "initialize" /\ l.op = "loaded" /\ Account(l) = c
  BY DEF Effects, Account
<1>2. list = (IF isNeedDoCompatibleProcess THEN << a >> ELSE << >>)
             \o (IF isInitializationFinished THEN << >> ELSE << b >>) \o << l >>
  BY DEF AccountContextSwitchFunc
<1> HIDE DEF a, b, l
<1>3. /\ SwitchesTo(a, {}, c)
      /\ ~isInitializationFinished => SwitchesTo(b, {}, c) /\ SwitchesTo(b, {a}, c)
      /\ ~isInitializationFinished => SwitchesTo(l, {b}, c) /\ SwitchesTo(l, {a, b}, c)
      /\ isInitializationFinished => SwitchesTo(l, {}, c) /\ SwitchesTo(l, {a}, c)
  BY <1>1 DEF SwitchesTo
<1>4. CASE isNeedDoCompatibleProcess /\ isInitializationFinished
  <2>1. list = (<< a >> \o << >>) \o << l >>
    BY <1>2, <1>4, Zenon
  <2>2. (<< a >> \o << >>) \o << l >> = << a, l >>
    BY <1>1, OneEffect, ConcatEmptySeq, TwoParts
  <2>3. /\ << a, l >> \in Seq(Effects) /\ DOMAIN << a, l >> = {1, 2}
        /\ << a, l >>[1] = a /\ << a, l >>[2] = l
        /\ Before(<< a, l >>, 1) = {} /\ Before(<< a, l >>, 2) = {a}
    BY <1>1, TwoEffects
  <2>4. /\ list \in Seq(Effects) /\ DOMAIN list = {1, 2} /\ list[1] = a /\ list[2] = l
        /\ Before(list, 1) = {} /\ Before(list, 2) = {a}
    BY <2>1, <2>2, <2>3, Zenon
  <2> QED
    BY <1>1, <1>3, <1>4, <2>4
<1>5. CASE isNeedDoCompatibleProcess /\ ~isInitializationFinished
  <2>1. list = (<< a >> \o << b >>) \o << l >>
    BY <1>2, <1>5, Zenon
  <2>2. (<< a >> \o << b >>) \o << l >> = << a, b, l >>
    BY <1>1, TwoParts, ThreeParts, ZenonT(30)
  <2>3. /\ << a, b, l >> \in Seq(Effects) /\ DOMAIN << a, b, l >> = {1, 2, 3}
        /\ << a, b, l >>[1] = a /\ << a, b, l >>[2] = b /\ << a, b, l >>[3] = l
        /\ Before(<< a, b, l >>, 1) = {} /\ Before(<< a, b, l >>, 2) = {a} /\ Before(<< a, b, l >>, 3) = {a, b}
    BY <1>1, ThreeEffects
  <2>4. /\ list \in Seq(Effects) /\ DOMAIN list = {1, 2, 3} /\ list[1] = a /\ list[2] = b /\ list[3] = l
        /\ Before(list, 1) = {} /\ Before(list, 2) = {a} /\ Before(list, 3) = {a, b}
    BY <2>1, <2>2, <2>3, Zenon
  <2> QED
    <3>1. SwitchesTo(list[1], Before(list, 1), c) /\ list[1].op \in {"compatible", "initialize", "loaded"}
      BY <1>1, <1>3, <2>4
    <3>2. SwitchesTo(list[2], Before(list, 2), c) /\ list[2].op \in {"compatible", "initialize", "loaded"}
      BY <1>1, <1>3, <1>5, <2>4
    <3>3. SwitchesTo(list[3], Before(list, 3), c) /\ list[3].op = "loaded"
      BY <1>1, <1>3, <1>5, <2>4
    <3> QED
      BY <2>4, <3>1, <3>2, <3>3
<1>6. CASE ~isNeedDoCompatibleProcess /\ isInitializationFinished
  <2>1. list = << l >>
    BY <1>2, <1>6
  <2>2. << l >> \in Seq(Effects) /\ DOMAIN << l >> = {1} /\ << l >>[1] = l /\ Before(<< l >>, 1) = {}
    BY <1>1, OneEffect
  <2>3. list \in Seq(Effects) /\ DOMAIN list = {1} /\ list[1] = l /\ Before(list, 1) = {}
    BY <2>1, <2>2, Zenon
  <2> QED
    BY <1>1, <1>3, <1>6, <2>3
<1>7. CASE ~isNeedDoCompatibleProcess /\ ~isInitializationFinished
  <2>1. list = (<< >> \o << b >>) \o << l >>
    BY <1>2, <1>7, Zenon
  <2>2. (<< >> \o << b >>) \o << l >> = << b, l >>
    BY <1>1, OneEffect, ConcatEmptySeq, TwoParts
  <2>3. /\ << b, l >> \in Seq(Effects) /\ DOMAIN << b, l >> = {1, 2}
        /\ << b, l >>[1] = b /\ << b, l >>[2] = l
        /\ Before(<< b, l >>, 1) = {} /\ Before(<< b, l >>, 2) = {b}
    BY <1>1, TwoEffects
  <2>4. /\ list \in Seq(Effects) /\ DOMAIN list = {1, 2} /\ list[1] = b /\ list[2] = l
        /\ Before(list, 1) = {} /\ Before(list, 2) = {b}
    BY <2>1, <2>2, <2>3, Zenon
  <2> QED
    BY <1>1, <1>3, <1>7, <2>4
<1> QED
  BY <1>4, <1>5, <1>6, <1>7

\* The account that an event is about: a sub-profile, or the one of a user that is in front.
EventTarget(event) ==
    IF event.action = "USER_SWITCHED" THEN foreground[event.context.userId] ELSE event.context

LEMMA OnReceiveEventList ==
    ASSUME TypeInv, NEW event \in [action : {"USER_SWITCHED", "SUB_PROFILE_SWITCHED"}, context : Contexts],
           NEW todo, todo = IF event.action = "USER_SWITCHED"
                            THEN AccountContextSwitchFunc(foreground[event.context.userId])
                            ELSE HandleSubProfileSwitched(event.context)
    PROVE  /\ todo \in Seq(Effects)
           /\ \A i \in DOMAIN todo : SwitchesTo(todo[i], Before(todo, i), EventTarget(event))
           /\ \E i \in DOMAIN todo : todo[i].op \in {"loaded", "apply"}
<1>1. /\ event.context \in Contexts /\ event.context.userId \in Users /\ foreground \in [Users -> Contexts]
      /\ USER100 \in Users
  BY AppearanceServiceAssumption DEF TypeInv
<1>2. PICK c \in Contexts : c = EventTarget(event)
  BY <1>1 DEF EventTarget
<1>3. CASE event.action = "USER_SWITCHED"
  <2>1. todo = AccountContextSwitchFunc(c)
    BY <1>2, <1>3 DEF EventTarget
  <2> QED
    BY <1>2, <2>1, SwitchList
<1>4. CASE event.action # "USER_SWITCHED" /\ event.context.userId = USER100
  <2>1. PICK list : list = AccountContextSwitchFunc(c)
    OBVIOUS
  <2>2. PICK s \in Effects : s = [op |-> "spread", context |-> c] /\ s.op = "spread"
    <3> DEFINE s == [op |-> "spread", context |-> c]
    <3>1. s \in Effects /\ s.op = "spread"
      BY DEF Effects
    <3> QED
      BY <3>1, Zenon
  <2>3. todo = list \o << s >>
    BY <1>2, <1>4, <2>1, <2>2 DEF HandleSubProfileSwitched, EventTarget
  <2>4. /\ list \in Seq(Effects)
        /\ \A i \in DOMAIN list : /\ SwitchesTo(list[i], Before(list, i), c)
                                  /\ list[i].op \in {"compatible", "initialize", "loaded"}
        /\ \E i \in DOMAIN list : list[i].op = "loaded"
    BY <2>1, SwitchList
  <2>5. PICK all : all = list \o << s >>
    OBVIOUS
  <2>6. /\ all \in Seq(Effects)
        /\ \A i \in DOMAIN all : (i \in DOMAIN list /\ all[i] = list[i]) \/ all[i] = s
        /\ \A j \in DOMAIN list : j \in DOMAIN all /\ all[j] = list[j] /\ Before(all, j) = Before(list, j)
    <3>0. list \in Seq(Effects) /\ s \in Effects
      BY <2>4
    <3>1. /\ all \in Seq(Effects)
          /\ \A i \in DOMAIN all : (i \in DOMAIN list /\ all[i] = list[i]) \/ all[i] = s
          /\ \A j \in DOMAIN list : j \in DOMAIN all /\ all[j] = list[j]
      <4>1. list \o << s >> \in Seq(Effects)
        BY <3>0, ListAndOne
      <4>2. \A i \in DOMAIN (list \o << s >>) :
               (i \in DOMAIN list /\ (list \o << s >>)[i] = list[i]) \/ (list \o << s >>)[i] = s
        BY <3>0, ListAndOne
      <4>3. \A j \in DOMAIN list : j \in DOMAIN (list \o << s >>) /\ (list \o << s >>)[j] = list[j]
        BY <3>0, ListAndOne
      <4> QED
        BY <2>5, <4>1, <4>2, <4>3, Zenon
    <3>2. \A j \in DOMAIN list : Before(all, j) = Before(list, j)
      BY <2>4, <2>5, BeforeLast
    <3> QED
      BY <3>1, <3>2
  <2>7. ASSUME NEW i \in DOMAIN all, all[i] = s, i \notin DOMAIN list PROVE SwitchesTo(s, Before(all, i), c)
    <3>1. \A j \in 1 .. i - 1 : j \in DOMAIN list
      <4>1. Len(all) = Len(list) + 1 /\ Len(list) \in Nat
        BY <2>4, <2>5, OneEffect, ConcatProperties
      <4>2. DOMAIN list = 1 .. Len(list) /\ DOMAIN all = 1 .. Len(all)
        BY <2>4, <2>6, LenProperties
      <4> QED
        BY <4>1, <4>2
    <3>2. \A x \in Before(all, i) : x.op \in {"compatible", "initialize", "loaded"}
      BY <2>4, <2>6, <3>1, ZenonT(30) DEF Before
    <3> QED
      BY <2>2, <3>2 DEF SwitchesTo
  <2>8. \A i \in DOMAIN all : SwitchesTo(all[i], Before(all, i), c)
    BY <2>4, <2>6, <2>7
  <2>9. \E i \in DOMAIN all : all[i].op \in {"loaded", "apply"}
    BY <2>4, <2>6
  <2> QED
    BY <1>2, <2>3, <2>5, <2>6, <2>8, <2>9
<1>5. CASE event.action # "USER_SWITCHED" /\ event.context.userId # USER100
  <2>1. PICK s \in Effects : s = [op |-> "apply", source |-> foreground[USER100], target |-> c]
                             /\ s.op = "apply" /\ Account(s) = c
    <3> DEFINE s == [op |-> "apply", source |-> foreground[USER100], target |-> c]
    <3>1. foreground[USER100] \in Contexts
      BY <1>1
    <3>2. s \in Effects /\ s.op = "apply" /\ Account(s) = c
      BY <3>1 DEF Effects, Account
    <3> QED
      BY <3>2, Zenon
  <2>2. todo = << s >>
    BY <1>2, <1>5, <2>1 DEF HandleSubProfileSwitched, EventTarget
  <2>3. << s >> \in Seq(Effects) /\ DOMAIN << s >> = {1} /\ << s >>[1] = s /\ Before(<< s >>, 1) = {}
    BY OneEffect
  <2>4. todo \in Seq(Effects) /\ DOMAIN todo = {1} /\ todo[1] = s /\ Before(todo, 1) = {}
    BY <2>2, <2>3, Zenon
  <2>5. SwitchesTo(s, {}, c)
    BY <2>1 DEF SwitchesTo
  <2> QED
    BY <1>2, <2>1, <2>4, <2>5
<1> QED
  BY <1>3, <1>4, <1>5

LEMMA OnReceiveEventShows ==
    ASSUME IInv, SInv, OnReceiveEvent
    PROVE  SInv'
<1>1. PICK event : event = Head(events)
  OBVIOUS
<1>2. /\ events # << >> /\ events' = Tail(events)
      /\ Begin("event", Items,
               IF event.action = "USER_SWITCHED"
               THEN AccountContextSwitchFunc(foreground[event.context.userId])
               ELSE HandleSubProfileSwitched(event.context))
      /\ behind' = FALSE
      /\ UNCHANGED << active, foreground, configuration, persistent, usersParam, flags, faults, changes, accepted >>
  BY <1>1 DEF OnReceiveEvent
<1>3. /\ event \in [action : {"USER_SWITCHED", "SUB_PROFILE_SWITCHED"}, context : Contexts]
      /\ phase # "published"
  BY <1>1, <1>2, HeadTailProperties DEF IInv, TypeInv
<1>4. UNCHANGED << foreground, param, phase, onceFlag, isInitializationFinished >>
  BY <1>2 DEF environment, persistent, flags
<1>5. PICK todo : todo = IF event.action = "USER_SWITCHED"
                         THEN AccountContextSwitchFunc(foreground[event.context.userId])
                         ELSE HandleSubProfileSwitched(event.context)
  OBVIOUS
<1>6. PICK target : target = EventTarget(event)
  OBVIOUS
<1>7. /\ todo \in Seq(Effects)
      /\ \A i \in DOMAIN todo : SwitchesTo(todo[i], Before(todo, i), target)
      /\ \E i \in DOMAIN todo : todo[i].op \in {"loaded", "apply"}
  BY <1>3, <1>5, <1>6, OnReceiveEventList DEF IInv
<1>8. PICK t \in Threads : t = "event"
  BY DEF Threads
<1>9. Begin(t, Items, todo) /\ Items \in SUBSET Items /\ Items # {}
  BY <1>2, <1>5, <1>8 DEF Items
<1>10. PICK n \in Nat : /\ DOMAIN events = 1 .. n /\ n >= 1 /\ DOMAIN events' = 1 .. n - 1
                        /\ events[1] = event /\ \A i \in 1 .. n - 1 : events'[i] = events[i + 1]
  <2>1. events \in Seq([action : {"USER_SWITCHED", "SUB_PROFILE_SWITCHED"}, context : Contexts])
    BY DEF IInv, TypeInv
  <2>2. /\ Len(events) \in Nat /\ Len(events) >= 1 /\ DOMAIN events = 1 .. Len(events)
        /\ DOMAIN Tail(events) = 1 .. Len(events) - 1 /\ events[1] = event
        /\ \A i \in 1 .. Len(Tail(events)) : Tail(events)[i] = events[i + 1]
        /\ Len(Tail(events)) = Len(events) - 1
    BY <1>1, <1>2, <2>1, HeadTailProperties, LenProperties, EmptySeq
  <2>3. DOMAIN Tail(events) = DOMAIN events' /\ DOMAIN events' = 1 .. Len(events) - 1
    BY <1>2, <2>2
  <2>4. \A i \in 1 .. Len(events) - 1 : events'[i] = events[i + 1]
    BY <1>2, <2>2
  <2> QED
    BY <2>2, <2>3, <2>4
<1>11. \A i \in 2 .. n : i - 1 \in DOMAIN events' /\ events'[i - 1] = events[i]
  <2> SUFFICES ASSUME NEW i \in 2 .. n PROVE i - 1 \in DOMAIN events' /\ events'[i - 1] = events[i]
    OBVIOUS
  <2>1. i - 1 \in 1 .. n - 1 /\ (i - 1) + 1 = i
    OBVIOUS
  <2> QED
    BY <1>10, <2>1
<1>12. EventsInv'
  <2> SUFFICES ASSUME NEW i \in DOMAIN events', events'[i].action = "SUB_PROFILE_SWITCHED",
                      NEW c, c = events'[i].context
               PROVE  /\ IsSubProfileContext(c)
                      /\ \/ c = foreground[c.userId]
                         \/ \E j \in DOMAIN events' :
                               /\ j > i /\ events'[j].action = "SUB_PROFILE_SWITCHED"
                               /\ events'[j].context.userId = c.userId
    BY <1>4 DEF EventsInv
  <2>1. i + 1 \in DOMAIN events /\ events[i + 1] = events'[i] /\ i \in Nat
    BY <1>10
  <2>2. /\ IsSubProfileContext(c)
        /\ \/ c = foreground[c.userId]
           \/ \E j \in DOMAIN events : /\ j > i + 1 /\ events[j].action = "SUB_PROFILE_SWITCHED"
                                       /\ events[j].context.userId = c.userId
    BY <2>1 DEF SInv, EventsInv
  <2>3. ASSUME NEW j \in DOMAIN events, j > i + 1 PROVE j \in 2 .. n /\ j - 1 > i
    BY <1>10, <2>1, <2>3
  <2> QED
    BY <1>11, <2>2, <2>3
<1>13. /\ event.context \in Contexts /\ target \in Contexts
       /\ \A user \in Users : foreground[user].userId = user
       /\ event.context.userId \in Users
  BY <1>3, <1>6, NotShown DEF IInv, TypeInv, TypeOK, EventTarget
<1>14. Current(target)'
  <2>1. CASE event.action = "USER_SWITCHED"
    <3>1. target = foreground[target.userId]
      BY <1>6, <1>13, <2>1 DEF EventTarget
    <3> QED
      BY <1>4, <3>1 DEF Current
  <2>2. CASE event.action = "SUB_PROFILE_SWITCHED"
    <3>1. target = event.context
      BY <1>6, <2>2 DEF EventTarget
    <3>2. \/ target = foreground[target.userId]
          \/ \E j \in DOMAIN events : /\ j > 1 /\ events[j].action = "SUB_PROFILE_SWITCHED"
                                      /\ events[j].context.userId = target.userId
      <4>1. 1 \in DOMAIN events
        BY <1>10
      <4> QED
        BY <1>10, <2>2, <3>1, <4>1 DEF SInv, EventsInv
    <3>3. \A j \in DOMAIN events : j > 1 => j \in 2 .. n
      BY <1>10
    <3> QED
      BY <1>4, <1>11, <3>2, <3>3 DEF Current, Awaited
  <2> QED
    BY <1>3, <2>1, <2>2
<1>15. ASSUME NEW i \in DOMAIN todo
       PROVE  /\ ShapeFits(todo[i], Before(todo, i))'
              /\ todo[i].op # "configuration"
              /\ ShownFits(todo[i], Before(todo, i), thread[t].inDoubt)'
  <2>1. PICK e : e = todo[i]
    OBVIOUS
  <2>2. PICK before : before = Before(todo, i)
    OBVIOUS
  <2>3. SwitchesTo(e, before, target)
    BY <1>7, <2>1, <2>2
  <2>4. ShapeFits(e, before)'
    BY <1>3, <1>4, <2>3 DEF SwitchesTo, ShapeFits, Preparing
  <2>5. e.op \in {"loaded", "apply"} => Current(Account(e))'
    BY <1>14, <2>3 DEF SwitchesTo, Account
  <2>6. \A inDoubt : ShownFits(e, before, inDoubt)'
    BY <1>4, <2>3, <2>5 DEF SwitchesTo, ShownFits, Showing
  <2>7. e.op # "configuration"
    BY <2>3 DEF SwitchesTo
  <2> QED
    BY <2>1, <2>2, <2>4, <2>6, <2>7 DEF ShapeFits, ShownFits
<1>16. ASSUME NEW user \in Users, Awaited(user) PROVE Awaited(user)' \/ ForcedFor(todo, user)
  <2>1. PICK i \in DOMAIN events :
           events[i].action = "SUB_PROFILE_SWITCHED" /\ events[i].context.userId = user
    BY <1>16 DEF Awaited
  <2>2. CASE i = 1
    <3>1. event.action = "SUB_PROFILE_SWITCHED" /\ target = event.context /\ target.userId = user
      BY <1>6, <1>10, <2>1, <2>2 DEF EventTarget
    <3>2. IsSubProfileContext(target)
      BY <1>10, <2>1, <2>2, <3>1 DEF SInv, EventsInv
    <3>3. PICK k \in DOMAIN todo : todo[k].op \in {"loaded", "apply"}
      BY <1>7
    <3>4. PICK e : e = todo[k]
      OBVIOUS
    <3>5. Account(e) = target /\ e.op \in {"loaded", "apply"}
      BY <1>7, <3>3, <3>4 DEF SwitchesTo
    <3>6. Forced(e)
      BY <3>2, <3>5 DEF Forced, Account
    <3> QED
      BY <3>1, <3>4, <3>5, <3>6 DEF ForcedFor
  <2>3. CASE i # 1
    <3>1. i \in 2 .. n
      BY <1>10, <2>3
    <3> QED
      BY <1>11, <2>1, <3>1 DEF Awaited
  <2> QED
    BY <2>2, <2>3
<1> QED
  BY <1>2, <1>4, <1>7, <1>9, <1>12, <1>15, <1>16, BeginShows

-----------------------------------------------------------------------------
(* What users see: switches, and what is lost.                             *)

LEMMA EnvironmentShows ==
    ASSUME IInv, SInv, UNCHANGED << usersParam, param, isInitializationFinished, thread >>,
           (shown' = shown /\ configuration' = configuration) \/ NoneShown',
           phase # "published" => phase' # "published",
           phase = "published" \/ \A c \in Contexts : Current(c) => Current(c)',
           \A c \in onceFlag' : shown'[c.userId] # Nobody,
           EventsInv',
           \A user \in Users : IsShown(user)' =>
              \/ Awaited(user)'
              \/ foreground'[user] = foreground[user] /\ ~Awaited(user)
    PROVE  SInv'
<1>0. TypeInv /\ ShapeInv /\ ShownInv /\ SoleInv /\ FollowInv
  BY DEF IInv, SInv
<1>1. \A user \in Users : IsShown(user)' => IsShown(user) /\ shown' = shown /\ configuration' = configuration
  BY DEF NoneShown, IsShown
<1>2. phase = "published" => NoneShown'
  BY <1>0, <1>1 DEF SoleInv, NoneShown
<1>3. ShapeInv'
  <2> SUFFICES ASSUME NEW t \in Threads, NEW i \in DOMAIN thread'[t].todo
               PROVE  /\ ShapeFits(thread[t].todo[i], Before(thread[t].todo, i))'
                      /\ thread'[t].todo[i].op = "configuration" =>
                            \A user \in thread'[t].todo[i].users :
                               Persists(thread'[t].todo, user, thread'[t].todo[i].item)
    BY DEF ShapeInv, Persists, About
  <2>1. PICK e : e = thread[t].todo[i]
    OBVIOUS
  <2>2. PICK before : before = Before(thread[t].todo, i)
    OBVIOUS
  <2>3. ShapeFits(e, before)'
    BY <1>0, <2>1, <2>2 DEF ShapeInv, ShapeFits
  <2>4. e.op = "configuration" => \A user \in e.users : Persists(thread[t].todo, user, e.item)
    BY <1>0, <2>1 DEF ShapeInv
  <2>5. thread'[t].todo[i] = e /\ Before(thread[t].todo, i)' = before /\ thread'[t].todo = thread[t].todo
    BY <2>1, <2>2 DEF Before
  <2> QED
    BY <2>3, <2>4, <2>5 DEF ShapeFits
<1>4. ShownInv'
  <2> SUFFICES ASSUME NEW t \in Threads, NEW i \in DOMAIN thread[t].todo
               PROVE  ShownFits(thread[t].todo[i], Before(thread[t].todo, i), thread[t].inDoubt)'
    BY DEF ShownInv
  <2>1. PICK e \in Effects : e = thread[t].todo[i]
    BY <1>0, TodoType
  <2>2. PICK before : before = Before(thread[t].todo, i)
    OBVIOUS
  <2>3. PICK inDoubt \in BOOLEAN : inDoubt = thread[t].inDoubt
    BY <1>0, TodoType
  <2>4. ShownFits(e, before, inDoubt)
    BY <1>0, <2>1, <2>2, <2>3 DEF ShownInv
  <2>5. phase = "published" => e.op \notin Showing
    BY <1>0, <2>1 DEF ShapeInv, ShapeFits, Setting, Showing
  <2>6. ShownFits(e, before, inDoubt)'
    BY <1>1, <1>2, <2>4, <2>5, UnderWayShown
  <2> QED
    BY <2>1, <2>2, <2>3, <2>6 DEF ShownFits, Before
<1>5. SoleInv'
  <2>1. \A t \in Threads : Busy(t)' = Busy(t) /\ thread'[t].items = thread[t].items
    BY DEF Busy
  <2>2. ~NoneShown' => ~NoneShown
    BY <1>1 DEF NoneShown
  <2> QED
    BY <1>0, <2>1, <2>2 DEF SoleInv
<1>6. ASSUME NEW user \in Users, IsShown(user)' PROVE Follows(user)'
  <2>1. CASE Awaited(user)'
    BY <2>1 DEF Follows
  <2>2. CASE foreground'[user] = foreground[user] /\ ~Awaited(user)
    <3>1. Follows(user) /\ shown' = shown /\ configuration' = configuration
      BY <1>0, <1>1, <1>6 DEF FollowInv
    <3>2. UnderWay(user)' = UnderWay(user)
      BY DEF UnderWay
    <3>3. (Entry(foreground[user]))' = Entry(foreground[user])
      BY <2>2 DEF Entry
    <3>4. \A item \in Items : Agrees(user, item) => Agrees(user, item)'
      BY <2>2, <3>1, <3>3 DEF Agrees
    <3>5. \A item \in Items : Saved(user, item) => Saved(user, item)'
      BY <2>2, <3>3 DEF Saved
    <3> QED
      BY <2>2, <3>1, <3>2, <3>4, <3>5 DEF Follows
  <2> QED
    BY <1>6, <2>1, <2>2
<1>7. FollowInv'
  BY <1>6 DEF FollowInv
<1> QED
  BY <1>3, <1>4, <1>5, <1>7 DEF SInv

\* An event at the end: the others stay where they are.
LEMMA Appended ==
    ASSUME NEW E, NEW s \in Seq(E), NEW event \in E
    PROVE  /\ \A i \in DOMAIN s : i \in DOMAIN Append(s, event) /\ Append(s, event)[i] = s[i]
           /\ \A i \in DOMAIN Append(s, event) :
                 \/ i \in DOMAIN s
                 \/ Append(s, event)[i] = event /\ \A j \in DOMAIN s : j < i
           /\ \E i \in DOMAIN Append(s, event) : Append(s, event)[i] = event /\ \A j \in DOMAIN s : j < i
<1>1. /\ Len(s) \in Nat /\ DOMAIN s = 1 .. Len(s)
      /\ Append(s, event) \in Seq(E) /\ Len(Append(s, event)) = Len(s) + 1
      /\ \A i \in 1 .. Len(s) : Append(s, event)[i] = s[i]
      /\ Append(s, event)[Len(s) + 1] = event
  BY AppendProperties, LenProperties
<1>2. DOMAIN Append(s, event) = 1 .. Len(s) + 1
  BY <1>1, LenProperties
<1>3. \A i \in 1 .. Len(s) : i < Len(s) + 1 /\ i \in 1 .. Len(s) + 1
  BY <1>1
<1>4. \A i \in 1 .. Len(s) + 1 : i \in 1 .. Len(s) \/ i = Len(s) + 1
  BY <1>1
<1>5. Len(s) + 1 \in 1 .. Len(s) + 1
  BY <1>1
<1> QED
  BY <1>1, <1>2, <1>3, <1>4, <1>5

LEMMA SwitchUserShows ==
    ASSUME IInv, SInv, NEW user0 \in Users, SwitchUser(user0)
    PROVE  SInv'
<1>1. /\ Publish([action |-> "USER_SWITCHED", context |-> foreground[user0]])
      /\ UNCHANGED << foreground, behind, configuration, persistent, usersParam, flags, thread, faults, history >>
  BY DEF SwitchUser
<1>2. UNCHANGED << foreground, configuration, param, usersParam, phase, onceFlag, isInitializationFinished,
                   thread, shown >>
  BY <1>1 DEF persistent, flags, history
<1>3. PICK event \in [action : {"USER_SWITCHED", "SUB_PROFILE_SWITCHED"}, context : Contexts] :
         event = [action |-> "USER_SWITCHED", context |-> foreground[user0]] /\ event.action = "USER_SWITCHED"
  <2> DEFINE e == [action |-> "USER_SWITCHED", context |-> foreground[user0]]
  <2>1. foreground[user0] \in Contexts
    BY DEF IInv, TypeInv
  <2>2. /\ e \in [action : {"USER_SWITCHED", "SUB_PROFILE_SWITCHED"}, context : Contexts]
        /\ e.action = "USER_SWITCHED"
    BY <2>1
  <2> QED
    BY <2>2, Zenon
<1>4. events' = events \/ events' = Append(events, event)
  BY <1>1, <1>3 DEF Publish
<1>5. /\ \A i \in DOMAIN events' : events'[i].action = "SUB_PROFILE_SWITCHED" =>
            i \in DOMAIN events /\ events[i] = events'[i]
      /\ \A i \in DOMAIN events : i \in DOMAIN events' /\ events'[i] = events[i]
  <2>1. CASE events' = events
    BY <2>1
  <2>2. CASE events' = Append(events, event)
    BY <1>3, <2>2, Appended DEF IInv, TypeInv
  <2> QED
    BY <1>4, <2>1, <2>2
<1>6. EventsInv'
  <2> SUFFICES ASSUME NEW i \in DOMAIN events', events'[i].action = "SUB_PROFILE_SWITCHED",
                      NEW c, c = events'[i].context
               PROVE  /\ IsSubProfileContext(c)
                      /\ \/ c = foreground[c.userId]
                         \/ \E j \in DOMAIN events' :
                               /\ j > i /\ events'[j].action = "SUB_PROFILE_SWITCHED"
                               /\ events'[j].context.userId = c.userId
    BY <1>2 DEF EventsInv
  <2>1. i \in DOMAIN events /\ events[i] = events'[i]
    BY <1>5
  <2> QED
    BY <1>5, <2>1 DEF SInv, EventsInv
<1>7. \A user : Awaited(user)' <=> Awaited(user)
  BY <1>5 DEF Awaited
<1>8. \A c \in Contexts : Current(c) => Current(c)'
  BY <1>2, <1>7 DEF Current
<1>9. \A c \in onceFlag' : shown'[c.userId] # Nobody
  BY <1>2 DEF SInv, SoleInv
<1> QED
  BY <1>2, <1>6, <1>7, <1>8, <1>9, EnvironmentShows

\* The event of a switch waits, or nothing is shown yet.
LEMMA SwitchSubProfileShows ==
    ASSUME IInv, SInv, NEW context \in Contexts, SwitchSubProfile(context)
    PROVE  SInv'
<1>1. /\ foreground[context.userId] # context
      /\ foreground' = [foreground EXCEPT ![context.userId] = context]
      /\ Publish([action |-> "SUB_PROFILE_SWITCHED", context |-> context])
      /\ UNCHANGED << active, behind, configuration, persistent, usersParam, flags, thread, faults, history >>
  BY DEF SwitchSubProfile
<1>2. UNCHANGED << configuration, param, usersParam, phase, onceFlag, isInitializationFinished, thread, shown >>
  BY <1>1 DEF persistent, flags, history
<1>3. PICK event \in [action : {"USER_SWITCHED", "SUB_PROFILE_SWITCHED"}, context : Contexts] :
         /\ event = [action |-> "SUB_PROFILE_SWITCHED", context |-> context]
         /\ event.action = "SUB_PROFILE_SWITCHED" /\ event.context = context
  <2> DEFINE e == [action |-> "SUB_PROFILE_SWITCHED", context |-> context]
  <2>1. /\ e \in [action : {"USER_SWITCHED", "SUB_PROFILE_SWITCHED"}, context : Contexts]
        /\ e.action = "SUB_PROFILE_SWITCHED" /\ e.context = context
    OBVIOUS
  <2> QED
    BY <2>1, Zenon
<1>4. context.userId \in Users /\ foreground \in [Users -> Contexts]
      /\ \A user \in Users : foreground[user].userId = user
  BY NotShown DEF IInv, TypeInv, TypeOK
<1>5. /\ foreground'[context.userId] = context
      /\ \A user \in Users : user # context.userId => foreground'[user] = foreground[user]
  BY <1>1, <1>4
<1>6. IsSubProfileContext(context)
  <2> SUFFICES ASSUME context.subProfileId = INVALID_SUB_PROFILE_ID PROVE FALSE
    BY DEF IsSubProfileContext
  <2>1. context \in [userId : Users, subProfileId : Int]
    BY AppearanceServiceAssumption
  <2>2. context = Base(context.userId)
    BY <2>1 DEF Base
  <2>3. foreground[context.userId] \in Contexts /\ foreground[context.userId].userId = context.userId
    BY <1>4
  <2>4. foreground[context.userId] = Base(context.userId)
    BY <2>2, <2>3, AppearanceServiceAssumption
  <2> QED
    BY <1>1, <2>2, <2>4
<1>7. \A c \in onceFlag' : shown'[c.userId] # Nobody
  BY <1>2 DEF SInv, SoleInv
<1>8. CASE phase = "published"
  <2>1. events' = events /\ events = << >>
    BY <1>1, <1>8 DEF Publish, IInv, TypeInv
  <2>2. DOMAIN events' = {}
    BY <2>1, NoEffects
  <2>3. EventsInv'
    BY <2>2 DEF EventsInv
  <2>4. \A user \in Users : ~IsShown(user)'
    BY <1>2, <1>8 DEF SInv, SoleInv, NoneShown, IsShown
  <2> QED
    BY <1>2, <1>7, <1>8, <2>3, <2>4, EnvironmentShows
<1>9. CASE phase # "published"
  <2>1. events' = Append(events, event)
    BY <1>1, <1>3, <1>9 DEF Publish
  <2>2. /\ \A i \in DOMAIN events : i \in DOMAIN events' /\ events'[i] = events[i]
        /\ \A i \in DOMAIN events' : i \in DOMAIN events \/ events'[i] = event
        /\ \E i \in DOMAIN events' : events'[i] = event /\ \A j \in DOMAIN events : j < i
    <3>1. events \in Seq([action : {"USER_SWITCHED", "SUB_PROFILE_SWITCHED"}, context : Contexts])
      BY DEF IInv, TypeInv
    <3> QED
      BY <2>1, <3>1, Appended
  <2>3. Awaited(context.userId)'
    BY <1>3, <2>2 DEF Awaited
  <2>4. \A user : Awaited(user) => Awaited(user)'
    BY <2>2 DEF Awaited
  <2>5. \A c \in Contexts : Current(c) => Current(c)'
    <3> SUFFICES ASSUME NEW c \in Contexts, Current(c) PROVE Current(c)'
      OBVIOUS
    <3>1. c.userId \in Users
      BY NotShown
    <3> QED
      BY <1>5, <2>3, <2>4, <3>1 DEF Current
  <2>6. EventsInv'
    <3> SUFFICES ASSUME NEW i \in DOMAIN events', events'[i].action = "SUB_PROFILE_SWITCHED",
                        NEW c, c = events'[i].context
                 PROVE  /\ IsSubProfileContext(c)
                        /\ \/ c = foreground'[c.userId]
                           \/ \E j \in DOMAIN events' :
                                 /\ j > i /\ events'[j].action = "SUB_PROFILE_SWITCHED"
                                 /\ events'[j].context.userId = c.userId
      BY DEF EventsInv
    <3>1. CASE i \in DOMAIN events
      <4>1. events[i] = events'[i]
        BY <2>2, <3>1
      <4>2. /\ IsSubProfileContext(c)
            /\ \/ c = foreground[c.userId]
               \/ \E j \in DOMAIN events : /\ j > i /\ events[j].action = "SUB_PROFILE_SWITCHED"
                                            /\ events[j].context.userId = c.userId
        BY <3>1, <4>1 DEF SInv, EventsInv
      <4>3. CASE c.userId = context.userId
        <5>1. PICK j \in DOMAIN events' : events'[j] = event /\ i < j
          BY <2>2, <3>1
        <5>2. DOMAIN events' \subseteq Int
          <6>1. events' \in Seq([action : {"USER_SWITCHED", "SUB_PROFILE_SWITCHED"}, context : Contexts])
            BY <2>1, AppendProperties DEF IInv, TypeInv
          <6> QED
            BY <6>1, LenProperties
        <5>3. j > i
          BY <5>1, <5>2
        <5> QED
          BY <1>3, <4>2, <4>3, <5>1, <5>3
      <4>4. CASE c.userId # context.userId
        <5>1. c \in Contexts
          <6>1. events \in Seq([action : {"USER_SWITCHED", "SUB_PROFILE_SWITCHED"}, context : Contexts])
            BY DEF IInv, TypeInv
          <6>2. i \in 1 .. Len(events)
            BY <3>1, <6>1, LenProperties
          <6>3. events[i] \in [action : {"USER_SWITCHED", "SUB_PROFILE_SWITCHED"}, context : Contexts]
            BY <6>1, <6>2, ElementOfSeq
          <6> QED
            BY <4>1, <6>3
        <5>2. c.userId \in Users
          BY <5>1, NotShown
        <5> QED
          BY <1>5, <2>2, <4>2, <4>4, <5>2
      <4> QED
        BY <4>3, <4>4
    <3>2. CASE events'[i] = event
      BY <1>3, <1>5, <1>6, <3>2
    <3> QED
      BY <2>2, <3>1, <3>2
  <2>7. \A user \in Users :
           Awaited(user)' \/ (foreground'[user] = foreground[user] /\ ~Awaited(user))
    <3> TAKE user \in Users
    <3>1. CASE user = context.userId
      <4>1. PICK user1 : user1 = context.userId
        OBVIOUS
      <4> QED
        BY <2>3, <3>1, <4>1 DEF Awaited
    <3>2. CASE user # context.userId
      BY <1>5, <2>4, <3>2
    <3> QED
      BY <3>1, <3>2
  <2> QED
    BY <1>2, <1>7, <2>5, <2>6, <2>7, EnvironmentShows
<1> QED
  BY <1>8, <1>9

LEMMA NothingIsShown == \A user \in Users : NothingShown[user] \notin Contexts
BY NotShown DEF NothingShown

LEMMA OnRemoveSystemAbilityShows ==
    ASSUME IInv, SInv, OnRemoveSystemAbility
    PROVE  SInv'
<1>1. /\ phase' = "removed" /\ onceFlag' = {} /\ shown' = NothingShown
      /\ UNCHANGED << environment, persistent, usersParam, isInitializationFinished, events, thread >>
  BY DEF OnRemoveSystemAbility
<1>2. UNCHANGED << param, foreground >>
  BY <1>1 DEF persistent, environment
<1>3. NoneShown'
  BY <1>1, NothingIsShown DEF NoneShown, IsShown
<1>4. EventsInv' /\ \A c \in Contexts : Current(c) => Current(c)'
  BY <1>1, <1>2 DEF SInv, EventsInv, Current, Awaited
<1> QED
  BY <1>1, <1>2, <1>3, <1>4, EnvironmentShows DEF NoneShown

\* A step that changes nothing of it.
LEMMA UnchangedShows ==
    ASSUME IInv, SInv, UNCHANGED << usersParam, param, isInitializationFinished, thread, shown, configuration,
                                    phase, onceFlag, events, foreground >>
    PROVE  SInv'
<1>1. EventsInv'
  BY DEF SInv, EventsInv
<1>2. \A user : Awaited(user)' <=> Awaited(user)
  BY DEF Awaited
<1>3. \A c \in Contexts : Current(c) => Current(c)'
  BY <1>2 DEF Current
<1>4. \A c \in onceFlag' : shown'[c.userId] # Nobody
  BY DEF SInv, SoleInv
<1> QED
  BY <1>1, <1>2, <1>3, <1>4, EnvironmentShows

NothingYet ==
    /\ \A t \in Threads : thread[t] = Idle
    /\ events = << >> /\ onceFlag = {} /\ shown = NothingShown

LEMMA NothingUnderWay == NothingYet => SInv
<1> SUFFICES ASSUME NothingYet PROVE SInv
  OBVIOUS
<1> USE DEF NothingYet
<1>1. \A t \in Threads : ~Busy(t) /\ thread[t].todo = << >> /\ DOMAIN thread[t].todo = {}
  BY NoEffects DEF Idle, Busy
<1>2. NoneShown
  BY NothingIsShown DEF NoneShown, IsShown
<1>3. ShapeInv /\ ShownInv
  BY <1>1 DEF ShapeInv, ShownInv
<1>4. SoleInv
  BY <1>1, <1>2 DEF SoleInv
<1>5. EventsInv
  BY NoEffects DEF EventsInv
<1>6. FollowInv
  BY <1>2 DEF FollowInv, NoneShown
<1> QED
  BY <1>3, <1>4, <1>5, <1>6 DEF SInv

LEMMA CrashShows ==
    ASSUME Crash
    PROVE  SInv'
<1>1. NothingYet'
  BY DEF Crash, NothingYet, Idle, NothingShown, Nobody
<1> QED
  BY <1>1, NothingUnderWay, PTL

LEMMA InitSInv == Init => SInv
<1>1. Init => NothingYet
  BY DEF Init, NothingYet, Idle, NothingShown, Nobody
<1> QED
  BY <1>1, NothingUnderWay

LEMMA NextSInv == IInv /\ SInv /\ [Next]_vars => SInv'
<1> SUFFICES ASSUME IInv, SInv, [Next]_vars PROVE SInv'
  OBVIOUS
<1>1. CASE Request
  BY <1>1, RequestShows
<1>2. CASE OnAddSystemAbility
  BY <1>2, OnAddSystemAbilityShows
<1>3. CASE OnRemoveSystemAbility
  BY <1>3, OnRemoveSystemAbilityShows
<1>4. CASE AppMgrStarts
  <2>1. UNCHANGED << usersParam, param, isInitializationFinished, thread, shown, configuration,
                     phase, onceFlag, events, foreground >>
    BY <1>4 DEF AppMgrStarts, environment, persistent, history
  <2> QED
    BY <2>1, UnchangedShows
<1>5. CASE OnReceiveEvent
  BY <1>5, OnReceiveEventShows
<1>6. CASE Crash
  BY <1>6, CrashShows
<1>7. CASE \E user \in Users : SwitchUser(user)
  BY <1>7, SwitchUserShows
<1>8. CASE \E context \in Contexts : SwitchSubProfile(context)
  BY <1>8, SwitchSubProfileShows
<1>9. CASE \E t \in Threads : Step(t)
  <2> SUFFICES ASSUME NEW t \in Threads, Step(t) PROVE SInv'
    BY <1>9
  <2>1. CASE UpdateConfiguration(t) \/ SetBaseParam(t) \/ SetContextParam(t) \/ ConfigurePersistence(t) \/ Promise(t)
    BY <2>1, UpdateConfigurationShows, SetBaseParamShows, SetContextParamShows, ConfigurePersistenceShows,
       PromiseShows
  <2>2. CASE UpgradeIfNeeded(t) \/ InitializeIfNeeded(t) \/ DoCompatibleProcess(t) \/ GetOldParam(t) \/ CarryTo(t)
             \/ Carried(t)
    BY <2>2, UpgradeIfNeededShows, InitializeIfNeededShows, DoCompatibleProcessShows, GetOldParamShows,
       CarryToShows, CarriedShows
  <2>3. CASE DoInitProcess(t) \/ InitContext(t) \/ Initialized(t)
    BY <2>3, DoInitProcessShows, InitContextShows, InitializedShows
  <2>4. CASE UpdateCurrentUserConfiguration(t) \/ SendOnce(t) \/ LoadedDarkMode(t)
             \/ ApplyAppearanceContextToUser(t) \/ GetMultipleUsers(t) \/ UpdateForeground(t)
    BY <2>4, UpdateCurrentUserConfigurationShows, SendOnceShows, LoadedDarkModeShows,
       ApplyAppearanceContextToUserShows, GetMultipleUsersShows, UpdateForegroundShows
  <2> QED
    BY <2>1, <2>2, <2>3, <2>4 DEF Step
<1>10. CASE UNCHANGED vars
  <2>1. UNCHANGED << usersParam, param, isInitializationFinished, thread, shown, configuration,
                     phase, onceFlag, events, foreground >>
    BY <1>10 DEF vars, environment, persistent, flags, history
  <2> QED
    BY <2>1, UnchangedShows
<1> QED
  BY <1>1, <1>2, <1>3, <1>4, <1>5, <1>6, <1>7, <1>8, <1>9, <1>10 DEF Next

\* When nothing is under way, a user sees the account in front as it is in memory.
LEMMA NothingIsPending == IInv /\ SInv => ConfigurationFollowsMemory
<1> SUFFICES ASSUME IInv, SInv, Quiet, NEW user \in Users, shown[user] \in Contexts
             PROVE  configuration[user] = Entry(shown[user])
  BY DEF ConfigurationFollowsMemory
<1>1. DOMAIN events = {} /\ \A t \in Threads : DOMAIN thread[t].todo = {}
  BY NoEffects DEF Quiet, Busy
<1>2. Follows(user)
  BY DEF SInv, FollowInv, IsShown
<1>3. ~Awaited(user) /\ ~UnderWay(user)
  BY <1>1 DEF Awaited, UnderWay, ForcedFor
<1>4. shown[user] = foreground[user] /\ \A item \in Items : Agrees(user, item)
  BY <1>2, <1>3 DEF Follows
<1>5. \A item \in Items : configuration[user][item] = Entry(shown[user])[item]
  BY <1>1, <1>4 DEF Agrees, PersistPending
<1>6. PICK seen : seen = configuration[user]
  OBVIOUS
<1>7. PICK entry : entry = Entry(shown[user])
  OBVIOUS
<1>8. seen \in [Items -> Values \cup {Lost}] /\ entry \in [Items -> Values]
  BY <1>6, <1>7, EntryType DEF IInv, TypeInv, TypeOK
<1>9. \A item \in Items : seen[item] = entry[item]
  BY <1>5, <1>6, <1>7
<1> QED
  BY <1>6, <1>7, <1>8, <1>9

\* Whenever the service is at rest, the configuration that a user sees is that of
\* the account that was switched to last, for any users and accounts and whatever
\* came before: switches that were slower than the next, sets between them, a late
\* initialization, failing calls, a new application manager, a crash; unless two
\* handlers dealt with an item at the same time, a call that sends it failed, or a
\* parameter could not be written before the initialization
\* (UpdateCurrentUserConfiguration, ApplyAppearanceContextToUser, the set requests).
THEOREM ConfigurationFollowsMemoryHolds == Spec => []ConfigurationFollowsMemory
<1>1. Spec => []SInv
  BY InitSInv, NextSInv, Inductive, PTL DEF Spec
<1> QED
  BY <1>1, Inductive, NothingIsPending, PTL
=============================================================================
