-------------------------- MODULE AppearanceBaseProofs --------------------------
(***************************************************************************)
(* The base parameters, from which the device shows its next start: at     *)
(* rest they are those of the account in front, for any users, accounts    *)
(* and parameters and however the handlers interleave, fail and crash.     *)
(* Every handler writes them in part; the invariant says which one has the *)
(* last word.                                                              *)
(***************************************************************************)
EXTENDS AppearanceServiceProofs

-----------------------------------------------------------------------------
(* The base parameters: what is pending.                                   *)

\* What a handler does after the i-th of its effects.
After(todo, i) == {todo[j] : j \in i + 1 .. Len(todo)}

\* The user in front, with nobody in the background who has sub-profiles, or has set
\* something since the last switch.
InFront(user) ==
    /\ active = {user} /\ phase # "published" /\ faults = 0 /\ ~behind
    /\ \A c \in Contexts : IsSubProfileContext(c) => c.userId \in {USER100, user}

\* An effect, or an event that waits, that ends in the user's account becoming the base.
Rebases(e, user) ==
    \/ e.op \in {"loaded", "apply", "update"} /\ Account(e).userId = user
    \/ e.op = "spread" /\ user # USER100
    \/ e.op = "updateForeground"
BaseAwaited(user) ==
    \E i \in DOMAIN events :
        \/ events[i].action = "USER_SWITCHED" /\ events[i].context.userId = user
        \/ events[i].action = "SUB_PROFILE_SWITCHED" /\ events[i].context.userId \in {USER100, user}
Ends(after, user) == BaseAwaited(user) \/ \E a \in after : Rebases(a, user)

\* The base is written after the configuration is sent, and before the account it belongs to.
BaseShape(e, before) ==
    /\ e.op = "base" => \A b \in before : b.op \in {"send", "configuration"}
    /\ e.op \notin Setting => \A b \in before : b.op # "configuration"
    /\ e.op = "persist" => \A item \in DOMAIN e.values :
          IF \E b \in before : b.op = "base"
          THEN \A b \in before : b.op = "base" => item \in DOMAIN b.values /\ b.values[item] = e.values[item]
          ELSE baseParam[item] = e.values[item]

\* What becomes the base is the account of the user in front, or is going to be, or
\* another account becomes the base after it.
BaseFits(e, after, user) ==
    /\ e.op \in Showing => Account(e).userId = user \/ Ends(after, user)
    /\ e.op = "persist" => About(e) = user \/ BaseAwaited(user)
    /\ e.op = "base" => \/ Ends(after, user)
                        \/ \A item \in DOMAIN e.values :
                              \/ e.values[item] = Entry(foreground[user])[item]
                              \/ \E a \in after : a.op = "persist" /\ item \in DOMAIN a.values
    /\ e.op = "send" => \/ Ends(after, user)
                        \/ \E a \in after : /\ a.op = "base"
                                            /\ \A item \in Items : /\ item \in DOMAIN a.values
                                                 /\ a.values[item] = Entry(foreground[user])[item]

\* Handlers that have doubts show nothing.
DoubtInv == faults = 0 => \A t \in Threads : Busy(t) /\ thread[t].inDoubt => NoneShown
BaseShapeInv ==
    faults = 0 => \A t \in Threads : ~thread[t].inDoubt =>
        \A i \in DOMAIN thread[t].todo : BaseShape(thread[t].todo[i], Before(thread[t].todo, i))
BaseFitsInv ==
    \A user \in Users : InFront(user) => \A t \in Threads : ~thread[t].inDoubt =>
        \A i \in DOMAIN thread[t].todo : BaseFits(thread[t].todo[i], After(thread[t].todo, i), user)

\* The last switch of users that waits is to the one in front.
SwitchedInv ==
    \A user \in Users : active = {user} => \A i \in DOMAIN events :
        events[i].action = "USER_SWITCHED" =>
            \/ events[i].context.userId = user
            \/ \E j \in DOMAIN events : /\ j > i /\ events[j].action = "USER_SWITCHED"
                                        /\ events[j].context.userId = user

\* A list that ends in the user's account becoming the base, or in an item of it doing so.
RebaseIn(todo, user) == \E i \in DOMAIN todo : Rebases(todo[i], user)
BasePending(todo, item, value) ==
    \E i \in DOMAIN todo :
        /\ todo[i].op = "base" /\ item \in DOMAIN todo[i].values /\ todo[i].values[item] = value
        /\ \A b \in Before(todo, i) : b.op # "configuration"
BaseAgrees(user, item) ==
    \/ baseParam[item] = Entry(foreground[user])[item]
    \/ \E t \in Threads : \/ PersistPending(thread[t].todo, user, item)
                          \/ BasePending(thread[t].todo, item, Entry(foreground[user])[item])
RebaseUnderWay(user) == \E t \in Threads : RebaseIn(thread[t].todo, user)
BaseFollows(user) ==
    BaseAwaited(user) \/ RebaseUnderWay(user) \/ \A item \in Items : BaseAgrees(user, item)
BaseFollowInv == \A user \in Users : InFront(user) /\ IsShown(user) => BaseFollows(user)

BInv == faults \in Nat /\ DoubtInv /\ BaseShapeInv /\ BaseFitsInv /\ SwitchedInv /\ BaseFollowInv

-----------------------------------------------------------------------------
(* The base parameters: what a step of a handler may do.                   *)

\* What replaces the first of a list comes before the others.
LEMMA ListStep ==
    ASSUME NEW more \in Seq(Effects), NEW s \in Seq(Effects), s # << >>,
           NEW i \in DOMAIN (more \o Tail(s))
    PROVE  \/ /\ i \in DOMAIN more /\ (more \o Tail(s))[i] = more[i]
              /\ Before(more \o Tail(s), i) = Before(more, i)
              /\ After(more \o Tail(s), i) = After(more, i) \cup After(s, 1)
           \/ \E k \in DOMAIN s :
                 /\ (more \o Tail(s))[i] = s[k] /\ Head(s) \in Before(s, k)
                 /\ \A b \in Before(s, k) : b = Head(s) \/ b \in Before(more \o Tail(s), i)
                 /\ \A b \in Before(more \o Tail(s), i) :
                       b \in Before(s, k) \/ \E j \in DOMAIN more : b = more[j]
                 /\ After(more \o Tail(s), i) = After(s, k)
<1> DEFINE all == more \o Tail(s)
           m == Len(more)
           n == Len(s)
<1>1. /\ m \in Nat /\ n \in Nat /\ n >= 1 /\ DOMAIN all = 1 .. m + n - 1 /\ Len(all) = m + n - 1
      /\ \A j \in 1 .. m : all[j] = more[j]
      /\ \A j \in 2 .. n : all[m + j - 1] = s[j]
  <2>1. all \in Seq(Effects) /\ m \in Nat /\ n \in Nat /\ n >= 1 /\ DOMAIN all = 1 .. m + n - 1
    BY Replaced
  <2>2. DOMAIN all = 1 .. Len(all) /\ Len(all) \in Nat
    BY <2>1, LenProperties
  <2>3. Len(all) = m + n - 1
    BY <2>1, <2>2
  <2> QED
    BY <2>1, <2>3, Replaced
<1>2. DOMAIN more = 1 .. m /\ DOMAIN s = 1 .. n /\ Head(s) = s[1]
  BY LenProperties, FirstAndRest
<1> HIDE DEF all, m, n
<1>3. i \in 1 .. m + n - 1
  <2>1. i \in DOMAIN all
    BY DEF all
  <2> QED
    BY <1>1, <2>1
<1>4. CASE i <= m
  <2>1. i \in DOMAIN more /\ all[i] = more[i]
    BY <1>1, <1>2, <1>3, <1>4
  <2>2. Before(all, i) = Before(more, i)
    <3>1. \A j \in 1 .. i - 1 : all[j] = more[j]
      BY <1>1, <1>3, <1>4
    <3> QED
      BY <3>1 DEF Before
  <2>3. ASSUME NEW a \in After(all, i) PROVE a \in After(more, i) \cup After(s, 1)
    <3>1. PICK j \in i + 1 .. m + n - 1 : a = all[j]
      BY <1>1 DEF After
    <3>2. CASE j <= m
      <4>1. j \in i + 1 .. m /\ a = more[j]
        BY <1>1, <1>3, <3>1, <3>2
      <4> QED
        BY <4>1 DEF After, m
    <3>3. CASE ~(j <= m)
      <4> DEFINE h == j - m + 1
      <4>1. h \in 1 + 1 .. n /\ m + h - 1 = j
        BY <1>1, <1>3, <3>1, <3>3
      <4>2. a = s[h]
        BY <1>1, <3>1, <4>1
      <4> QED
        BY <4>1, <4>2 DEF After, n
    <3> QED
      BY <3>2, <3>3
  <2>4. ASSUME NEW a \in After(more, i) PROVE a \in After(all, i)
    <3>1. PICK j \in i + 1 .. m : a = more[j]
      BY DEF After, m
    <3>2. j \in i + 1 .. m + n - 1 /\ a = all[j]
      BY <1>1, <1>3, <3>1
    <3> QED
      BY <1>1, <3>2 DEF After
  <2>5. ASSUME NEW a \in After(s, 1) PROVE a \in After(all, i)
    <3>1. PICK h \in 1 + 1 .. n : a = s[h]
      BY DEF After, n
    <3>2. m + h - 1 \in i + 1 .. m + n - 1 /\ a = all[m + h - 1]
      BY <1>1, <1>3, <1>4, <3>1
    <3> QED
      BY <1>1, <3>2 DEF After
  <2>6. After(all, i) = After(more, i) \cup After(s, 1)
    BY <2>3, <2>4, <2>5
  <2> QED
    BY <2>1, <2>2, <2>6 DEF all
<1>5. CASE ~(i <= m)
  <2> DEFINE k == i - m + 1
  <2>1. k \in 2 .. n /\ m + k - 1 = i
    BY <1>1, <1>3, <1>5
  <2>2. k \in DOMAIN s /\ all[i] = s[k] /\ Head(s) \in Before(s, k)
    <3>1. all[m + k - 1] = s[k]
      BY <1>1, <2>1
    <3>2. \A j \in 2 .. n : Head(s) \in Before(s, j)
      BY FirstAndRest DEF n
    <3>3. k \in 1 .. n
      BY <1>1, <2>1
    <3> QED
      BY <1>2, <2>1, <3>1, <3>2, <3>3
  <2> HIDE DEF k
  <2>3. ASSUME NEW b \in Before(s, k) PROVE b = Head(s) \/ b \in Before(all, i)
    <3>1. PICK j \in 1 .. k - 1 : b = s[j]
      BY DEF Before
    <3>2. CASE j = 1
      BY <1>2, <3>1, <3>2
    <3>3. CASE j # 1
      <4>1. j \in 2 .. n /\ m + j - 1 \in 1 .. i - 1
        BY <1>1, <1>3, <2>1, <3>3
      <4> QED
        BY <1>1, <3>1, <4>1 DEF Before
    <3> QED
      BY <3>2, <3>3
  <2>4. ASSUME NEW b \in Before(all, i)
        PROVE  b \in Before(s, k) \/ \E j \in DOMAIN more : b = more[j]
    <3>1. PICK j \in 1 .. i - 1 : b = all[j]
      BY DEF Before
    <3>2. CASE j <= m
      BY <1>1, <1>2, <3>1, <3>2
    <3>3. CASE ~(j <= m)
      <4> DEFINE h == j - m + 1
      <4>1. h \in 2 .. n /\ m + h - 1 = j /\ h \in 1 .. k - 1
        BY <1>1, <1>3, <2>1, <3>3
      <4>2. all[j] = s[h]
        BY <1>1, <4>1
      <4> QED
        BY <3>1, <4>1, <4>2 DEF Before
    <3> QED
      BY <3>2, <3>3
  <2>5. ASSUME NEW a \in After(all, i) PROVE a \in After(s, k)
    <3>1. PICK j \in i + 1 .. m + n - 1 : a = all[j]
      BY <1>1 DEF After
    <3> DEFINE h == j - m + 1
    <3>2. h \in k + 1 .. n /\ h \in 2 .. n /\ m + h - 1 = j
      BY <1>1, <1>3, <1>5, <2>1, <3>1
    <3>3. a = s[h]
      BY <1>1, <3>1, <3>2
    <3> QED
      BY <3>2, <3>3 DEF After, n
  <2>6. ASSUME NEW a \in After(s, k) PROVE a \in After(all, i)
    <3>1. PICK h \in k + 1 .. n : a = s[h]
      BY DEF After, n
    <3>2. h \in 2 .. n /\ m + h - 1 \in i + 1 .. m + n - 1
      BY <1>1, <1>3, <2>1, <3>1
    <3>3. a = all[m + h - 1]
      BY <1>1, <3>1, <3>2
    <3> QED
      BY <1>1, <3>2, <3>3 DEF After
  <2>7. After(all, i) = After(s, k)
    BY <2>5, <2>6
  <2> QED
    BY <2>2, <2>3, <2>4, <2>7 DEF all
<1> QED
  BY <1>4, <1>5

\* An effect of a list that has more in place of its first, with those before and after it.
IsNew(more, rest, i, e, before, after) ==
    i \in DOMAIN more /\ e = more[i] /\ before = Before(more, i) /\ after = After(more, i) \cup rest
IsOld(s, head, more, e, before, after) ==
    \E k \in DOMAIN s : /\ e = s[k] /\ head \in Before(s, k) /\ after = After(s, k)
                        /\ \A b \in Before(s, k) : b = head \/ b \in before
                        /\ \A b \in before : b \in Before(s, k) \/ \E j \in DOMAIN more : b = more[j]

\* The same for the list of a handler.
LEMMA AfterStepToo ==
    ASSUME TypeInv, NEW t \in Threads, NEW more \in Seq(Effects), Proceeds(t, more),
           NEW u \in Threads, NEW i \in DOMAIN thread'[u].todo, NEW e, NEW before, NEW after,
           e = thread'[u].todo[i], before = Before(thread'[u].todo, i), after = After(thread'[u].todo, i)
    PROVE  \/ u # t /\ thread'[u] = thread[u]
           \/ u = t /\ IsNew(more, After(thread[t].todo, 1), i, e, before, after)
           \/ u = t /\ IsOld(thread[t].todo, Effect(t), more, e, before, after)
<1>1. CASE u # t
  BY <1>1 DEF Proceeds
<1>2. CASE u = t
  <2>1. thread'[t] # Idle
    BY <1>2 DEF Idle
  <2>2. thread'[t].todo = more \o Tail(thread[t].todo)
    BY <2>1 DEF Proceeds
  <2>3. thread[t].todo \in Seq(Effects) /\ thread[t].todo # << >> /\ Head(thread[t].todo) = Effect(t)
    BY EffectType DEF Proceeds, Busy, Effect
  <2>4. i \in DOMAIN (more \o Tail(thread[t].todo))
    BY <1>2, <2>2
  <2> DEFINE s == thread[t].todo
             all == more \o Tail(s)
  <2>5. \/ /\ i \in DOMAIN more /\ all[i] = more[i] /\ Before(all, i) = Before(more, i)
           /\ After(all, i) = After(more, i) \cup After(s, 1)
        \/ \E k \in DOMAIN s :
              /\ all[i] = s[k] /\ Head(s) \in Before(s, k)
              /\ \A b \in Before(s, k) : b = Head(s) \/ b \in Before(all, i)
              /\ \A b \in Before(all, i) : b \in Before(s, k) \/ \E j \in DOMAIN more : b = more[j]
              /\ After(all, i) = After(s, k)
    BY <2>3, <2>4, ListStep, ZenonT(30)
  <2>6. e = all[i] /\ before = Before(all, i) /\ after = After(all, i) /\ Head(s) = Effect(t)
    BY <1>2, <2>2, <2>3
  <2> HIDE DEF all, s
  <2>7. \/ IsNew(more, After(s, 1), i, e, before, after)
        \/ IsOld(s, Effect(t), more, e, before, after)
    BY <2>5, <2>6 DEF IsNew, IsOld
  <2> QED
    BY <1>2, <2>7 DEF s
<1> QED
  BY <1>1, <1>2

\* What a step writes, and what it puts first.
KeepsBase(t, more, rest) ==
    LET e == Effect(t)
    IN  /\ \A j \in DOMAIN more :
              /\ more[j].op # "configuration"
              /\ e.op \in Setting => more[j].op # "base"
              /\ ~thread[t].inDoubt =>
                    /\ BaseShape(more[j], Before(more, j))'
                    /\ \A user \in Users : InFront(user)' =>
                          BaseFits(more[j], After(more, j) \cup rest, user)'
        /\ e.op \in {"send", "configuration", "param"} =>
              /\ DOMAIN more = {}
              /\ \A c \in Contexts : Entry(c)' = Entry(c)
        /\ \A item \in Items : baseParam'[item] =
              IF e.op = "base" /\ item \in DOMAIN e.values THEN e.values[item] ELSE baseParam[item]
        /\ \A item \in Items \ thread[t].items : \A c \in Contexts : (Entry(c)[item])' = Entry(c)[item]
        /\ thread'[t] # Idle => thread'[t].inDoubt = thread[t].inDoubt
        /\ \A user \in Users : IsShown(user)' => IsShown(user) \/ (e.op = "send" /\ ~thread[t].inDoubt)
        /\ phase' = phase /\ UNCHANGED << environment, events >> /\ faults = 0 /\ faults' = 0

LEMMA DoubtKept ==
    ASSUME IInv, SInv, DoubtInv, NEW t \in Threads, NEW more \in Seq(Effects), NEW rest,
           Proceeds(t, more), KeepsBase(t, more, rest)
    PROVE  DoubtInv'
<1> SUFFICES ASSUME NEW u \in Threads, Busy(u)', thread'[u].inDoubt, NEW user \in Users, IsShown(user)'
             PROVE  FALSE
  BY DEF DoubtInv, NoneShown, Busy
<1>1. Busy(u) /\ thread[u].inDoubt
  <2>1. CASE u = t
    <3>1. thread'[t] # Idle
      BY <2>1 DEF Busy, Idle
    <3> QED
      BY <2>1, <3>1 DEF KeepsBase, Proceeds
  <2>2. CASE u # t
    BY <2>2 DEF Proceeds, Busy
  <2> QED
    BY <2>1, <2>2
<1>2. NoneShown
  BY <1>1 DEF DoubtInv, KeepsBase
<1>3. Effect(t).op = "send" /\ ~thread[t].inDoubt
  BY <1>2 DEF KeepsBase, NoneShown
<1>4. u # t /\ Busy(t)
  BY <1>1, <1>3 DEF Proceeds
<1>5. 1 \in DOMAIN thread[t].todo /\ thread[t].todo[1].op \notin Setting
  BY <1>3, <1>4, EffectType DEF IInv, Setting
<1> QED
  BY <1>1, <1>3, <1>4, <1>5, SwitchingAlone DEF SInv

\* A handler without doubts has its items for itself.
LEMMA ItemsApart ==
    ASSUME IInv, SInv, NEW t \in Threads, NEW u \in Threads, u # t, Busy(t), Busy(u), ~thread[u].inDoubt
    PROVE  /\ thread[t].items \cap thread[u].items = {}
           /\ \A i \in DOMAIN thread[u].todo :
                 /\ thread[u].todo[i].op \in Setting
                 /\ ItemsOf(thread[u].todo[i]) \subseteq thread[u].items
<1>1. thread[t].items \cap thread[u].items = {}
  BY CommonItems DEF IInv, SInv
<1>2. ASSUME NEW i \in DOMAIN thread[u].todo PROVE thread[u].todo[i].op \in Setting
  BY SwitchingAlone DEF SInv
<1>3. ASSUME NEW i \in DOMAIN thread[u].todo PROVE ItemsOf(thread[u].todo[i]) \subseteq thread[u].items
  BY DEF IInv, ApartInv
<1> QED
  BY <1>1, <1>2, <1>3

\* The fields of an effect.
LEMMA EffectItems ==
    ASSUME NEW e \in Effects, e.op \in {"base", "persist"}
    PROVE  DOMAIN e.values \subseteq Items /\ ItemsOf(e) = DOMAIN e.values
BY EffectFields, PartialFields DEF ItemsOf

\* A step changes the base where it has the items.
LEMMA BaseElsewhere ==
    ASSUME IInv, NEW t \in Threads, NEW more, NEW rest, Busy(t), KeepsBase(t, more, rest),
           NEW item \in Items, item \notin thread[t].items
    PROVE  baseParam'[item] = baseParam[item] /\ \A c \in Contexts : (Entry(c)[item])' = Entry(c)[item]
<1>1. Effect(t) \in Effects /\ ItemsOf(Effect(t)) \subseteq thread[t].items
  BY EffectType DEF IInv, ApartInv
<1>2. Effect(t).op = "base" => item \notin DOMAIN Effect(t).values
  BY <1>1, EffectItems
<1> QED
  BY <1>2 DEF KeepsBase

LEMMA BaseShapeKept ==
    ASSUME IInv, SInv, BaseShapeInv, NEW t \in Threads, NEW more \in Seq(Effects), NEW rest,
           rest = After(thread[t].todo, 1), Proceeds(t, more), KeepsBase(t, more, rest)
    PROVE  BaseShapeInv'
<1> SUFFICES ASSUME NEW u \in Threads, ~thread'[u].inDoubt, NEW i \in DOMAIN thread'[u].todo
             PROVE  BaseShape(thread[u].todo[i], Before(thread[u].todo, i))'
  BY DEF BaseShapeInv, KeepsBase
<1> SUFFICES ASSUME NEW e, NEW before, e = thread'[u].todo[i], before = Before(thread'[u].todo, i)
             PROVE  BaseShape(e, before)'
  <2>1. PICK e : e = thread'[u].todo[i]
    OBVIOUS
  <2>2. PICK before : before = Before(thread'[u].todo, i)
    OBVIOUS
  <2>3. BaseShape(e, before)'
    BY <2>1, <2>2
  <2> QED
    BY <2>1, <2>2, <2>3 DEF BaseShape, Before
<1>1. faults = 0 /\ TypeInv /\ Busy(t)
  BY DEF KeepsBase, IInv, Proceeds
<1>2. CASE u # t /\ thread'[u] = thread[u]
  <2>1. ~thread[u].inDoubt /\ i \in DOMAIN thread[u].todo /\ e = thread[u].todo[i] /\ before = Before(thread[u].todo, i)
    BY <1>2
  <2>2. e \in Effects /\ Busy(u)
    BY <1>1, <2>1, TodoType
  <2>3. thread[t].items \cap thread[u].items = {} /\ e.op \in Setting /\ ItemsOf(e) \subseteq thread[u].items
    BY <1>1, <1>2, <2>1, <2>2, ItemsApart
  <2>4. BaseShape(e, before)
    BY <1>1, <2>1 DEF BaseShapeInv
  <2>5. CASE e.op = "persist"
    <3>1. DOMAIN e.values \subseteq Items /\ DOMAIN e.values \subseteq thread[u].items
      BY <2>2, <2>3, <2>5, EffectItems
    <3>2. \A item \in DOMAIN e.values : baseParam'[item] = baseParam[item]
      BY <1>1, <2>3, <3>1, BaseElsewhere
    <3> QED
      BY <2>4, <2>5, <3>2 DEF BaseShape, Setting
  <2> QED
    BY <2>4, <2>5 DEF BaseShape
<1>3. CASE u = t /\ i \in DOMAIN more /\ e = more[i] /\ before = Before(more, i)
  <2>1. ~thread[t].inDoubt
    BY <1>3 DEF KeepsBase, Idle
  <2>2. BaseShape(more[i], Before(more, i))'
    BY <1>3, <2>1 DEF KeepsBase
  <2> QED
    BY <1>3, <2>2 DEF BaseShape
<1>4. ASSUME u = t, NEW k \in DOMAIN thread[t].todo, e = thread[t].todo[k],
             NEW old, old = Before(thread[t].todo, k), NEW head, head = Effect(t), head \in old,
             \A b \in old : b = head \/ b \in before,
             \A b \in before : b \in old \/ \E j \in DOMAIN more : b = more[j]
      PROVE  BaseShape(e, before)'
  <2>1. ~thread[t].inDoubt /\ BaseShape(e, old)
    <3>1. thread'[t] # Idle
      BY <1>4 DEF Idle
    <3>2. ~thread[t].inDoubt
      BY <1>4, <3>1 DEF KeepsBase
    <3> QED
      BY <1>1, <1>4, <3>2 DEF BaseShapeInv
  <2>2. ShapeFits(e, old) /\ e \in Effects
    BY <1>1, <1>4, TodoType DEF SInv, ShapeInv
  <2>3. CASE e.op = "base"
    <3>1. head.op \in {"send", "configuration"}
      BY <1>4, <2>1, <2>3 DEF BaseShape
    <3>2. DOMAIN more = {}
      BY <1>4, <3>1 DEF KeepsBase
    <3> QED
      BY <1>4, <2>1, <2>3, <3>2 DEF BaseShape, Setting
  <2>4. CASE e.op = "persist"
    <3>1. head.op \in Setting
      BY <1>4, <2>2, <2>4 DEF ShapeFits
    <3>2. \A b \in before : b.op = "base" => b \in old
      BY <1>4, <3>1, ZenonT(30) DEF KeepsBase
    <3>3. ASSUME NEW item \in DOMAIN e.values
          PROVE  IF \E b \in before : b.op = "base"
                 THEN \A b \in before : b.op = "base" => item \in DOMAIN b.values /\ b.values[item] = e.values[item]
                 ELSE baseParam'[item] = e.values[item]
      <4>1. item \in Items
        BY <2>2, <2>4, EffectItems
      <4>2. CASE \E b \in before : b.op = "base"
        BY <2>1, <2>4, <3>2, <4>2 DEF BaseShape
      <4>3. CASE head.op = "base"
        <5>1. item \in DOMAIN head.values /\ head.values[item] = e.values[item]
          BY <1>4, <2>1, <2>4, <4>3 DEF BaseShape
        <5>2. baseParam'[item] = e.values[item]
          BY <1>4, <4>1, <4>3, <5>1 DEF KeepsBase
        <5> QED
          BY <4>2, <5>2
      <4>4. CASE head.op # "base" /\ ~\E b \in before : b.op = "base"
        <5>1. ~\E b \in old : b.op = "base"
          BY <1>4, <4>4
        <5>2. baseParam[item] = e.values[item]
          BY <2>1, <2>4, <5>1 DEF BaseShape
        <5>3. baseParam'[item] = baseParam[item]
          BY <1>4, <4>1, <4>4 DEF KeepsBase
        <5> QED
          BY <4>4, <5>2, <5>3
      <4> QED
        BY <4>2, <4>3, <4>4
    <3> QED
      BY <2>4, <3>3 DEF BaseShape, Setting
  <2>5. CASE e.op \notin {"base", "persist"}
    <3>1. \A j \in DOMAIN more : more[j].op # "configuration"
      BY DEF KeepsBase
    <3>2. e.op \notin Setting => \A b \in old : b.op # "configuration"
      BY <2>1 DEF BaseShape
    <3>3. e.op \notin Setting => \A b \in before : b.op # "configuration"
      BY <1>4, <3>1, <3>2
    <3> QED
      BY <2>5, <3>3 DEF BaseShape
  <2> QED
    BY <2>3, <2>4, <2>5
<1>5. CASE u = t /\ IsOld(thread[t].todo, Effect(t), more, e, before, After(thread'[u].todo, i))
  BY <1>4, <1>5 DEF IsOld
<1> QED
  BY <1>1, <1>2, <1>3, <1>5, AfterStepToo DEF IsNew

LEMMA BaseFitsKept ==
    ASSUME IInv, SInv, BaseShapeInv, BaseFitsInv, NEW t \in Threads, NEW more \in Seq(Effects), NEW rest,
           rest = After(thread[t].todo, 1), Proceeds(t, more), KeepsBase(t, more, rest)
    PROVE  BaseFitsInv'
<1> SUFFICES ASSUME NEW user \in Users, InFront(user)', NEW u \in Threads, ~thread'[u].inDoubt,
                    NEW i \in DOMAIN thread'[u].todo
             PROVE  BaseFits(thread[u].todo[i], After(thread[u].todo, i), user)'
  BY DEF BaseFitsInv
<1> SUFFICES ASSUME NEW e, NEW after, e = thread'[u].todo[i], after = After(thread'[u].todo, i)
             PROVE  BaseFits(e, after, user)'
  <2>1. PICK e : e = thread'[u].todo[i]
    OBVIOUS
  <2>2. PICK after : after = After(thread'[u].todo, i)
    OBVIOUS
  <2>3. BaseFits(e, after, user)'
    BY <2>1, <2>2
  <2> QED
    BY <2>1, <2>2, <2>3 DEF BaseFits, After, About, Account, Ends, BaseAwaited, Rebases
<1>1. /\ TypeInv /\ Busy(t) /\ InFront(user) /\ foreground' = foreground /\ events' = events
      /\ foreground[user] \in Contexts
  BY DEF KeepsBase, IInv, Proceeds, InFront, environment, TypeInv, TypeOK
<1>2. ASSUME BaseFits(e, after, user),
             e.op = "base" => \A item \in DOMAIN e.values :
                                 (Entry(foreground[user])[item])' = Entry(foreground[user])[item],
             e.op = "send" => Entry(foreground[user])' = Entry(foreground[user])
      PROVE  BaseFits(e, after, user)'
  <2>1. Ends(after, user)' <=> Ends(after, user)
    BY <1>1 DEF Ends, BaseAwaited
  <2>2. BaseAwaited(user)' <=> BaseAwaited(user)
    BY <1>1 DEF BaseAwaited
  <2>3. CASE e.op = "base"
    BY <1>2, <2>1, <2>3 DEF BaseFits, Showing
  <2>4. CASE e.op = "send"
    BY <1>2, <2>1, <2>4 DEF BaseFits
  <2>5. CASE e.op \notin {"base", "send"}
    BY <1>2, <2>1, <2>2, <2>5 DEF BaseFits
  <2> QED
    BY <2>3, <2>4, <2>5
<1>3. CASE u # t /\ thread'[u] = thread[u]
  <2>1. ~thread[u].inDoubt /\ i \in DOMAIN thread[u].todo /\ e = thread[u].todo[i] /\ after = After(thread[u].todo, i)
    BY <1>3
  <2>2. e \in Effects /\ Busy(u)
    BY <1>1, <2>1, TodoType
  <2>3. thread[t].items \cap thread[u].items = {} /\ e.op \in Setting /\ ItemsOf(e) \subseteq thread[u].items
    BY <1>1, <1>3, <2>1, <2>2, ItemsApart
  <2>4. BaseFits(e, after, user)
    BY <1>1, <2>1 DEF BaseFitsInv
  <2>5. ASSUME e.op = "base", NEW item \in DOMAIN e.values
        PROVE  (Entry(foreground[user])[item])' = Entry(foreground[user])[item]
    <3>1. item \in Items /\ item \notin thread[t].items
      BY <2>2, <2>3, <2>5, EffectItems
    <3> QED
      BY <1>1, <3>1 DEF KeepsBase
  <2>6. e.op # "send"
    BY <2>3 DEF Setting
  <2> QED
    BY <1>2, <2>4, <2>5, <2>6
<1>4. CASE u = t /\ i \in DOMAIN more /\ e = more[i] /\ after = After(more, i) \cup rest
  <2>1. ~thread[t].inDoubt
    BY <1>4 DEF KeepsBase, Idle
  <2>2. BaseFits(more[i], After(more, i) \cup rest, user)'
    BY <1>4, <2>1 DEF KeepsBase
  <2>3. BaseFits(e, after, user)'
    BY <1>4, <2>2
  <2> QED
    BY <2>3
<1>5. ASSUME u = t, NEW k \in DOMAIN thread[t].todo, e = thread[t].todo[k],
             NEW old, old = Before(thread[t].todo, k), NEW head, head = Effect(t), head \in old,
             after = After(thread[t].todo, k)
      PROVE  BaseFits(e, after, user)'
  <2>1. ~thread[t].inDoubt /\ BaseShape(e, old)
    <3>1. thread'[t] # Idle
      BY <1>5 DEF Idle
    <3>2. ~thread[t].inDoubt
      BY <1>5, <3>1 DEF KeepsBase
    <3> QED
      BY <1>1, <1>5, <3>2 DEF BaseShapeInv, KeepsBase
  <2>2. ShapeFits(e, old)
    BY <1>1, <1>5 DEF SInv, ShapeInv
  <2>3. BaseFits(e, after, user)
    BY <1>1, <1>5, <2>1 DEF BaseFitsInv
  <2>4. e.op = "base" => head.op \in {"send", "configuration"}
    BY <1>5, <2>1 DEF BaseShape
  <2>5. e.op = "send" => head.op = "param"
    BY <1>5, <2>2 DEF ShapeFits
  <2>6. head.op \in {"send", "configuration", "param"} => Entry(foreground[user])' = Entry(foreground[user])
    BY <1>1, <1>5 DEF KeepsBase
  <2>7. /\ e.op = "base" => \A item \in DOMAIN e.values :
                               (Entry(foreground[user])[item])' = Entry(foreground[user])[item]
        /\ e.op = "send" => Entry(foreground[user])' = Entry(foreground[user])
    BY <2>4, <2>5, <2>6
  <2> QED
    BY <1>2, <2>3, <2>7
<1>6. CASE u = t /\ IsOld(thread[t].todo, Effect(t), more, e, Before(thread'[u].todo, i), after)
  BY <1>5, <1>6 DEF IsOld
<1> QED
  BY <1>1, <1>3, <1>4, <1>6, AfterStepToo DEF IsNew

\* What a list is going to make the base it still is, unless that was the first.
LEMMA BaseStays ==
    ASSUME NEW more \in Seq(Effects), NEW s \in Seq(Effects), s # << >>
    PROVE  /\ \A user : RebaseIn(s, user) => RebaseIn(more \o Tail(s), user) \/ Rebases(Head(s), user)
           /\ (\A j \in DOMAIN more : more[j].op # "configuration") =>
                 \A item, value : BasePending(s, item, value) =>
                    \/ BasePending(more \o Tail(s), item, value)
                    \/ Head(s).op = "base" /\ item \in DOMAIN Head(s).values
<1>0. s[1] = Head(s)
  OBVIOUS
<1> DEFINE all == more \o Tail(s)
<1>1. \A k \in DOMAIN s : k # 1 =>
         \E i \in DOMAIN all :
            /\ all[i] = s[k]
            /\ \A b \in Before(all, i) : b \in Before(s, k) \/ \E j \in DOMAIN more : b = more[j]
  BY OldStays
<1> HIDE DEF all
<1>2. ASSUME NEW user, RebaseIn(s, user)
      PROVE  RebaseIn(all, user) \/ Rebases(Head(s), user)
  <2>1. PICK k \in DOMAIN s : Rebases(s[k], user)
    BY <1>2 DEF RebaseIn
  <2>2. CASE k = 1
    BY <1>0, <2>1, <2>2
  <2>3. CASE k # 1
    <3>1. PICK i \in DOMAIN all : all[i] = s[k]
      BY <1>1, <2>3
    <3> QED
      BY <2>1, <3>1 DEF RebaseIn
  <2> QED
    BY <2>2, <2>3
<1>3. ASSUME \A j \in DOMAIN more : more[j].op # "configuration", NEW item, NEW value, BasePending(s, item, value)
      PROVE  \/ BasePending(all, item, value)
             \/ Head(s).op = "base" /\ item \in DOMAIN Head(s).values
  <2>1. PICK k \in DOMAIN s : /\ s[k].op = "base" /\ item \in DOMAIN s[k].values /\ s[k].values[item] = value
                              /\ \A b \in Before(s, k) : b.op # "configuration"
    BY <1>3 DEF BasePending
  <2>2. CASE k = 1
    BY <1>0, <2>1, <2>2
  <2>3. CASE k # 1
    <3>1. PICK i \in DOMAIN all :
             /\ all[i] = s[k]
             /\ \A b \in Before(all, i) : b \in Before(s, k) \/ \E j \in DOMAIN more : b = more[j]
      BY <1>1, <2>3
    <3>2. \A b \in Before(all, i) : b.op # "configuration"
      BY <1>3, <2>1, <3>1
    <3> QED
      BY <2>1, <3>1, <3>2 DEF BasePending
  <2> QED
    BY <2>2, <2>3
<1> QED
  BY <1>2, <1>3 DEF all

\* What handlers are about to make the base they still are.
LEMMA BaseKept ==
    ASSUME TypeInv, NEW t \in Threads, NEW more \in Seq(Effects), Proceeds(t, more),
           thread'[t].todo = more \o Tail(thread[t].todo),
           \A j \in DOMAIN more : more[j].op # "configuration"
    PROVE  /\ \A user : RebaseUnderWay(user) => RebaseUnderWay(user)' \/ Rebases(Effect(t), user)
           /\ \A item, value : (\E u \in Threads : BasePending(thread[u].todo, item, value)) =>
                 \/ \E u \in Threads : BasePending(thread'[u].todo, item, value)
                 \/ Effect(t).op = "base" /\ item \in DOMAIN Effect(t).values
<1>1. thread[t].todo \in Seq(Effects) /\ thread[t].todo # << >> /\ Effect(t) = Head(thread[t].todo)
  BY EffectType DEF Proceeds, Busy, Effect
<1>2. \A u \in Threads : u # t => thread'[u].todo = thread[u].todo
  BY DEF Proceeds
<1>3. /\ \A user : RebaseIn(thread[t].todo, user) => RebaseIn(thread'[t].todo, user) \/ Rebases(Effect(t), user)
      /\ \A item, value : BasePending(thread[t].todo, item, value) =>
            \/ BasePending(thread'[t].todo, item, value)
            \/ Effect(t).op = "base" /\ item \in DOMAIN Effect(t).values
  BY <1>1, BaseStays
<1>4. \A user : RebaseUnderWay(user) => RebaseUnderWay(user)' \/ Rebases(Effect(t), user)
  BY <1>2, <1>3 DEF RebaseUnderWay
<1>5. \A item, value : (\E u \in Threads : BasePending(thread[u].todo, item, value)) =>
                 \/ \E u \in Threads : BasePending(thread'[u].todo, item, value)
                 \/ Effect(t).op = "base" /\ item \in DOMAIN Effect(t).values
  BY <1>2, <1>3
<1> QED
  BY <1>4, <1>5

\* The base goes on following the user in front.
LEMMA BaseGoesOn ==
    ASSUME TypeInv, NEW t \in Threads, NEW more \in Seq(Effects), Proceeds(t, more),
           thread'[t].todo = more \o Tail(thread[t].todo),
           \A j \in DOMAIN more : more[j].op # "configuration",
           UNCHANGED << environment, events >>, NEW user \in Users, BaseFollows(user),
           Rebases(Effect(t), user) => BaseFollows(user)',
           \A item \in Items :
              \/ /\ baseParam'[item] = baseParam[item]
                 /\ (Entry(foreground[user])[item])' = Entry(foreground[user])[item]
                 /\ Effect(t).op \in {"base", "persist"} =>
                       item \notin DOMAIN Effect(t).values \/ ~(Effect(t).op = "base" \/ About(Effect(t)) = user)
              \/ BaseAgrees(user, item)' \/ BaseFollows(user)'
    PROVE  BaseFollows(user)'
<1>1. CASE BaseAwaited(user)
  BY <1>1 DEF BaseAwaited, BaseFollows
<1>2. CASE RebaseUnderWay(user)
  BY <1>2, BaseKept DEF BaseFollows
<1>3. CASE \A item \in Items : BaseAgrees(user, item)
  <2>1. ASSUME NEW item \in Items, ~BaseFollows(user)' PROVE BaseAgrees(user, item)'
    <3> SUFFICES ASSUME /\ baseParam'[item] = baseParam[item]
                        /\ (Entry(foreground[user])[item])' = Entry(foreground[user])[item]
                        /\ Effect(t).op \in {"base", "persist"} =>
                              \/ item \notin DOMAIN Effect(t).values
                              \/ ~(Effect(t).op = "base" \/ About(Effect(t)) = user)
                 PROVE  BaseAgrees(user, item)'
      BY <2>1
    <3>1. BaseAgrees(user, item)
      BY <1>3
    <3>2. CASE baseParam[item] = Entry(foreground[user])[item]
      BY <3>2 DEF BaseAgrees
    <3>3. CASE \E u \in Threads : PersistPending(thread[u].todo, user, item)
      <4>1. \E u \in Threads : PersistPending(thread'[u].todo, user, item)
        BY <3>3, PendingKept
      <4> QED
        BY <4>1 DEF BaseAgrees
    <3>4. CASE \E u \in Threads : BasePending(thread[u].todo, item, Entry(foreground[user])[item])
      <4> DEFINE value == Entry(foreground[user])[item]
      <4>1. value' = value
        OBVIOUS
      <4> HIDE DEF value
      <4>2. \E u \in Threads : BasePending(thread'[u].todo, item, value)
        BY <3>4, BaseKept DEF value
      <4>3. \E u \in Threads : BasePending(thread'[u].todo, item, value')
        BY <4>1, <4>2
      <4>4. \E u \in Threads : BasePending(thread'[u].todo, item, (Entry(foreground[user])[item])')
        BY <4>3 DEF value
      <4> QED
        BY <4>4 DEF BaseAgrees
    <3> QED
      BY <3>1, <3>2, <3>3, <3>4 DEF BaseAgrees
  <2> QED
    BY <2>1 DEF BaseFollows
<1> QED
  BY <1>1, <1>2, <1>3 DEF BaseFollows

\* A step of a handler.
LEMMA StepBases ==
    ASSUME IInv, SInv, BInv, NEW t \in Threads, NEW more \in Seq(Effects), NEW rest,
           rest = After(thread[t].todo, 1),
           UNCHANGED << environment, events >>, faults' \in Nat,
           faults' = 0 =>
              /\ Proceeds(t, more) /\ KeepsBase(t, more, rest)
              /\ \A user \in Users : InFront(user)' /\ IsShown(user)' => BaseFollows(user)'
    PROVE  BInv'
<1>1. SwitchedInv'
  BY DEF BInv, SwitchedInv, environment
<1>2. CASE faults' # 0
  BY <1>1, <1>2 DEF BInv, DoubtInv, BaseShapeInv, BaseFitsInv, BaseFollowInv, InFront
<1>3. CASE faults' = 0
  <2>1. Proceeds(t, more) /\ KeepsBase(t, more, rest)
    BY <1>3
  <2>2. DoubtInv' /\ BaseShapeInv'
    BY <2>1, DoubtKept, BaseShapeKept DEF BInv
  <2>3. BaseFitsInv'
    BY <2>1, BaseFitsKept DEF BInv
  <2>4. BaseFollowInv'
    BY <1>3 DEF BaseFollowInv
  <2> QED
    BY <1>1, <2>2, <2>3, <2>4 DEF BInv
<1> QED
  BY <1>2, <1>3

\* What new effects of a list are, ...
NewBases(t, more, rest) ==
    \A j \in DOMAIN more :
        /\ more[j].op # "configuration"
        /\ Effect(t).op \in Setting => more[j].op # "base"
        /\ ~thread[t].inDoubt =>
              /\ BaseShape(more[j], Before(more, j))'
              /\ \A user \in Users : InFront(user)' => BaseFits(more[j], After(more, j) \cup rest, user)'

\* ... and what a step leaves alone of the user in front.
LeavesBase(t, user) ==
    /\ Rebases(Effect(t), user) => BaseFollows(user)'
    /\ \A item \in Items :
          \/ /\ baseParam'[item] = baseParam[item]
             /\ (Entry(foreground[user])[item])' = Entry(foreground[user])[item]
             /\ Effect(t).op \in {"base", "persist"} =>
                   item \notin DOMAIN Effect(t).values \/ ~(Effect(t).op = "base" \/ About(Effect(t)) = user)
          \/ BaseAgrees(user, item)' \/ BaseFollows(user)'

\* A call that fails leaves nothing to be said of the base.
LEMMA FailedBases ==
    ASSUME BInv, faults' = faults + 1, UNCHANGED << environment, events >>
    PROVE  BInv'
<1>1. faults' \in Nat /\ faults' # 0
  BY DEF BInv
<1>2. SwitchedInv'
  BY DEF BInv, SwitchedInv, environment
<1> QED
  BY <1>1, <1>2 DEF BInv, DoubtInv, BaseShapeInv, BaseFitsInv, BaseFollowInv, InFront

\* A handler that goes on with more.
LEMMA MoreBases ==
    ASSUME IInv, SInv, BInv, NEW t \in Threads, Busy(t), NEW more \in Seq(Effects), Continue(t, more),
           NEW rest, rest = After(thread[t].todo, 1),
           UNCHANGED << environment, events, phase, faults >>,
           faults = 0 =>
              /\ NewBases(t, more, rest)
              /\ \A item \in Items : baseParam'[item] =
                    IF Effect(t).op = "base" /\ item \in DOMAIN Effect(t).values THEN Effect(t).values[item]
                    ELSE baseParam[item]
              /\ Effect(t).op \in {"send", "configuration", "param"} =>
                    DOMAIN more = {} /\ \A c \in Contexts : Entry(c)' = Entry(c)
              /\ \A item \in Items \ thread[t].items : \A c \in Contexts : (Entry(c)[item])' = Entry(c)[item]
              /\ \A user \in Users : IsShown(user)' => IsShown(user) \/ (Effect(t).op = "send" /\ ~thread[t].inDoubt)
              /\ \A user \in Users : InFront(user) /\ IsShown(user)' =>
                    BaseFollows(user)' \/ (IsShown(user) /\ LeavesBase(t, user))
    PROVE  BInv'
<1>1. TypeInv /\ faults \in Nat
  BY DEF IInv, BInv
<1>2. Proceeds(t, more) /\ thread'[t].todo = more \o Tail(thread[t].todo)
      /\ (thread'[t] # Idle => thread'[t].inDoubt = thread[t].inDoubt)
  BY <1>1, ContinueProceeds, ContinueTodo
<1>3. SUFFICES ASSUME faults = 0
               PROVE  /\ KeepsBase(t, more, rest)
                      /\ \A user \in Users : InFront(user)' /\ IsShown(user)' => BaseFollows(user)'
  BY <1>1, <1>2, StepBases
<1>4. KeepsBase(t, more, rest)
  BY <1>2, <1>3 DEF KeepsBase, NewBases
<1>5. ASSUME NEW user \in Users, InFront(user)', IsShown(user)' PROVE BaseFollows(user)'
  <2>1. InFront(user)
    BY <1>3, <1>5 DEF InFront, environment
  <2>2. CASE IsShown(user) /\ LeavesBase(t, user)
    <3>1. BaseFollows(user)
      BY <2>1, <2>2 DEF BInv, BaseFollowInv
    <3>2. \A j \in DOMAIN more : more[j].op # "configuration"
      BY <1>3 DEF NewBases
    <3> QED
      BY <1>1, <1>2, <2>2, <3>1, <3>2, BaseGoesOn DEF LeavesBase
  <2> QED
    BY <1>3, <1>5, <2>1, <2>2
<1> QED
  BY <1>4, <1>5

-----------------------------------------------------------------------------
(* The base parameters: the steps that leave them alone.                   *)

Aside == Preparing \cup {"param", "promise", "initializeIfNeeded", "initialize", "initialized"}

LEMMA AsideBases ==
    ASSUME IInv, SInv, BInv, NEW t \in Threads, Busy(t), NEW more \in Seq(Effects), Continue(t, more),
           UNCHANGED << environment, events, phase, faults, baseParam, shown >>,
           Effect(t).op \in Aside, Effect(t).op = "param" => DOMAIN more = {},
           \A j \in DOMAIN more : more[j].op \in Aside \cup {"updateForeground"},
           \A c \in Contexts : Entry(c)' = Entry(c)
    PROVE  BInv'
<1>1. PICK rest : rest = After(thread[t].todo, 1)
  OBVIOUS
<1>2. \A j \in DOMAIN more : \A b \in Before(more, j) : b.op # "configuration"
  <2>1. DOMAIN more = 1 .. Len(more) /\ Len(more) \in Nat
    BY LenProperties
  <2>2. \A j \in DOMAIN more : \A i \in 1 .. j - 1 : i \in DOMAIN more
    BY <2>1
  <2>3. \A i \in DOMAIN more : more[i].op # "configuration"
    BY DEF Aside, Preparing
  <2> QED
    BY <2>2, <2>3 DEF Before
<1>3. NewBases(t, more, rest)
  BY <1>2 DEF NewBases, BaseShape, BaseFits, Aside, Preparing, Setting, Showing
<1>4. \A user \in Users : InFront(user) /\ IsShown(user)' => IsShown(user) /\ LeavesBase(t, user)
  <2> SUFFICES ASSUME NEW user \in Users, IsShown(user)' PROVE IsShown(user) /\ LeavesBase(t, user)
    OBVIOUS
  <2>1. foreground[user] \in Contexts /\ foreground' = foreground
    BY DEF IInv, TypeInv, TypeOK, environment
  <2>2. ~Rebases(Effect(t), user) /\ Effect(t).op \notin {"base", "persist"}
    BY DEF Rebases, Aside, Preparing
  <2>3. IsShown(user)
    BY DEF IsShown
  <2> QED
    BY <2>1, <2>2, <2>3 DEF LeavesBase
<1>5. Effect(t).op \notin {"base", "send", "configuration"}
  BY DEF Aside, Preparing
<1>6. \A user \in Users : IsShown(user)' => IsShown(user)
  BY DEF IsShown
<1> QED
  BY <1>1, <1>3, <1>4, <1>5, <1>6, MoreBases

\* A handler that is done with such an effect.
LEMMA AsideDone ==
    ASSUME IInv, SInv, BInv, NEW t \in Threads, Busy(t), Continue(t, << >>),
           UNCHANGED << environment, events, phase, faults, baseParam, shown >>,
           Effect(t).op \in Aside, \A c \in Contexts : Entry(c)' = Entry(c)
    PROVE  BInv'
<1>1. PICK more \in Seq(Effects) : more = << >> /\ DOMAIN more = {}
  BY NoEffects
<1> QED
  BY <1>1, AsideBases

LEMMA SetContextParamBases ==
    ASSUME IInv, SInv, BInv, NEW t \in Threads, SetContextParam(t)
    PROVE  BInv'
<1>1. Busy(t) /\ Effect(t).op = "param"
  BY DEF SetContextParam, Doing, Effect
<1>2. UNCHANGED << environment, baseParam, usersParam, flags, events >>
  BY DEF SetContextParam
<1>3. CASE faults' = faults + 1
  BY <1>2, <1>3, FailedBases
<1>4. CASE Continue(t, << >>) /\ UNCHANGED << faults, history >>
  BY <1>1, <1>2, <1>4, AsideDone DEF Aside, Entry, flags, history
<1> QED
  BY <1>3, <1>4 DEF SetContextParam, Fails

LEMMA PromiseBases ==
    ASSUME IInv, SInv, BInv, NEW t \in Threads, Promise(t)
    PROVE  BInv'
<1>1. Busy(t) /\ Effect(t).op = "promise" /\ Continue(t, << >>)
  BY DEF Promise, Doing, Effect
<1>2. UNCHANGED << environment, persistent, usersParam, flags, events, faults, shown >>
  BY DEF Promise
<1> QED
  BY <1>1, <1>2, AsideDone DEF Aside, Entry, flags, persistent

LEMMA UpgradeIfNeededBases ==
    ASSUME IInv, SInv, BInv, NEW t \in Threads, UpgradeIfNeeded(t)
    PROVE  BInv'
<1>1. Busy(t) /\ Effect(t).op = "upgradeIfNeeded"
  BY DEF UpgradeIfNeeded, Doing, Effect
<1>2. UNCHANGED << environment, persistent, usersParam, flags, events, shown >>
  BY DEF UpgradeIfNeeded
<1>3. CASE faults' = faults + 1
  BY <1>2, <1>3, FailedBases
<1>4. CASE UNCHANGED faults /\ Continue(t, << >>)
  BY <1>1, <1>2, <1>4, AsideDone DEF Aside, Preparing, Entry, flags, persistent
<1>5. CASE UNCHANGED faults /\ Continue(t, << [op |-> "compatible"] >>)
  <2>1. PICK f \in Effects : f = [op |-> "compatible"] /\ f.op = "compatible"
    <3>1. [op |-> "compatible"] \in Effects
      BY DEF Effects
    <3> QED
      BY <3>1
  <2>2. PICK more \in Seq(Effects) : more = << f >> /\ DOMAIN more = {1} /\ more[1] = f
    <3>1. << f >> \in Seq(Effects) /\ DOMAIN << f >> = {1} /\ << f >>[1] = f
      BY <2>1, OneEffect
    <3> QED
      BY <3>1, Zenon
  <2>3. Continue(t, more)
    BY <1>5, <2>1, <2>2
  <2>4. \A j \in DOMAIN more : more[j].op = "compatible"
    BY <2>1, <2>2
  <2> QED
    BY <1>1, <1>2, <1>5, <2>3, <2>4, AsideBases DEF Aside, Preparing, Entry, flags, persistent
<1> QED
  BY <1>3, <1>4, <1>5 DEF UpgradeIfNeeded, Fails

LEMMA InitializeIfNeededBases ==
    ASSUME IInv, SInv, BInv, NEW t \in Threads, InitializeIfNeeded(t)
    PROVE  BInv'
<1>1. Busy(t) /\ Effect(t).op = "initializeIfNeeded"
  BY DEF InitializeIfNeeded, Doing, Effect
<1>2. UNCHANGED << environment, persistent, usersParam, flags, events, shown >>
  BY DEF InitializeIfNeeded
<1>3. CASE faults' = faults + 1
  BY <1>2, <1>3, FailedBases
<1>4. CASE UNCHANGED faults /\ Continue(t, << >>)
  BY <1>1, <1>2, <1>4, AsideDone DEF Aside, Preparing, Entry, flags, persistent
<1>5. CASE UNCHANGED faults /\ Continue(t, << [op |-> "initialize"], [op |-> "updateForeground"] >>)
  <2>1. PICK f \in Effects, g \in Effects :
           /\ f = [op |-> "initialize"] /\ f.op = "initialize"
           /\ g = [op |-> "updateForeground"] /\ g.op = "updateForeground"
    <3>1. [op |-> "initialize"] \in Effects /\ [op |-> "updateForeground"] \in Effects
      BY DEF Effects
    <3> QED
      BY <3>1
  <2>2. PICK more \in Seq(Effects) : more = << f, g >> /\ DOMAIN more = {1, 2} /\ more[1] = f /\ more[2] = g
    <3>1. /\ << f, g >> \in Seq(Effects) /\ DOMAIN << f, g >> = {1, 2}
          /\ << f, g >>[1] = f /\ << f, g >>[2] = g
      BY <2>1, TwoEffects
    <3> QED
      BY <3>1, Zenon
  <2>3. Continue(t, more)
    BY <1>5, <2>1, <2>2
  <2>4. \A j \in DOMAIN more : more[j].op \in {"initialize", "updateForeground"}
    BY <2>1, <2>2
  <2> QED
    BY <1>1, <1>2, <1>5, <2>3, <2>4, AsideBases DEF Aside, Preparing, Entry, flags, persistent
<1> QED
  BY <1>3, <1>4, <1>5 DEF InitializeIfNeeded, Fails

LEMMA GetOldParamBases ==
    ASSUME IInv, SInv, BInv, NEW t \in Threads, GetOldParam(t)
    PROVE  BInv'
<1>1. Busy(t) /\ Effect(t).op = "carry"
  BY DEF GetOldParam, Doing, Effect
<1>2. UNCHANGED << environment, persistent, usersParam, flags, events, faults, history >>
  BY DEF GetOldParam
<1>3. PICK more \in Seq(Effects) : Continue(t, more) /\ \A i \in DOMAIN more : more[i].op = "carryTo"
  BY GetOldParamList
<1> QED
  BY <1>1, <1>2, <1>3, AsideBases DEF Aside, Preparing, Entry, flags, persistent, history

LEMMA DoCompatibleProcessBases ==
    ASSUME IInv, SInv, BInv, NEW t \in Threads, DoCompatibleProcess(t)
    PROVE  BInv'
<1>1. Busy(t) /\ Effect(t).op = "compatible"
  BY DEF DoCompatibleProcess, Doing, Effect
<1>2. UNCHANGED << environment, persistent, usersParam, flags, events, shown >>
  BY DEF DoCompatibleProcess
<1>3. PICK more \in Seq(Effects) :
         Continue(t, more) /\ \A i \in DOMAIN more : more[i].op \in {"carry", "carried"}
  BY DoCompatibleProcessList
<1>4. CASE faults' = faults + 1
  BY <1>2, <1>4, FailedBases
<1>5. CASE UNCHANGED faults
  BY <1>1, <1>2, <1>3, <1>5, AsideBases DEF Aside, Preparing, Entry, flags, persistent
<1> QED
  BY <1>4, <1>5 DEF DoCompatibleProcess, Fails

LEMMA CarryToBases ==
    ASSUME IInv, SInv, BInv, NEW t \in Threads, CarryTo(t)
    PROVE  BInv'
<1>1. Busy(t) /\ Effect(t).op = "carryTo" /\ Continue(t, << >>)
  BY DEF CarryTo, Doing, Effect
<1>2. UNCHANGED << environment, baseParam, usersParam, flags, events, shown >>
  BY DEF CarryTo
<1>3. CASE faults' = faults + 1
  BY <1>2, <1>3, FailedBases
<1>4. CASE UNCHANGED faults
  BY <1>1, <1>2, <1>4, AsideDone DEF Aside, Preparing, Entry, flags
<1> QED
  BY <1>3, <1>4 DEF CarryTo, Fails

LEMMA CarriedBases ==
    ASSUME IInv, SInv, BInv, NEW t \in Threads, Carried(t)
    PROVE  BInv'
<1>1. Busy(t) /\ Effect(t).op = "carried" /\ Continue(t, << >>)
  BY DEF Carried, Doing, Effect
<1>2. UNCHANGED << environment, baseParam, usersParam, phase, events, history >>
  BY DEF Carried
<1>3. CASE faults' = faults + 1
  BY <1>2, <1>3, FailedBases
<1>4. CASE UNCHANGED faults
  BY <1>1, <1>2, <1>4, AsideDone DEF Aside, Preparing, Entry, history
<1> QED
  BY <1>3, <1>4 DEF Carried, Fails

LEMMA DoInitProcessBases ==
    ASSUME IInv, SInv, BInv, NEW t \in Threads, DoInitProcess(t)
    PROVE  BInv'
<1>1. Busy(t) /\ Effect(t).op = "initialize"
  BY DEF DoInitProcess, Doing, Effect
<1>2. UNCHANGED << environment, persistent, usersParam, flags, events, shown >>
  BY DEF DoInitProcess
<1>3. PICK more \in Seq(Effects) :
         Continue(t, more) /\ \A i \in DOMAIN more : more[i].op \in {"initContext", "initialized"}
  BY DoInitProcessList
<1>4. CASE faults' = faults + 1
  BY <1>2, <1>4, FailedBases
<1>5. CASE UNCHANGED faults
  BY <1>1, <1>2, <1>3, <1>5, AsideBases DEF Aside, Preparing, Entry, flags, persistent
<1> QED
  BY <1>4, <1>5 DEF DoInitProcess, Fails

LEMMA InitializedBases ==
    ASSUME IInv, SInv, BInv, NEW t \in Threads, Initialized(t)
    PROVE  BInv'
<1>1. Busy(t) /\ Effect(t).op = "initialized" /\ Continue(t, << >>)
  BY DEF Initialized, Doing, Effect
<1>2. UNCHANGED << environment, persistent, usersParam, phase, events, faults, history >>
  BY DEF Initialized
<1> QED
  BY <1>1, <1>2, AsideDone DEF Aside, Entry, persistent, history

-----------------------------------------------------------------------------
(* The base parameters: the handlers of settings.                          *)

\* What waits for a configuration does not count as pending.
LEMMA ConfigurationFirst ==
    ASSUME NEW s \in Seq(Effects), s # << >>, Head(s).op = "configuration"
    PROVE  /\ \A user, item : ~PersistPending(s, user, item)
           /\ \A item, value : ~BasePending(s, item, value)
           /\ \A i \in DOMAIN s : s[i].op # "configuration" => Head(s) \in Before(s, i)
<1>1. /\ Head(s) = s[1] /\ DOMAIN s = 1 .. Len(s) /\ Len(s) \in Nat
      /\ \A i \in 2 .. Len(s) : Head(s) \in Before(s, i)
  BY FirstAndRest
<1>2. \A i \in DOMAIN s : s[i].op # "configuration" => Head(s) \in Before(s, i)
  <2> SUFFICES ASSUME NEW i \in DOMAIN s, s[i].op # "configuration" PROVE Head(s) \in Before(s, i)
    OBVIOUS
  <2>1. i # 1
    BY <1>1
  <2>2. i \in 2 .. Len(s)
    BY <1>1, <2>1
  <2> QED
    BY <1>1, <2>2
<1>3. \A user, item : ~PersistPending(s, user, item)
  BY <1>2 DEF PersistPending
<1>4. \A item, value : ~BasePending(s, item, value)
  BY <1>2 DEF BasePending
<1> QED
  BY <1>2, <1>3, <1>4

\* Who sees something is served by handlers without doubts.
LEMMA ShownWithoutDoubt ==
    ASSUME BInv, faults = 0, NEW user \in Users, IsShown(user), NEW t \in Threads, Busy(t)
    PROVE  ~thread[t].inDoubt
BY DEF BInv, DoubtInv, NoneShown

LEMMA UpdateConfigurationBases ==
    ASSUME IInv, SInv, BInv, NEW t \in Threads, UpdateConfiguration(t)
    PROVE  BInv'
<1>1. PICK e : e = Effect(t) /\ e.op = "configuration" /\ Busy(t)
  BY DEF UpdateConfiguration, Doing, Effect
<1>2. UNCHANGED << environment, persistent, usersParam, flags, events, history >>
  BY DEF UpdateConfiguration
<1>3. PICK more \in Seq(Effects) : more = << >> /\ DOMAIN more = {}
  BY NoEffects
<1>4. PICK rest : rest = After(thread[t].todo, 1)
  OBVIOUS
<1>5. /\ UNCHANGED << phase, shown, baseParam >> /\ foreground' = foreground
      /\ \A c \in Contexts : Entry(c)' = Entry(c)
      /\ \A user \in Users : foreground[user] \in Contexts
      /\ \A user \in Users : IsShown(user)' <=> IsShown(user)
  BY <1>2 DEF flags, history, persistent, Entry, IInv, TypeInv, TypeOK, environment, IsShown
<1>6. CASE faults' = faults + 1
  BY <1>2, <1>6, FailedBases
<1>7. CASE UNCHANGED faults /\ Continue(t, << >>)
  <2>1. Continue(t, more)
    BY <1>3, <1>7
  <2>2. NewBases(t, more, rest)
    BY <1>3 DEF NewBases
  <2>3. \A user \in Users : LeavesBase(t, user)
    BY <1>1, <1>5 DEF LeavesBase, Rebases
  <2> QED
    BY <1>1, <1>2, <1>3, <1>4, <1>5, <1>7, <2>1, <2>2, <2>3, MoreBases
<1>8. CASE UNCHANGED faults /\ Return(t)
  <2>1. Proceeds(t, more) /\ thread'[t] = Idle
    BY <1>1, <1>3, <1>8, ReturnProceeds DEF IInv
  <2>2. SUFFICES ASSUME faults = 0
                 PROVE  /\ KeepsBase(t, more, rest)
                        /\ \A user \in Users : InFront(user)' /\ IsShown(user)' => BaseFollows(user)'
    BY <1>2, <1>4, <1>8, <2>1, StepBases DEF BInv
  <2>3. KeepsBase(t, more, rest)
    BY <1>1, <1>2, <1>3, <1>5, <1>8, <2>1, <2>2 DEF KeepsBase
  <2>4. ASSUME NEW user \in Users, InFront(user)', IsShown(user)' PROVE BaseFollows(user)'
    <3>1. InFront(user) /\ IsShown(user) /\ ~thread[t].inDoubt
      BY <1>1, <1>2, <1>5, <2>2, <2>4, ShownWithoutDoubt DEF InFront, environment
    <3>2. BaseFollows(user)
      BY <3>1 DEF BInv, BaseFollowInv
    <3>3. /\ thread[t].todo \in Seq(Effects) /\ thread[t].todo # << >>
          /\ e = Head(thread[t].todo) /\ thread[t].todo[1] = e
      BY <1>1, EffectType DEF IInv, Busy, Effect
    <3>4. \A i \in DOMAIN thread[t].todo : ~Rebases(thread[t].todo[i], user)
      <4> SUFFICES ASSUME NEW i \in DOMAIN thread[t].todo, Rebases(thread[t].todo[i], user) PROVE FALSE
        OBVIOUS
      <4>1. thread[t].todo[i].op \notin Setting /\ thread[t].todo[i].op # "configuration"
        BY DEF Rebases, Setting
      <4>2. e \in Before(thread[t].todo, i)
        BY <1>1, <3>3, <4>1, ConfigurationFirst
      <4> QED
        BY <1>1, <2>2, <3>1, <4>1, <4>2 DEF BInv, BaseShapeInv, BaseShape
    <3>5. \A u \in Threads : u # t => thread'[u] = thread[u]
      BY <2>1 DEF Proceeds
    <3>6. CASE BaseAwaited(user)
      BY <1>2, <3>6 DEF BaseAwaited, BaseFollows
    <3>7. CASE RebaseUnderWay(user)
      BY <3>4, <3>5, <3>7 DEF RebaseUnderWay, RebaseIn, BaseFollows
    <3>8. CASE \A item \in Items : BaseAgrees(user, item)
      <4>1. /\ \A item : ~PersistPending(thread[t].todo, user, item)
            /\ \A item, value : ~BasePending(thread[t].todo, item, value)
        BY <1>1, <3>3, ConfigurationFirst
      <4>2. ASSUME NEW item \in Items PROVE BaseAgrees(user, item)'
        <5>1. BaseAgrees(user, item) /\ (Entry(foreground[user])[item])' = Entry(foreground[user])[item]
          BY <1>5, <3>8
        <5>2. CASE baseParam[item] = Entry(foreground[user])[item]
          BY <1>5, <5>1, <5>2 DEF BaseAgrees
        <5>3. ASSUME NEW u \in Threads, PersistPending(thread[u].todo, user, item)
              PROVE  BaseAgrees(user, item)'
          <6>1. PersistPending(thread'[u].todo, user, item)
            BY <3>5, <4>1, <5>3
          <6> QED
            BY <6>1 DEF BaseAgrees
        <5>4. ASSUME NEW u \in Threads, BasePending(thread[u].todo, item, Entry(foreground[user])[item])
              PROVE  BaseAgrees(user, item)'
          <6>1. BasePending(thread'[u].todo, item, (Entry(foreground[user])[item])')
            BY <3>5, <4>1, <5>1, <5>4
          <6> QED
            BY <6>1 DEF BaseAgrees
        <5> QED
          BY <5>1, <5>2, <5>3, <5>4 DEF BaseAgrees
      <4> QED
        BY <4>2 DEF BaseFollows
    <3> QED
      BY <3>2, <3>6, <3>7, <3>8 DEF BaseFollows
  <2> QED
    BY <2>3, <2>4
<1> QED
  BY <1>6, <1>7, <1>8 DEF UpdateConfiguration, AppMgrFails, Fails

\* The first effect of a handler without doubts.
LEMMA HeadBases ==
    ASSUME IInv, BInv, faults = 0, NEW t \in Threads, Busy(t), ~thread[t].inDoubt
    PROVE  /\ BaseShape(Effect(t), {})
           /\ \A user \in Users : InFront(user) => BaseFits(Effect(t), After(thread[t].todo, 1), user)
<1>1. 1 \in DOMAIN thread[t].todo /\ Effect(t) = thread[t].todo[1] /\ Before(thread[t].todo, 1) = {}
  BY EffectType DEF IInv
<1> QED
  BY <1>1 DEF BInv, BaseShapeInv, BaseFitsInv

\* Only the first effect of a handler is a configuration.
LEMMA NoConfiguration ==
    ASSUME IInv, SInv, NEW t \in Threads, Busy(t), Effect(t).op # "configuration"
    PROVE  \A k \in DOMAIN thread[t].todo : /\ thread[t].todo[k].op # "configuration"
                                            /\ \A b \in Before(thread[t].todo, k) : b.op # "configuration"
<1>1. /\ thread[t].todo \in Seq(Effects) /\ thread[t].todo # << >>
      /\ Effect(t) = Head(thread[t].todo) /\ Effect(t) = thread[t].todo[1]
  BY EffectType DEF IInv, Busy, Effect
<1> DEFINE s == thread[t].todo
<1>2. DOMAIN s = 1 .. Len(s) /\ Len(s) \in Nat /\ \A i \in 2 .. Len(s) : Effect(t) \in Before(s, i)
  BY <1>1, FirstAndRest
<1>3. \A i \in DOMAIN s : s[i].op = "configuration" => Before(s, i) = {}
  BY DEF SInv, ShapeInv, ShapeFits
<1> HIDE DEF s
<1>4. \A i \in DOMAIN s : s[i].op # "configuration"
  <2> SUFFICES ASSUME NEW i \in DOMAIN s, s[i].op = "configuration" PROVE FALSE
    OBVIOUS
  <2>1. i \in 2 .. Len(s)
    BY <1>1, <1>2 DEF s
  <2> QED
    BY <1>2, <1>3, <2>1
<1>5. \A i \in DOMAIN s : \A b \in Before(s, i) : \E j \in DOMAIN s : b = s[j]
  BY <1>2 DEF Before
<1> QED
  BY <1>4, <1>5 DEF s

\* What comes after the first stays.
LEMMA RestStays ==
    ASSUME IInv, SInv, NEW t \in Threads, Busy(t), Effect(t).op # "configuration",
           NEW more \in Seq(Effects), \A j \in DOMAIN more : more[j].op # "configuration",
           Continue(t, more), NEW a \in After(thread[t].todo, 1)
    PROVE  /\ \E i \in DOMAIN thread'[t].todo :
                 /\ thread'[t].todo[i] = a
                 /\ \A b \in Before(thread'[t].todo, i) : b.op # "configuration"
           /\ \E k \in DOMAIN thread[t].todo : thread[t].todo[k] = a
<1> DEFINE s == thread[t].todo
           all == more \o Tail(s)
<1>1. s \in Seq(Effects) /\ s # << >> /\ thread'[t].todo = all
  BY EffectType, ContinueTodo DEF IInv, Busy
<1>2. DOMAIN s = 1 .. Len(s) /\ Len(s) \in Nat
  BY <1>1, FirstAndRest
<1>3. \A k \in DOMAIN s : k # 1 =>
         \E i \in DOMAIN all :
            /\ all[i] = s[k]
            /\ \A b \in Before(all, i) : b \in Before(s, k) \/ \E j \in DOMAIN more : b = more[j]
  BY <1>1, OldStays
<1>4. \A k \in DOMAIN s : \A b \in Before(s, k) : b.op # "configuration"
  BY NoConfiguration
<1>5. PICK k \in 1 + 1 .. Len(s) : a = s[k]
  BY DEF After
<1>6. k \in DOMAIN s /\ k # 1
  BY <1>2, <1>5
<1> HIDE DEF all, s
<1>7. PICK i \in DOMAIN all :
         /\ all[i] = s[k]
         /\ \A b \in Before(all, i) : b \in Before(s, k) \/ \E j \in DOMAIN more : b = more[j]
  BY <1>3, <1>6
<1>8. \A b \in Before(all, i) : b.op # "configuration"
  BY <1>4, <1>6, <1>7
<1>9. \E i1 \in DOMAIN thread'[t].todo : /\ thread'[t].todo[i1] = a
                                         /\ \A b \in Before(thread'[t].todo, i1) : b.op # "configuration"
  BY <1>1, <1>5, <1>7, <1>8
<1> QED
  BY <1>5, <1>6, <1>9 DEF s

\* What is going to end in another account becoming the base.
LEMMA EndsFollow ==
    ASSUME IInv, SInv, NEW t \in Threads, Busy(t), Effect(t).op # "configuration",
           NEW more \in Seq(Effects), \A j \in DOMAIN more : more[j].op # "configuration",
           Continue(t, more), events' = events, NEW user, Ends(After(thread[t].todo, 1), user)
    PROVE  BaseFollows(user)'
<1>1. CASE BaseAwaited(user)
  BY <1>1 DEF BaseAwaited, BaseFollows
<1>2. CASE \E a \in After(thread[t].todo, 1) : Rebases(a, user)
  <2>1. \E i \in DOMAIN thread'[t].todo : Rebases(thread'[t].todo[i], user)
    BY <1>2, RestStays
  <2> QED
    BY <2>1 DEF BaseFollows, RebaseUnderWay, RebaseIn
<1> QED
  BY <1>1, <1>2 DEF Ends

LEMMA SetBaseParamBases ==
    ASSUME IInv, SInv, BInv, NEW t \in Threads, SetBaseParam(t)
    PROVE  BInv'
<1>1. PICK e \in Effects : e = Effect(t) /\ e.op = "base" /\ Busy(t) /\ Continue(t, << >>)
  BY HeadFits DEF SetBaseParam, Doing, Effect
<1>2. UNCHANGED << environment, usersParam, flags, events, shown >>
  BY DEF SetBaseParam
<1>3. PICK more \in Seq(Effects) : more = << >> /\ DOMAIN more = {} /\ Continue(t, more)
  BY <1>1, NoEffects
<1>4. PICK rest : rest = After(thread[t].todo, 1)
  OBVIOUS
<1>5. /\ UNCHANGED phase /\ foreground' = foreground
      /\ \A c \in Contexts : Entry(c)' = Entry(c)
      /\ \A user \in Users : foreground[user] \in Contexts
      /\ \A user \in Users : IsShown(user)' <=> IsShown(user)
  BY <1>2 DEF flags, Entry, IInv, TypeInv, TypeOK, environment, IsShown
<1>6. CASE faults' = faults + 1
  BY <1>2, <1>6, FailedBases
<1>7. CASE UNCHANGED faults /\ baseParam' = Updated(baseParam, e.values, DOMAIN e.values)
  <2>1. \A item \in Items : baseParam'[item] = IF item \in DOMAIN e.values THEN e.values[item] ELSE baseParam[item]
    BY <1>7, UpdatedFields
  <2>2. NewBases(t, more, rest)
    BY <1>3 DEF NewBases
  <2>3. ASSUME faults = 0, NEW user \in Users, InFront(user), IsShown(user)
        PROVE  LeavesBase(t, user)
    <3>1. ~thread[t].inDoubt
      BY <1>1, <2>3, ShownWithoutDoubt
    <3>2. BaseFits(e, rest, user)
      BY <1>1, <1>4, <2>3, <3>1, HeadBases
    <3>3. CASE Ends(rest, user)
      <4>1. BaseFollows(user)'
        BY <1>1, <1>2, <1>3, <1>4, <3>3, EndsFollow
      <4> QED
        BY <4>1 DEF LeavesBase
    <3>4. CASE ~Ends(rest, user)
      <4>1. ASSUME NEW item \in Items, item \in DOMAIN e.values PROVE BaseAgrees(user, item)'
        <5>1. \/ e.values[item] = Entry(foreground[user])[item]
              \/ \E a \in rest : a.op = "persist" /\ item \in DOMAIN a.values
          BY <1>1, <3>2, <3>4, <4>1 DEF BaseFits
        <5>2. CASE e.values[item] = Entry(foreground[user])[item]
          <6>1. baseParam'[item] = (Entry(foreground[user])[item])'
            BY <1>5, <2>1, <4>1, <5>2
          <6> QED
            BY <6>1 DEF BaseAgrees
        <5>3. ASSUME NEW a \in rest, a.op = "persist", item \in DOMAIN a.values PROVE BaseAgrees(user, item)'
          <6>1. /\ \E i \in DOMAIN thread'[t].todo :
                      /\ thread'[t].todo[i] = a
                      /\ \A b \in Before(thread'[t].todo, i) : b.op # "configuration"
                /\ \E k \in DOMAIN thread[t].todo : thread[t].todo[k] = a
            BY <1>1, <1>3, <1>4, <5>3, RestStays
          <6>2. PICK k \in DOMAIN thread[t].todo : thread[t].todo[k] = a
            BY <6>1
          <6>3. BaseFits(a, After(thread[t].todo, k), user)
            BY <2>3, <3>1, <6>2 DEF BInv, BaseFitsInv
          <6>4. About(a) = user
            BY <3>4, <5>3, <6>3 DEF BaseFits, Ends
          <6>5. PersistPending(thread'[t].todo, user, item)
            BY <5>3, <6>1, <6>4 DEF PersistPending
          <6> QED
            BY <6>5 DEF BaseAgrees
        <5> QED
          BY <5>1, <5>2, <5>3
      <4>2. ASSUME NEW item \in Items, item \notin DOMAIN e.values
            PROVE  baseParam'[item] = baseParam[item] /\ (Entry(foreground[user])[item])' = Entry(foreground[user])[item]
        BY <1>5, <2>1, <4>2
      <4>3. ~Rebases(e, user)
        BY <1>1 DEF Rebases
      <4> QED
        BY <1>1, <4>1, <4>2, <4>3 DEF LeavesBase
    <3> QED
      BY <3>3, <3>4
  <2> QED
    BY <1>1, <1>2, <1>3, <1>4, <1>5, <1>7, <2>1, <2>2, <2>3, MoreBases
<1> QED
  BY <1>1, <1>6, <1>7 DEF SetBaseParam, Fails

LEMMA ConfigurePersistenceBases ==
    ASSUME IInv, SInv, BInv, NEW t \in Threads, ConfigurePersistence(t)
    PROVE  BInv'
<1>1. PICK e \in Effects : e = Effect(t) /\ e.op = "persist" /\ Busy(t)
  BY HeadFits DEF ConfigurePersistence, Doing, Effect
<1>2. PICK values \in PartialParams : values = e.values
  BY <1>1, EffectFields
<1>3. DOMAIN values \subseteq Items /\ DOMAIN values \subseteq thread[t].items
  BY <1>1, <1>2, HeadFits, PartialFields DEF ItemsOf
<1>4. PICK context : context = IF "user" \in DOMAIN e THEN foreground[e.user] ELSE e.context
  OBVIOUS
<1>5. \A user \in Users : foreground[user] \in Contexts /\ foreground[user].userId = user
  BY DEF IInv, TypeInv, TypeOK
<1>6. context \in Contexts /\ About(e) = context.userId
  <2>1. IF "user" \in DOMAIN e THEN e.user \in Users ELSE e.context \in Contexts
    BY <1>1, EffectFields
  <2> QED
    BY <1>4, <1>5, <2>1 DEF About
<1>7. PICK entry : entry = Updated(Entry(context), values, DOMAIN values)
  OBVIOUS
<1>8. \A item \in Items : entry[item] = IF item \in DOMAIN values THEN values[item] ELSE Entry(context)[item]
  BY <1>7, UpdatedFields
<1>9. EntrySet(context, entry)
  BY <1>1, <1>2, <1>4, <1>7 DEF ConfigurePersistence
<1>10. \A c : Entry(c)' = IF c = context THEN entry ELSE Entry(c)
  BY <1>9, EntryAfter
<1>11. UNCHANGED << environment, persistent, flags, events, faults, shown >>
  BY DEF ConfigurePersistence
<1>12. UNCHANGED << environment, events, phase, faults, baseParam, foreground, shown >>
  BY <1>11 DEF flags, persistent, environment
<1>13. PICK f \in Effects, g \in Effects :
          /\ f = [op |-> "param", context |-> context, values |-> values, must |-> e.must]
          /\ g = [op |-> "promise", context |-> context, values |-> values]
          /\ f.op = "param" /\ f.context = context /\ f.values = values /\ g.op = "promise"
  <2>1. e.must \in BOOLEAN
    BY <1>1, EffectFields
  <2>2. [op |-> "param", context |-> context, values |-> values, must |-> e.must]
           \in [op : {"param"}, context : Contexts, values : PartialParams, must : BOOLEAN]
    BY <1>6, <2>1
  <2>3. [op |-> "promise", context |-> context, values |-> values]
           \in [op : {"promise"}, context : Contexts, values : PartialParams]
    BY <1>6
  <2>4. /\ [op |-> "param", context |-> context, values |-> values, must |-> e.must] \in Effects
        /\ [op |-> "promise", context |-> context, values |-> values] \in Effects
    BY <2>2, <2>3 DEF Effects
  <2> QED
    BY <2>4
<1>14. PICK more \in Seq(Effects) : /\ more = << f, g >> /\ DOMAIN more = {1, 2} /\ more[1] = f /\ more[2] = g
                                    /\ Before(more, 1) = {} /\ Before(more, 2) = {f}
  <2>1. f \in Effects /\ g \in Effects
    BY <1>13
  <2>2. /\ << f, g >> \in Seq(Effects) /\ DOMAIN << f, g >> = {1, 2}
        /\ << f, g >>[1] = f /\ << f, g >>[2] = g
        /\ Before(<< f, g >>, 1) = {} /\ Before(<< f, g >>, 2) = {f}
    BY <2>1, TwoEffects
  <2> QED
    BY <2>2, Zenon
<1>15. Continue(t, more)
  BY <1>1, <1>2, <1>4, <1>13, <1>14 DEF ConfigurePersistence
<1>16. PICK rest : rest = After(thread[t].todo, 1)
  OBVIOUS
<1>17. \A j \in DOMAIN more : more[j].op \in {"param", "promise"}
  BY <1>13, <1>14
<1>18. NewBases(t, more, rest)
  BY <1>17 DEF NewBases, BaseShape, BaseFits, Setting, Showing
<1>19. \A item \in Items \ thread[t].items : \A c \in Contexts : (Entry(c)[item])' = Entry(c)[item]
  BY <1>3, <1>8, <1>10
<1>20. ShownFits(e, {}, thread[t].inDoubt)
  BY <1>1, HeadShows
<1>21. ASSUME faults = 0, NEW user \in Users, InFront(user), IsShown(user)
       PROVE  LeavesBase(t, user)
  <2>1. ~thread[t].inDoubt
    BY <1>1, <1>21, ShownWithoutDoubt
  <2>2. BaseShape(e, {})
    BY <1>1, <1>21, <2>1, HeadBases
  <2>3. PICK c \in Contexts : c = foreground[user] /\ c.userId = user
    BY <1>5
  <2>4. \A item \in Items : (Entry(foreground[user])[item])' = Entry(c)'[item]
    BY <1>12, <2>3 DEF Entry
  <2>5. ~Rebases(e, user)
    BY <1>1 DEF Rebases
  <2>6. CASE Awaited(user)
    <3>1. BaseAwaited(user)'
      BY <1>12, <2>6 DEF Awaited, BaseAwaited
    <3> QED
      BY <3>1 DEF LeavesBase, BaseFollows
  <2>7. CASE ~Awaited(user)
    <3>1. About(e) = user => context = c
      <4>1. SUFFICES ASSUME About(e) = user, "user" \notin DOMAIN e PROVE context = c
        BY <1>1, <1>4, <2>3 DEF About
      <4>2. Current(e.context)
        BY <1>1, <1>20, <1>21, <4>1 DEF ShownFits
      <4> QED
        BY <1>4, <1>6, <2>3, <2>7, <4>1, <4>2 DEF Current
    <3>2. ASSUME NEW item \in Items, context = c, item \in DOMAIN values PROVE BaseAgrees(user, item)'
      <4>1. baseParam[item] = values[item]
        BY <1>1, <1>2, <2>2, <3>2 DEF BaseShape
      <4>2. Entry(c)'[item] = values[item]
        BY <1>8, <1>10, <3>2
      <4>3. baseParam'[item] = (Entry(foreground[user])[item])'
        BY <1>12, <2>4, <4>1, <4>2
      <4> QED
        BY <4>3 DEF BaseAgrees
    <3>3. ASSUME NEW item \in Items, ~(context = c /\ item \in DOMAIN values)
          PROVE  /\ baseParam'[item] = baseParam[item]
                 /\ (Entry(foreground[user])[item])' = Entry(foreground[user])[item]
                 /\ item \notin DOMAIN e.values \/ About(e) # user
      <4>1. Entry(c)'[item] = Entry(c)[item]
        BY <1>8, <1>10, <3>3
      <4> QED
        BY <1>2, <1>12, <2>3, <2>4, <3>1, <3>3, <4>1
    <3> QED
      BY <1>1, <2>5, <3>2, <3>3 DEF LeavesBase
  <2> QED
    BY <2>6, <2>7
<1>22. Effect(t).op = "persist" /\ \A user \in Users : IsShown(user)' <=> IsShown(user)
  BY <1>1, <1>12 DEF IsShown
<1> QED
  BY <1>1, <1>12, <1>15, <1>16, <1>18, <1>19, <1>21, <1>22, MoreBases

-----------------------------------------------------------------------------
(* The base parameters: the switch of accounts.                            *)

LEMMA InitContextBases ==
    ASSUME IInv, SInv, BInv, NEW t \in Threads, InitContext(t)
    PROVE  BInv'
<1>1. PICK e \in Effects : e = Effect(t) /\ e.op = "initContext" /\ Busy(t) /\ Continue(t, << >>)
  BY HeadFits DEF InitContext, Doing, Effect
<1>2. UNCHANGED << environment, baseParam, flags, events, shown >>
  BY DEF InitContext, history
<1>3. UNCHANGED << environment, events, baseParam, shown, foreground, phase >>
  BY <1>2 DEF flags, environment
<1>4. PICK more \in Seq(Effects) : more = << >> /\ DOMAIN more = {} /\ Continue(t, more)
  BY <1>1, NoEffects
<1>5. PICK rest : rest = After(thread[t].todo, 1)
  OBVIOUS
<1>6. e.context \in Contexts /\ Items \subseteq thread[t].items
  BY <1>1, EffectFields, HeadFits DEF ItemsOf
<1>7. PICK loaded : loaded = [item \in Items |-> LoadContextParam(e.context, item)]
  OBVIOUS
<1>8. EntrySet(e.context, loaded)
  BY <1>1, <1>7 DEF InitContext
<1>9. \A c : Entry(c)' = IF c = e.context THEN loaded ELSE Entry(c)
  BY <1>8, EntryAfter
<1>10. faults' = faults \/ faults' = faults + 1
  BY DEF InitContext, Fails
<1>11. CASE faults' = faults + 1
  BY <1>3, <1>11, FailedBases
<1>12. ASSUME NEW user \in Users, IsShown(user), ~BaseFollows(user)'
       PROVE  Entry(foreground[user])' = Entry(foreground[user])
  <2>1. PICK c \in Contexts : c = foreground[user]
    BY DEF IInv, TypeInv, TypeOK
  <2>2. ~NoneShown
    BY <1>12 DEF NoneShown
  <2>3. ~isInitializationFinished
    BY <1>1, <2>2, HeadShows DEF ShownFits
  <2>4. \A u \in Threads : u # t => ~Busy(u)
    <3>1. 1 \in DOMAIN thread[t].todo /\ thread[t].todo[1].op \notin Setting
      BY <1>1, EffectType DEF IInv, Setting
    <3> QED
      BY <1>1, <2>2, <3>1, SwitchingAlone DEF SInv
  <2>5. \A i \in DOMAIN thread[t].todo : i = 1 \/ e \in Before(thread[t].todo, i)
    <3>1. thread[t].todo \in Seq(Effects) /\ thread[t].todo # << >> /\ e = Head(thread[t].todo)
      BY <1>1, EffectType DEF IInv, Busy, Effect
    <3> QED
      BY <3>1, FirstAndRest
  <2>6. ~Awaited(user)
    <3>1. Awaited(user) => BaseAwaited(user)'
      BY <1>3 DEF Awaited, BaseAwaited
    <3> QED
      BY <1>12, <3>1 DEF BaseFollows
  <2>7. ~UnderWay(user)
    <3> SUFFICES ASSUME UnderWay(user) PROVE FALSE
      OBVIOUS
    <3>1. PICK u \in Threads : \E i \in DOMAIN thread[u].todo :
             Forced(thread[u].todo[i]) /\ Account(thread[u].todo[i]).userId = user
      BY DEF UnderWay, ForcedFor
    <3>2. PICK i \in DOMAIN thread[u].todo :
             Forced(thread[u].todo[i]) /\ Account(thread[u].todo[i]).userId = user
      BY <3>1
    <3>3. u = t
      BY <2>4, <3>2, TodoType DEF IInv
    <3>4. thread[t].todo[i].op # "send"
      <4>1. thread[t].todo[i].op = "send" => \A b \in Before(thread[t].todo, i) : b.op = "param"
        BY <3>2, <3>3 DEF SInv, ShapeInv, ShapeFits
      <4> QED
        BY <1>1, <2>5, <3>2, <3>3, <4>1, EffectType DEF IInv
    <3>5. RebaseUnderWay(user)
      BY <3>2, <3>3, <3>4 DEF Forced, Rebases, RebaseIn, RebaseUnderWay
    <3>6. ~Rebases(e, user)
      BY <1>1 DEF Rebases
    <3>7. RebaseUnderWay(user)'
      <4>1. Proceeds(t, more) /\ thread'[t].todo = more \o Tail(thread[t].todo)
        BY <1>1, <1>4, ContinueProceeds, ContinueTodo DEF IInv
      <4>2. \A j \in DOMAIN more : more[j].op # "configuration"
        BY <1>4
      <4> QED
        BY <1>1, <3>5, <3>6, <4>1, <4>2, BaseKept DEF IInv
    <3> QED
      BY <1>12, <3>7 DEF BaseFollows
  <2>8. ASSUME NEW item \in Items PROVE param[c][item] = Entry(c)[item]
    <3>1. Saved(user, item)
      BY <1>12, <2>3, <2>6, <2>7 DEF SInv, FollowInv, Follows
    <3>2. ASSUME NEW u \in Threads, ParamPending(thread[u].todo, c, item) PROVE FALSE
      <4>1. PICK i \in DOMAIN thread[u].todo : thread[u].todo[i].op = "param"
        BY <3>2 DEF ParamPending
      <4>2. u = t
        BY <2>4, <4>1, TodoType DEF IInv
      <4>3. Before(thread[t].todo, i) = {}
        BY <4>1, <4>2 DEF IInv, PromiseInv, PromiseFits
      <4> QED
        BY <1>1, <2>5, <4>1, <4>2, <4>3, EffectType DEF IInv
    <3> QED
      BY <2>1, <3>1, <3>2 DEF Saved
  <2>9. Entry(c)' = Entry(c)
    <3>1. CASE c # e.context
      BY <1>9, <3>1
    <3>2. CASE c = e.context
      <4>1. Entry(c) \in [Items -> Values]
        BY EntryType DEF IInv
      <4>2. \A item \in Items : LoadContextParam(c, item) = Entry(c)[item]
        BY <2>8, <4>1 DEF LoadContextParam, Values, Unset
      <4>3. loaded = Entry(c)
        BY <1>7, <3>2, <4>1, <4>2
      <4> QED
        BY <1>9, <3>2, <4>3
    <3> QED
      BY <3>1, <3>2
  <2> QED
    BY <1>3, <2>1, <2>9 DEF Entry
<1>13. CASE faults' = faults
  <2>1. NewBases(t, more, rest)
    BY <1>4 DEF NewBases
  <2>2. \A item \in Items \ thread[t].items : \A c \in Contexts : (Entry(c)[item])' = Entry(c)[item]
    BY <1>6
  <2>3. ASSUME NEW user \in Users, IsShown(user), ~BaseFollows(user)' PROVE LeavesBase(t, user)
    <3>1. ~Rebases(Effect(t), user)
      BY <1>1 DEF Rebases
    <3> QED
      BY <1>1, <1>3, <1>12, <2>3, <3>1 DEF LeavesBase
  <2>4. Effect(t).op = "initContext" /\ \A user \in Users : IsShown(user)' <=> IsShown(user)
    BY <1>1, <1>3 DEF IsShown
  <2> QED
    BY <1>1, <1>3, <1>4, <1>5, <1>13, <2>1, <2>2, <2>3, <2>4, MoreBases
<1> QED
  BY <1>10, <1>11, <1>13

\* What a user is sent first is going to be the base.
LEMMA SendOnceBases ==
    ASSUME IInv, SInv, BInv, NEW t \in Threads, SendOnce(t)
    PROVE  BInv'
<1>1. PICK e \in Effects : e = Effect(t) /\ e.op = "send" /\ Busy(t) /\ Continue(t, << >>)
  BY HeadFits DEF SendOnce, Doing, Effect
<1>2. PICK w \in Users : w = e.context.userId
  BY <1>1, EffectFields, NotShown
<1>3. UNCHANGED << environment, persistent, usersParam, phase, events >>
  BY DEF SendOnce
<1>4. UNCHANGED << environment, events, phase, baseParam, foreground >>
  BY <1>3 DEF persistent, environment
<1>5. /\ \A user \in Users : user # w => shown'[user] = shown[user]
      /\ thread[t].inDoubt => ~IsShown(w)'
      /\ faults' = faults \/ faults' = faults + 1
  <2>1. shown \in [Users -> Contexts \cup {Nobody, Doubtful}]
    BY DEF IInv, TypeInv, TypeOK
  <2>2. \/ shown' = [shown EXCEPT ![w] =
               IF thread[t].inDoubt \/ (~(e.force \/ e.context \notin onceFlag) /\ shown[w] = Doubtful)
               THEN Doubtful ELSE e.context]
        \/ shown' = [shown EXCEPT ![w] = Doubtful]
    BY <1>1, <1>2 DEF SendOnce
  <2>3. thread[t].inDoubt => shown'[w] = Doubtful
    BY <2>1, <2>2
  <2>4. \A user \in Users : user # w => shown'[user] = shown[user]
    BY <2>1, <2>2
  <2> QED
    BY <2>3, <2>4, NotShown DEF IsShown, SendOnce, AppMgrFails, Fails
<1>6. \A c \in Contexts : Entry(c)' = Entry(c)
  BY <1>3 DEF Entry
<1>7. PICK more \in Seq(Effects) : more = << >> /\ DOMAIN more = {} /\ Continue(t, more)
  BY <1>1, NoEffects
<1>8. PICK rest : rest = After(thread[t].todo, 1)
  OBVIOUS
<1>9. CASE faults' = faults + 1
  BY <1>4, <1>9, FailedBases
<1>10. CASE faults' = faults
  <2>1. NewBases(t, more, rest)
    BY <1>7 DEF NewBases
  <2>2. \A user \in Users : IsShown(user)' => IsShown(user) \/ ~thread[t].inDoubt
    BY <1>5 DEF IsShown
  <2>3. ASSUME NEW user \in Users, user # w, IsShown(user)' PROVE IsShown(user) /\ LeavesBase(t, user)
    <3>1. ~Rebases(Effect(t), user)
      BY <1>1, <1>2, <2>3 DEF Rebases
    <3>2. IsShown(user)
      BY <1>5, <2>3 DEF IsShown
    <3>3. (Entry(foreground[user]))' = Entry(foreground[user])
      BY <1>4, <1>6 DEF Entry, IInv, TypeInv, TypeOK
    <3> QED
      BY <1>1, <1>4, <3>1, <3>2, <3>3 DEF LeavesBase
  <2>4. ASSUME faults = 0, InFront(w), IsShown(w)' PROVE BaseFollows(w)'
    <3>1. ~thread[t].inDoubt
      BY <1>5, <2>4
    <3>2. BaseFits(e, rest, w)
      BY <1>1, <1>8, <2>4, <3>1, HeadBases
    <3>3. \A j \in DOMAIN more : more[j].op # "configuration"
      BY <1>7
    <3>4. CASE Ends(rest, w)
      BY <1>1, <1>4, <1>7, <1>8, <3>3, <3>4, EndsFollow
    <3>5. CASE ~Ends(rest, w)
      <4>1. PICK a \in rest : /\ a.op = "base"
                              /\ \A item \in Items : /\ item \in DOMAIN a.values
                                                     /\ a.values[item] = Entry(foreground[w])[item]
        BY <1>1, <3>2, <3>5 DEF BaseFits
      <4>2. PICK i \in DOMAIN thread'[t].todo :
               thread'[t].todo[i] = a /\ \A b \in Before(thread'[t].todo, i) : b.op # "configuration"
        BY <1>1, <1>7, <1>8, <3>3, RestStays
      <4>3. \A item \in Items : (Entry(foreground[w])[item])' = Entry(foreground[w])[item]
        BY <1>4, <1>6 DEF Entry, IInv, TypeInv, TypeOK
      <4>4. \A item \in Items : BasePending(thread'[t].todo, item, (Entry(foreground[w])[item])')
        BY <4>1, <4>2, <4>3 DEF BasePending
      <4> QED
        BY <4>4 DEF BaseFollows, BaseAgrees
    <3> QED
      BY <3>4, <3>5
  <2> QED
    BY <1>1, <1>4, <1>6, <1>7, <1>8, <1>10, <2>1, <2>2, <2>3, <2>4, MoreBases
<1> QED
  BY <1>5, <1>9, <1>10

LEMMA EndsStays ==
    ASSUME events' = events, NEW rest, NEW user, Ends(rest, user), NEW S
    PROVE  Ends(S \cup rest, user)'
BY DEF Ends, BaseAwaited

\* What is first in the list that replaces an effect is in the handler's list.
LEMMA FirstIsThere ==
    ASSUME IInv, NEW t \in Threads, Busy(t), NEW more \in Seq(Effects), Continue(t, more), NEW j \in DOMAIN more
    PROVE  j \in DOMAIN thread'[t].todo /\ thread'[t].todo[j] = more[j]
<1>1. thread[t].todo \in Seq(Effects) /\ thread[t].todo # << >>
  BY EffectType DEF IInv, Busy
<1> QED
  BY <1>1, ContinueTodo, NewIsThere DEF IInv

\* Accounts other than the one in front have memory of their own.
LEMMA UpdateCurrentUserConfigurationBases ==
    ASSUME IInv, SInv, BInv, NEW t \in Threads, UpdateCurrentUserConfiguration(t)
    PROVE  BInv'
<1>1. PICK e \in Effects : e = Effect(t) /\ e.op = "update" /\ Busy(t)
  BY HeadFits DEF UpdateCurrentUserConfiguration, Doing, Effect
<1>2. PICK entry : entry = Entry(e.context)
  OBVIOUS
<1>3. /\ e.context \in Contexts /\ e.force \in BOOLEAN /\ entry \in [Items -> Values]
      /\ e.context.userId \in Users
  BY <1>1, <1>2, EffectFields, EntryType, NotShown DEF IInv
<1>4. EntrySet(e.context, entry)
  BY <1>1, <1>2 DEF UpdateCurrentUserConfiguration
<1>5. \A c \in Contexts : Entry(c)' = Entry(c)
  BY <1>2, <1>4, EntryAfter
<1>6. UNCHANGED << environment, persistent, flags, events >>
  BY DEF UpdateCurrentUserConfiguration
<1>7. UNCHANGED << environment, events, phase, baseParam, foreground >>
  BY <1>6 DEF flags, persistent, environment
<1>8. \A user \in Users : foreground[user] \in Contexts /\ foreground[user].userId = user
  BY DEF IInv, TypeInv, TypeOK
<1>9. PICK rest : rest = After(thread[t].todo, 1)
  OBVIOUS
<1>10. \A user \in Users : Entry(foreground[user])' = Entry(foreground[user])
  BY <1>5, <1>7, <1>8 DEF Entry
<1>11. CASE faults' = faults + 1
  BY <1>7, <1>11, FailedBases
<1>12. CASE /\ shown' = [shown EXCEPT ![e.context.userId] = Doubtful] /\ UNCHANGED faults
            /\ Continue(t, << >>)
  <2>1. PICK more \in Seq(Effects) : more = << >> /\ DOMAIN more = {} /\ Continue(t, more)
    BY <1>12, NoEffects
  <2>2. shown'[e.context.userId] = Doubtful /\ \A user \in Users : user # e.context.userId => shown'[user] = shown[user]
    BY <1>3, <1>12 DEF IInv, TypeInv, TypeOK
  <2>3. \A user \in Users : IsShown(user)' => IsShown(user) /\ user # e.context.userId
    BY <2>2, NotShown DEF IsShown
  <2>4. \A user \in Users : user # e.context.userId => LeavesBase(t, user)
    BY <1>1, <1>7, <1>10 DEF LeavesBase, Rebases, Account
  <2>5. NewBases(t, more, rest)
    BY <2>1 DEF NewBases
  <2> QED
    BY <1>1, <1>5, <1>7, <1>9, <1>12, <2>1, <2>3, <2>4, <2>5, MoreBases
<1>13. CASE /\ shown' = shown /\ UNCHANGED faults
            /\ Continue(t, << [op |-> "send", context |-> e.context, force |-> e.force, entry |-> entry],
                              [op |-> "base", values |-> entry] >>)
  <2>1. PICK f \in Effects, g \in Effects :
           /\ f = [op |-> "send", context |-> e.context, force |-> e.force, entry |-> entry]
           /\ g = [op |-> "base", values |-> entry]
           /\ f.op = "send" /\ f.context = e.context /\ g.op = "base" /\ g.values = entry
    <3>1. [op |-> "send", context |-> e.context, force |-> e.force, entry |-> entry]
             \in [op : {"send"}, context : Contexts, force : BOOLEAN, entry : [Items -> Values]]
      BY <1>3
    <3>2. [op |-> "base", values |-> entry] \in [op : {"base"}, values : PartialParams]
      BY <1>3 DEF PartialParams
    <3>3. /\ [op |-> "send", context |-> e.context, force |-> e.force, entry |-> entry] \in Effects
          /\ [op |-> "base", values |-> entry] \in Effects
      BY <3>1, <3>2 DEF Effects
    <3> QED
      BY <3>3
  <2>2. PICK more \in Seq(Effects) : /\ more = << f, g >> /\ DOMAIN more = {1, 2} /\ more[1] = f /\ more[2] = g
                                     /\ Before(more, 1) = {} /\ Before(more, 2) = {f}
    <3>1. /\ << f, g >> \in Seq(Effects) /\ DOMAIN << f, g >> = {1, 2}
          /\ << f, g >>[1] = f /\ << f, g >>[2] = g
          /\ Before(<< f, g >>, 1) = {} /\ Before(<< f, g >>, 2) = {f}
      BY <2>1, TwoEffects
    <3> QED
      BY <3>1, Zenon
  <2>3. Continue(t, more)
    BY <1>13, <2>1, <2>2
  <2>4. g \in After(more, 1)
    <3>1. DOMAIN more = 1 .. Len(more) /\ Len(more) \in Nat
      BY LenProperties
    <3>2. 2 \in 1 + 1 .. Len(more)
      BY <2>2, <3>1
    <3> QED
      BY <2>2, <3>2 DEF After
  <2>5. ASSUME faults = 0, ~thread[t].inDoubt, NEW user \in Users, InFront(user)
        PROVE  \/ Ends(rest, user)
               \/ e.context.userId = user /\ entry = Entry(foreground[user])'
    <3>1. BaseFits(e, rest, user)
      BY <1>1, <1>9, <2>5, HeadBases
    <3>2. e.context.userId = user \/ Ends(rest, user)
      BY <1>1, <3>1 DEF BaseFits, Showing, Account
    <3>3. Current(e.context)
      BY <1>1, <2>5, HeadShows DEF ShownFits, Showing, Account
    <3>4. e.context.userId = user => e.context = foreground[user] \/ Ends(rest, user)
      BY <3>3 DEF Current, Awaited, Ends, BaseAwaited
    <3> QED
      BY <1>2, <1>10, <3>2, <3>4
  <2>6. ASSUME faults = 0 PROVE NewBases(t, more, rest)
    <3>1. BaseShape(f, {})' /\ BaseShape(g, {f})'
      BY <2>1 DEF BaseShape
    <3>2. ASSUME ~thread[t].inDoubt, NEW user \in Users, InFront(user)'
          PROVE  /\ BaseFits(f, After(more, 1) \cup rest, user)'
                 /\ BaseFits(g, After(more, 2) \cup rest, user)'
      <4>1. InFront(user)
        BY <1>7, <2>6, <3>2 DEF InFront, environment
      <4>2. CASE Ends(rest, user)
        <5>1. Ends(After(more, 1) \cup rest, user)' /\ Ends(After(more, 2) \cup rest, user)'
          BY <1>7, <4>2, EndsStays
        <5> QED
          BY <2>1, <5>1 DEF BaseFits, Showing
      <4>3. CASE e.context.userId = user /\ entry = Entry(foreground[user])'
        <5>1. \A item \in Items : item \in DOMAIN g.values /\ g.values[item] = (Entry(foreground[user])[item])'
          BY <1>3, <2>1, <4>3
        <5>2. DOMAIN g.values = Items
          BY <1>3, <2>1
        <5>3. BaseFits(f, After(more, 1) \cup rest, user)'
          BY <2>1, <2>4, <4>3, <5>1 DEF BaseFits, Showing, Account
        <5>4. BaseFits(g, After(more, 2) \cup rest, user)'
          BY <2>1, <5>1, <5>2 DEF BaseFits, Showing
        <5> QED
          BY <5>3, <5>4
      <4> QED
        BY <2>5, <2>6, <3>2, <4>1, <4>2, <4>3
    <3>3. \A j \in DOMAIN more :
             ~thread[t].inDoubt =>
                /\ BaseShape(more[j], Before(more, j))'
                /\ \A user \in Users : InFront(user)' => BaseFits(more[j], After(more, j) \cup rest, user)'
      <4>1. ASSUME NEW j \in DOMAIN more PROVE BaseShape(more[j], Before(more, j))'
        <5>1. CASE j = 1
          BY <2>2, <3>1, <5>1 DEF BaseShape
        <5>2. CASE j = 2
          BY <2>2, <3>1, <5>2 DEF BaseShape
        <5> QED
          BY <2>2, <5>1, <5>2
      <4>2. ASSUME NEW j \in DOMAIN more, ~thread[t].inDoubt, NEW user \in Users, InFront(user)'
            PROVE  BaseFits(more[j], After(more, j) \cup rest, user)'
        <5>1. CASE j = 1
          BY <2>2, <3>2, <4>2, <5>1
        <5>2. CASE j = 2
          BY <2>2, <3>2, <4>2, <5>2
        <5> QED
          BY <2>2, <5>1, <5>2
      <4> QED
        BY <4>1, <4>2
    <3>4. \A j \in DOMAIN more : more[j].op # "configuration"
      BY <2>1, <2>2
    <3>5. Effect(t).op \notin Setting
      BY <1>1 DEF Setting
    <3> QED
      BY <3>3, <3>4, <3>5 DEF NewBases
  <2>7. ASSUME faults = 0, NEW user \in Users, InFront(user), IsShown(user)
        PROVE  LeavesBase(t, user)
    <3>1. ~thread[t].inDoubt
      BY <1>1, <2>7, ShownWithoutDoubt
    <3>2. \A j \in DOMAIN more : more[j].op # "configuration"
      BY <2>1, <2>2
    <3>3. CASE Ends(rest, user)
      <4>1. BaseFollows(user)'
        BY <1>1, <1>7, <1>9, <2>3, <3>2, <3>3, EndsFollow
      <4> QED
        BY <4>1 DEF LeavesBase
    <3>4. CASE entry = Entry(foreground[user])'
      <4> DEFINE first == 1
                 second == 2
      <4>1. first \in DOMAIN more /\ more[first] = f /\ second \in DOMAIN more /\ more[second] = g
        BY <2>2
      <4>2. \A j \in 1 .. second - 1 : j = first
        OBVIOUS
      <4> HIDE DEF first, second
      <4>3. first \in DOMAIN thread'[t].todo /\ thread'[t].todo[first] = f
        BY <1>1, <2>3, <4>1, FirstIsThere
      <4>4. second \in DOMAIN thread'[t].todo /\ thread'[t].todo[second] = g
        BY <1>1, <2>3, <4>1, FirstIsThere
      <4>5. \A b \in Before(thread'[t].todo, second) : b.op # "configuration"
        BY <2>1, <4>2, <4>3 DEF Before
      <4>6. \A item \in Items : item \in DOMAIN g.values /\ g.values[item] = (Entry(foreground[user])[item])'
        BY <1>3, <2>1, <3>4
      <4>7. \A item \in Items : BasePending(thread'[t].todo, item, (Entry(foreground[user])[item])')
        BY <2>1, <4>4, <4>5, <4>6 DEF BasePending
      <4>8. BaseFollows(user)'
        BY <4>7 DEF BaseFollows, BaseAgrees
      <4> QED
        BY <4>8 DEF LeavesBase
    <3> QED
      BY <2>5, <2>7, <3>1, <3>3, <3>4
  <2>8. \A user \in Users : IsShown(user)' <=> IsShown(user)
    BY <1>13 DEF IsShown
  <2> QED
    BY <1>1, <1>5, <1>7, <1>9, <1>13, <2>3, <2>6, <2>7, <2>8, MoreBases
<1> QED
  BY <1>1, <1>2, <1>11, <1>12, <1>13 DEF UpdateCurrentUserConfiguration, AppMgrFails, Fails

LEMMA LoadedDarkModeBases ==
    ASSUME IInv, SInv, BInv, NEW t \in Threads, LoadedDarkMode(t)
    PROVE  BInv'
<1>1. PICK e \in Effects : e = Effect(t) /\ e.op = "loaded" /\ Busy(t)
  BY HeadFits DEF LoadedDarkMode, Doing, Effect
<1>2. PICK c \in Contexts : c = e.context
  BY <1>1, EffectFields
<1>3. UNCHANGED << environment, persistent, flags, events, faults, shown >>
  BY DEF LoadedDarkMode
<1>4. UNCHANGED << environment, events, phase, faults, baseParam, shown, foreground >>
  BY <1>3 DEF flags, persistent, environment
<1>5. PICK old \in [Items -> Values] : old = Entry(c)
  BY EntryType DEF IInv
<1>6. PICK darkMode :
         /\ EntrySet(c, [old EXCEPT !["darkMode"] = darkMode])
         /\ Continue(t, << [op |-> "update", context |-> c,
                            force |-> darkMode # old["darkMode"] \/ IsSubProfileContext(c)] >>)
  BY <1>1, <1>2, <1>5 DEF LoadedDarkMode
<1>7. PICK force \in BOOLEAN : force = (darkMode # old["darkMode"] \/ IsSubProfileContext(c))
  OBVIOUS
<1>8. PICK f \in Effects : /\ f = [op |-> "update", context |-> c, force |-> force]
                           /\ f.op = "update" /\ f.context = c
  <2>1. [op |-> "update", context |-> c, force |-> force]
           \in [op : {"update"}, context : Contexts, force : BOOLEAN]
    OBVIOUS
  <2>2. [op |-> "update", context |-> c, force |-> force] \in Effects
    BY <2>1 DEF Effects
  <2> QED
    BY <2>2
<1>9. PICK more \in Seq(Effects) :
         more = << f >> /\ DOMAIN more = {1} /\ more[1] = f /\ Before(more, 1) = {}
  <2>1. << f >> \in Seq(Effects) /\ DOMAIN << f >> = {1} /\ << f >>[1] = f /\ Before(<< f >>, 1) = {}
    BY <1>8, OneEffect
  <2> QED
    BY <2>1, Zenon
<1>10. Continue(t, more)
  BY <1>6, <1>7, <1>8, <1>9
<1>11. PICK rest : rest = After(thread[t].todo, 1)
  OBVIOUS
<1>12. Items \subseteq thread[t].items
  BY <1>1, HeadFits DEF ItemsOf
<1>13. \A d \in Contexts : d # c => Entry(d)' = Entry(d)
  BY <1>6, EntryAfter
<1>14. \A user \in Users : foreground[user] \in Contexts /\ foreground[user].userId = user
  BY DEF IInv, TypeInv, TypeOK
<1>15. \A user \in Users : IsShown(user)' => IsShown(user)
  BY <1>4 DEF IsShown
<1>16. ASSUME faults = 0 PROVE NewBases(t, more, rest)
  <2>1. BaseShape(f, {})'
    BY <1>8 DEF BaseShape
  <2>2. ASSUME ~thread[t].inDoubt, NEW user \in Users, InFront(user)'
        PROVE  BaseFits(f, After(more, 1) \cup rest, user)'
    <3>1. InFront(user)
      BY <1>4, <2>2 DEF InFront, environment
    <3>2. BaseFits(e, rest, user)
      BY <1>1, <1>11, <1>16, <2>2, <3>1, HeadBases
    <3>3. c.userId = user \/ Ends(rest, user)
      BY <1>1, <1>2, <3>2 DEF BaseFits, Showing, Account
    <3>4. Ends(rest, user) => Ends(After(more, 1) \cup rest, user)'
      BY <1>4, EndsStays
    <3> QED
      BY <1>8, <3>3, <3>4 DEF BaseFits, Showing, Account
  <2>3. Effect(t).op \notin Setting
    BY <1>1 DEF Setting
  <2>4. \A j \in DOMAIN more :
           ~thread[t].inDoubt =>
              /\ BaseShape(more[j], Before(more, j))'
              /\ \A user \in Users : InFront(user)' => BaseFits(more[j], After(more, j) \cup rest, user)'
    <3>1. ASSUME NEW j \in DOMAIN more PROVE BaseShape(more[j], Before(more, j))'
      BY <1>9, <2>1, <3>1 DEF BaseShape
    <3>2. ASSUME NEW j \in DOMAIN more, ~thread[t].inDoubt, NEW user \in Users, InFront(user)'
          PROVE  BaseFits(more[j], After(more, j) \cup rest, user)'
      BY <1>9, <2>2, <3>2
    <3> QED
      BY <3>1, <3>2
  <2> QED
    BY <1>8, <1>9, <2>3, <2>4 DEF NewBases
<1>17. ASSUME NEW user \in Users, InFront(user) PROVE BaseFollows(user)' \/ LeavesBase(t, user)
  <2>1. CASE c.userId = user
    <3> DEFINE first == 1
    <3>1. first \in DOMAIN more /\ more[first] = f
      BY <1>9
    <3> HIDE DEF first
    <3>2. first \in DOMAIN thread'[t].todo /\ thread'[t].todo[first] = f
      BY <1>1, <1>10, <3>1, FirstIsThere
    <3>3. Rebases(f, user)
      BY <1>8, <2>1 DEF Rebases, Account
    <3>4. RebaseUnderWay(user)'
      BY <3>2, <3>3 DEF RebaseUnderWay, RebaseIn
    <3> QED
      BY <3>4 DEF BaseFollows
  <2>2. CASE c.userId # user
    <3>1. ~Rebases(Effect(t), user)
      BY <1>1, <1>2, <2>2 DEF Rebases, Account
    <3>2. PICK d \in Contexts : d = foreground[user] /\ d.userId = user
      BY <1>14
    <3>3. Entry(d)' = Entry(d)
      BY <1>13, <2>2, <3>2
    <3>4. \A item \in Items : (Entry(foreground[user])[item])' = Entry(foreground[user])[item]
      BY <1>4, <3>2, <3>3 DEF Entry
    <3>5. Effect(t).op \notin {"base", "persist"}
      BY <1>1
    <3> QED
      BY <1>4, <3>1, <3>4, <3>5 DEF LeavesBase
  <2> QED
    BY <2>1, <2>2
<1>18. Effect(t).op \notin {"base", "send", "configuration", "param"}
  BY <1>1
<1> QED
  BY <1>1, <1>4, <1>10, <1>11, <1>12, <1>15, <1>16, <1>17, <1>18, MoreBases

LEMMA ApplyAppearanceContextToUserBases ==
    ASSUME IInv, SInv, BInv, NEW t \in Threads, ApplyAppearanceContextToUser(t)
    PROVE  BInv'
<1>1. PICK e \in Effects : e = Effect(t) /\ e.op = "apply" /\ Busy(t)
  BY HeadFits DEF ApplyAppearanceContextToUser, Doing, Effect
<1>2. PICK c \in Contexts : c = e.target
  BY <1>1, EffectFields
<1>3. PICK w \in Users : w = c.userId
  BY NotShown
<1>4. UNCHANGED << environment, persistent, flags, events, faults >>
  BY DEF ApplyAppearanceContextToUser
<1>5. UNCHANGED << environment, events, phase, faults, baseParam, foreground >>
  BY <1>4 DEF flags, persistent, environment
<1>6. PICK rest : rest = After(thread[t].todo, 1)
  OBVIOUS
<1>7. Items \subseteq thread[t].items
  BY <1>1, HeadFits DEF ItemsOf
<1>8. Effect(t).op \notin {"base", "persist", "send", "configuration", "param"} \cup Setting
  BY <1>1 DEF Setting
<1>9. ASSUME NEW user \in Users, user # w, \A d \in Contexts : d # c => Entry(d)' = Entry(d)
      PROVE  LeavesBase(t, user)
  <2>1. ~Rebases(Effect(t), user)
    BY <1>1, <1>2, <1>3, <1>9 DEF Rebases, Account
  <2>2. PICK d \in Contexts : d = foreground[user] /\ d.userId = user
    BY DEF IInv, TypeInv, TypeOK
  <2>3. Entry(d)' = Entry(d)
    BY <1>3, <1>9, <2>2
  <2>4. \A item \in Items : (Entry(foreground[user])[item])' = Entry(foreground[user])[item]
    BY <1>5, <2>2, <2>3 DEF Entry
  <2> QED
    BY <1>5, <1>8, <2>1, <2>4 DEF LeavesBase
<1>10. CASE e.source \notin DOMAIN usersParam
  <2>1. /\ shown' = [shown EXCEPT ![w] = Doubtful]
        /\ Continue(t, << >>) /\ usersParam' = usersParam
    BY <1>1, <1>2, <1>3, <1>10 DEF ApplyAppearanceContextToUser
  <2>2. PICK more \in Seq(Effects) : more = << >> /\ DOMAIN more = {} /\ Continue(t, more)
    BY <2>1, NoEffects
  <2>3. shown'[w] = Doubtful /\ \A user \in Users : user # w => shown'[user] = shown[user]
    BY <2>1 DEF IInv, TypeInv, TypeOK
  <2>4. \A user \in Users : IsShown(user)' => user # w /\ IsShown(user)
    BY <2>3, NotShown DEF IsShown
  <2>5. \A d \in Contexts : Entry(d)' = Entry(d)
    BY <2>1 DEF Entry
  <2>6. \A user \in Users : user # w => LeavesBase(t, user)
    BY <1>9, <2>5
  <2>7. NewBases(t, more, rest)
    BY <2>2 DEF NewBases
  <2> QED
    BY <1>1, <1>5, <1>6, <1>7, <1>8, <2>2, <2>4, <2>6, <2>7, MoreBases
<1>11. CASE e.source \in DOMAIN usersParam
  <2>1. PICK values \in [Items -> Values] : values = usersParam[e.source]
    BY <1>11 DEF IInv, TypeInv, TypeOK
  <2>2. /\ EntrySet(c, values) /\ shown' = shown
        /\ Continue(t, << [op |-> "param", context |-> c, values |-> values, must |-> FALSE],
                          [op |-> "update", context |-> c, force |-> TRUE],
                          [op |-> "promise", context |-> c, values |-> values] >>)
    BY <1>1, <1>2, <1>11, <2>1 DEF ApplyAppearanceContextToUser
  <2>3. PICK f \in Effects, g \in Effects, h \in Effects :
           /\ f = [op |-> "param", context |-> c, values |-> values, must |-> FALSE]
           /\ g = [op |-> "update", context |-> c, force |-> TRUE]
           /\ h = [op |-> "promise", context |-> c, values |-> values]
           /\ f.op = "param" /\ g.op = "update" /\ g.context = c /\ h.op = "promise"
    <3>1. values \in PartialParams
      BY DEF PartialParams
    <3>2. [op |-> "param", context |-> c, values |-> values, must |-> FALSE]
             \in [op : {"param"}, context : Contexts, values : PartialParams, must : BOOLEAN]
      BY <3>1
    <3>3. [op |-> "update", context |-> c, force |-> TRUE]
             \in [op : {"update"}, context : Contexts, force : BOOLEAN]
      OBVIOUS
    <3>4. [op |-> "promise", context |-> c, values |-> values]
             \in [op : {"promise"}, context : Contexts, values : PartialParams]
      BY <3>1
    <3>5. /\ [op |-> "param", context |-> c, values |-> values, must |-> FALSE] \in Effects
          /\ [op |-> "update", context |-> c, force |-> TRUE] \in Effects
          /\ [op |-> "promise", context |-> c, values |-> values] \in Effects
      BY <3>2, <3>3, <3>4 DEF Effects
    <3> QED
      BY <3>5
  <2>4. PICK more \in Seq(Effects) :
           /\ more = << f, g, h >> /\ DOMAIN more = {1, 2, 3}
           /\ more[1] = f /\ more[2] = g /\ more[3] = h
           /\ Before(more, 1) = {} /\ Before(more, 2) = {f} /\ Before(more, 3) = {f, g}
    <3>1. f \in Effects /\ g \in Effects /\ h \in Effects
      BY <2>3
    <3>2. /\ << f, g, h >> \in Seq(Effects) /\ DOMAIN << f, g, h >> = {1, 2, 3}
          /\ << f, g, h >>[1] = f /\ << f, g, h >>[2] = g /\ << f, g, h >>[3] = h
          /\ Before(<< f, g, h >>, 1) = {} /\ Before(<< f, g, h >>, 2) = {f}
          /\ Before(<< f, g, h >>, 3) = {f, g}
      BY <3>1, ThreeEffects
    <3> QED
      BY <3>2, Zenon
  <2>5. Continue(t, more)
    BY <2>2, <2>3, <2>4
  <2>6. \A d : Entry(d)' = IF d = c THEN values ELSE Entry(d)
    BY <2>2, EntryAfter
  <2>7. \A j \in DOMAIN more : /\ more[j].op \in {"param", "update", "promise"}
                               /\ more[j].op = "update" => more[j].context = c
                               /\ \A b \in Before(more, j) : b.op # "configuration"
    <3> SUFFICES ASSUME NEW j \in DOMAIN more
                 PROVE  /\ more[j] = f \/ more[j] = g \/ more[j] = h
                        /\ \A b \in Before(more, j) : b = f \/ b = g
      BY <2>3
    <3>1. CASE j = 1
      BY <2>4, <3>1
    <3>2. CASE j = 2
      BY <2>4, <3>2
    <3>3. CASE j = 3
      BY <2>4, <3>3
    <3> QED
      BY <2>4, <3>1, <3>2, <3>3
  <2>8. ASSUME faults = 0 PROVE NewBases(t, more, rest)
    <3>1. ASSUME NEW j \in DOMAIN more, ~thread[t].inDoubt, NEW user \in Users, InFront(user)'
          PROVE  BaseFits(more[j], After(more, j) \cup rest, user)'
      <4>1. InFront(user)
        BY <1>5, <3>1 DEF InFront, environment
      <4>2. BaseFits(e, rest, user)
        BY <1>1, <1>6, <2>8, <3>1, <4>1, HeadBases
      <4>3. c.userId = user \/ Ends(rest, user)
        BY <1>1, <1>2, <4>2 DEF BaseFits, Showing, Account
      <4>4. Ends(rest, user) => Ends(After(more, j) \cup rest, user)'
        BY <1>5, EndsStays
      <4> QED
        BY <2>7, <4>3, <4>4 DEF BaseFits, Showing, Account
    <3>2. \A j \in DOMAIN more : BaseShape(more[j], Before(more, j))'
      BY <2>7 DEF BaseShape
    <3> QED
      BY <1>8, <2>7, <3>1, <3>2 DEF NewBases
  <2>9. ASSUME NEW user \in Users PROVE BaseFollows(user)' \/ LeavesBase(t, user)
    <3>1. CASE user = w
      <4> DEFINE second == 2
      <4>1. second \in DOMAIN more /\ more[second] = g
        BY <2>4
      <4> HIDE DEF second
      <4>2. second \in DOMAIN thread'[t].todo /\ thread'[t].todo[second] = g
        BY <1>1, <2>5, <4>1, FirstIsThere
      <4>3. Rebases(g, user)
        BY <1>3, <2>3, <3>1 DEF Rebases, Account
      <4>4. RebaseUnderWay(user)'
        BY <4>2, <4>3 DEF RebaseUnderWay, RebaseIn
      <4> QED
        BY <4>4 DEF BaseFollows
    <3>2. CASE user # w
      BY <1>9, <2>6, <3>2
    <3> QED
      BY <3>1, <3>2
  <2>10. \A user \in Users : IsShown(user)' => IsShown(user)
    BY <2>2 DEF IsShown
  <2> QED
    BY <1>1, <1>5, <1>6, <1>7, <1>8, <2>5, <2>8, <2>9, <2>10, MoreBases
<1> QED
  BY <1>10, <1>11

\* The account in the middle is followed by that of the user in front.
LEMMA GetMultipleUsersBases ==
    ASSUME IInv, SInv, BInv, NEW t \in Threads, GetMultipleUsers(t)
    PROVE  BInv'
<1>1. Busy(t) /\ Effect(t).op = "spread"
  BY DEF GetMultipleUsers, Doing, Effect
<1>2. UNCHANGED << environment, persistent, usersParam, flags, events, faults, shown >>
  BY DEF GetMultipleUsers, history
<1>3. UNCHANGED << environment, events, phase, faults, baseParam, foreground, shown >>
  BY <1>2 DEF flags, persistent, environment
<1>4. PICK more \in Seq(Effects) :
         /\ Continue(t, more)
         /\ \A i \in DOMAIN more : /\ more[i].op = "apply"
                                   /\ \E user \in active \ {USER100} : more[i].target = foreground[user]
         /\ \A user \in active \ {USER100} : \E i \in DOMAIN more : more[i].target = foreground[user]
  BY GetMultipleUsersList
<1>5. \A user \in Users : foreground[user] \in Contexts /\ foreground[user].userId = user
  BY DEF IInv, TypeInv, TypeOK
<1>6. \A c \in Contexts : Entry(c)' = Entry(c)
  BY <1>2 DEF Entry
<1>7. PICK rest : rest = After(thread[t].todo, 1)
  OBVIOUS
<1>8. \A i \in DOMAIN more : \A b \in Before(more, i) : b.op = "apply"
  <2>1. DOMAIN more = 1 .. Len(more) /\ Len(more) \in Nat
    BY LenProperties
  <2>2. \A i \in DOMAIN more : \A j \in 1 .. i - 1 : j \in DOMAIN more
    BY <2>1
  <2> QED
    BY <1>4, <2>2 DEF Before
<1>9. Effect(t).op \notin {"base", "persist", "send", "configuration", "param"} \cup Setting
  BY <1>1 DEF Setting
<1>10. NewBases(t, more, rest)
  <2>1. ASSUME NEW j \in DOMAIN more, NEW user \in Users, InFront(user)'
        PROVE  BaseFits(more[j], After(more, j) \cup rest, user)'
    <3>1. active = {user}
      BY <1>3, <2>1 DEF InFront, environment
    <3>2. Account(more[j]).userId = user
      BY <1>4, <1>5, <2>1, <3>1 DEF Account
    <3> QED
      BY <1>4, <2>1, <3>2 DEF BaseFits, Account
  <2>2. \A j \in DOMAIN more : BaseShape(more[j], Before(more, j))'
    BY <1>4, <1>8 DEF BaseShape
  <2> QED
    BY <1>4, <1>9, <2>1, <2>2 DEF NewBases
<1>11. ASSUME NEW user \in Users, InFront(user) PROVE BaseFollows(user)' \/ LeavesBase(t, user)
  <2>1. CASE user # USER100
    <3>1. user \in active \ {USER100}
      BY <1>11, <2>1 DEF InFront
    <3>2. PICK i \in DOMAIN more : more[i].target = foreground[user]
      BY <1>4, <3>1
    <3>3. i \in DOMAIN thread'[t].todo /\ thread'[t].todo[i] = more[i]
      BY <1>1, <1>4, FirstIsThere
    <3>4. Rebases(more[i], user)
      BY <1>4, <1>5, <3>2 DEF Rebases, Account
    <3>5. RebaseUnderWay(user)'
      BY <3>3, <3>4 DEF RebaseUnderWay, RebaseIn
    <3> QED
      BY <3>5 DEF BaseFollows
  <2>2. CASE user = USER100
    <3>1. ~Rebases(Effect(t), user)
      BY <1>1, <2>2 DEF Rebases
    <3>2. \A item \in Items : (Entry(foreground[user])[item])' = Entry(foreground[user])[item]
      BY <1>3, <1>5, <1>6 DEF Entry
    <3> QED
      BY <1>3, <1>9, <3>1, <3>2 DEF LeavesBase
  <2> QED
    BY <2>1, <2>2
<1>12. \A user \in Users : IsShown(user)' => IsShown(user)
  BY <1>3 DEF IsShown
<1> QED
  BY <1>1, <1>3, <1>4, <1>6, <1>7, <1>9, <1>10, <1>11, <1>12, MoreBases

\* Without several users in front it is the account of the one that becomes the base.
LEMMA UpdateForegroundBases ==
    ASSUME IInv, SInv, BInv, NEW t \in Threads, UpdateForeground(t)
    PROVE  BInv'
<1>1. Busy(t) /\ Effect(t).op = "updateForeground"
  BY DEF UpdateForeground, Doing, Effect
<1>2. UNCHANGED << environment, persistent, usersParam, flags, events, shown >>
  BY DEF UpdateForeground, history
<1>3. UNCHANGED << environment, events, phase, baseParam, foreground, shown >>
  BY <1>2 DEF flags, persistent, environment
<1>4. \A user \in Users : foreground[user] \in Contexts /\ foreground[user].userId = user
  BY DEF IInv, TypeInv, TypeOK
<1>5. CASE faults' = faults + 1
  BY <1>3, <1>5, FailedBases
<1>6. ASSUME NEW who \in active, UNCHANGED faults,
             Continue(t, << [op |-> "update", context |-> foreground[who], force |-> FALSE] >>)
      PROVE  BInv'
  <2>1. who \in Users /\ foreground[who] \in Contexts /\ foreground[who].userId = who
    BY <1>4, <1>6 DEF IInv, TypeInv, TypeOK
  <2>2. PICK f \in Effects : /\ f = [op |-> "update", context |-> foreground[who], force |-> FALSE]
                             /\ f.op = "update" /\ f.context = foreground[who]
    <3>1. [op |-> "update", context |-> foreground[who], force |-> FALSE]
             \in [op : {"update"}, context : Contexts, force : BOOLEAN]
      BY <2>1
    <3>2. [op |-> "update", context |-> foreground[who], force |-> FALSE] \in Effects
      BY <3>1 DEF Effects
    <3> QED
      BY <3>2
  <2>3. PICK more \in Seq(Effects) :
           more = << f >> /\ DOMAIN more = {1} /\ more[1] = f /\ Before(more, 1) = {}
    <3>1. << f >> \in Seq(Effects) /\ DOMAIN << f >> = {1} /\ << f >>[1] = f /\ Before(<< f >>, 1) = {}
      BY <2>2, OneEffect
    <3> QED
      BY <3>1, Zenon
  <2>4. Continue(t, more)
    BY <1>6, <2>2, <2>3
  <2>5. PICK rest : rest = After(thread[t].todo, 1)
    OBVIOUS
  <2>6. Effect(t).op \notin {"base", "persist", "send", "configuration", "param"} \cup Setting
    BY <1>1 DEF Setting
  <2>7. ASSUME NEW user \in Users, InFront(user) PROVE Account(f).userId = user
    BY <1>6, <2>1, <2>2, <2>7 DEF InFront, Account
  <2>8. NewBases(t, more, rest)
    <3>1. \A user \in Users : InFront(user)' => InFront(user)
      BY <1>3, <1>6 DEF InFront, environment
    <3>2. \A user \in Users : InFront(user)' => BaseFits(f, After(more, 1) \cup rest, user)'
      BY <2>2, <2>7, <3>1 DEF BaseFits, Account
    <3>3. BaseShape(f, {})'
      BY <2>2 DEF BaseShape
    <3>4. ASSUME NEW j \in DOMAIN more PROVE BaseShape(more[j], Before(more, j))'
      BY <2>3, <3>3, <3>4 DEF BaseShape
    <3>5. ASSUME NEW j \in DOMAIN more, NEW user \in Users, InFront(user)'
          PROVE  BaseFits(more[j], After(more, j) \cup rest, user)'
      BY <2>3, <3>2, <3>5
    <3> QED
      BY <2>2, <2>3, <2>6, <3>4, <3>5 DEF NewBases
  <2>9. ASSUME NEW user \in Users, InFront(user) PROVE BaseFollows(user)'
    <3> DEFINE first == 1
    <3>1. first \in DOMAIN more /\ more[first] = f
      BY <2>3
    <3> HIDE DEF first
    <3>2. first \in DOMAIN thread'[t].todo /\ thread'[t].todo[first] = f
      BY <1>1, <2>4, <3>1, FirstIsThere
    <3>3. Rebases(f, user)
      BY <2>2, <2>7, <2>9 DEF Rebases
    <3>4. RebaseUnderWay(user)'
      BY <3>2, <3>3 DEF RebaseUnderWay, RebaseIn
    <3> QED
      BY <3>4 DEF BaseFollows
  <2>10. \A c \in Contexts : Entry(c)' = Entry(c)
    BY <1>2 DEF Entry
  <2>11. \A user \in Users : IsShown(user)' => IsShown(user)
    BY <1>3 DEF IsShown
  <2> QED
    BY <1>1, <1>3, <1>6, <2>4, <2>5, <2>6, <2>8, <2>9, <2>10, <2>11, MoreBases
<1> QED
  BY <1>5, <1>6 DEF UpdateForeground, Fails

-----------------------------------------------------------------------------
(* The base parameters: a handler starts.                                  *)

\* What waits for an account, or is under way, goes on when a handler starts.
LEMMA BeginFollows ==
    ASSUME IInv, NEW t \in Threads, NEW items \in SUBSET Items, NEW todo \in Seq(Effects),
           Begin(t, items, todo), UNCHANGED << usersParam, baseParam, foreground >>,
           NEW user \in Users, BaseFollows(user),
           BaseAwaited(user) => BaseAwaited(user)' \/ RebaseIn(todo, user)
    PROVE  BaseFollows(user)'
<1>1. /\ ~Busy(t) /\ thread'[t].todo = todo
      /\ \A u \in Threads \ {t} : thread'[u].todo = thread[u].todo
  BY BeginThreads DEF IInv
<1>2. DOMAIN thread[t].todo = {}
  BY <1>1, NoEffects DEF Busy
<1>3. CASE BaseAwaited(user)
  BY <1>1, <1>3 DEF BaseFollows, RebaseUnderWay
<1>4. CASE RebaseUnderWay(user)
  <2>1. PICK u \in Threads : RebaseIn(thread[u].todo, user)
    BY <1>4 DEF RebaseUnderWay
  <2>2. u # t
    BY <1>2, <2>1 DEF RebaseIn
  <2>3. RebaseIn(thread'[u].todo, user)
    BY <1>1, <2>1, <2>2
  <2> QED
    BY <2>3 DEF BaseFollows, RebaseUnderWay
<1>5. CASE \A item \in Items : BaseAgrees(user, item)
  <2>1. ASSUME NEW item \in Items PROVE BaseAgrees(user, item)'
    <3>1. (Entry(foreground[user])[item])' = Entry(foreground[user])[item]
      BY DEF Entry
    <3>2. CASE baseParam[item] = Entry(foreground[user])[item]
      BY <3>1, <3>2 DEF BaseAgrees
    <3>3. ASSUME NEW u \in Threads, PersistPending(thread[u].todo, user, item)
          PROVE  BaseAgrees(user, item)'
      <4>1. u # t
        BY <1>2, <3>3 DEF PersistPending
      <4>2. PersistPending(thread'[u].todo, user, item)
        BY <1>1, <3>3, <4>1
      <4> QED
        BY <4>2 DEF BaseAgrees
    <3>4. ASSUME NEW u \in Threads, BasePending(thread[u].todo, item, Entry(foreground[user])[item])
          PROVE  BaseAgrees(user, item)'
      <4>1. u # t
        BY <1>2, <3>4 DEF BasePending
      <4>2. BasePending(thread'[u].todo, item, (Entry(foreground[user])[item])')
        BY <1>1, <3>1, <3>4, <4>1
      <4> QED
        BY <4>2 DEF BaseAgrees
    <3> QED
      BY <1>5, <3>2, <3>3, <3>4 DEF BaseAgrees
  <2> QED
    BY <2>1 DEF BaseFollows
<1> QED
  BY <1>3, <1>4, <1>5 DEF BaseFollows

LEMMA BeginBases ==
    ASSUME IInv, SInv, BInv, NEW t \in Threads, NEW items \in SUBSET Items, items # {},
           NEW todo \in Seq(Effects), Begin(t, items, todo),
           UNCHANGED << active, foreground, usersParam, baseParam, faults >>,
           items = Items \/ (UNCHANGED << events, phase >> /\ (behind => behind')),
           \/ behind => behind'
           \/ \A user \in Users : InFront(user)' => BaseAwaited(user)' \/ RebaseIn(todo, user),
           SwitchedInv',
           \A i \in DOMAIN todo :
              /\ BaseShape(todo[i], Before(todo, i))'
              /\ \A user \in Users : InFront(user)' => BaseFits(todo[i], After(todo, i), user)',
           \A user \in Users : BaseAwaited(user) => BaseAwaited(user)' \/ RebaseIn(todo, user) \/ ~InFront(user)
    PROVE  BInv'
<1>1. /\ ~Busy(t) /\ thread'[t].todo = todo
      /\ \A u \in Threads \ {t} :
            /\ thread'[u].todo = thread[u].todo
            /\ thread[u].inDoubt => thread'[u].inDoubt
            /\ Busy(u) /\ thread[u].items \cap items # {} => thread'[u].inDoubt
  <2>1. TypeInv
    BY DEF IInv
  <2>2. /\ ~Busy(t) /\ thread' \in [Threads -> Handlers]
        /\ thread'[t].todo = todo /\ thread'[t].items = items
        /\ \A u \in Threads \ {t} :
              /\ thread'[u].todo = thread[u].todo /\ thread'[u].items = thread[u].items
              /\ thread[u].inDoubt => thread'[u].inDoubt
              /\ Busy(u) /\ thread[u].items \cap items # {} => thread'[u].inDoubt /\ thread'[t].inDoubt
        /\ shown' = shown \/ shown' = InDoubt
    BY <2>1, BeginThreads
  <2> QED
    BY <2>2
<1>2. foreground' = foreground
  OBVIOUS
<1>3. \/ /\ shown' = shown /\ ~thread'[t].inDoubt
         /\ \A u \in Threads \ {t} : thread'[u] = thread[u]
      \/ NoneShown'
  <2>1. PICK others : others = {u \in Threads \ {t} : Busy(u) /\ thread[u].items \cap items # {}}
    OBVIOUS
  <2>2. CASE others = {}
    <3>1. shown' = shown /\ thread' = [u \in Threads |->
             IF u = t THEN [todo |-> todo, items |-> items, inDoubt |-> FALSE]
             ELSE thread[u]]
      BY <2>1, <2>2 DEF Begin
    <3> QED
      BY <3>1
  <2>3. CASE others # {}
    <3>1. shown' = InDoubt
      BY <2>1, <2>3 DEF Begin
    <3>2. NoneShown'
      BY <3>1, NotShown DEF NoneShown, IsShown, InDoubt
    <3> QED
      BY <3>2
  <2> QED
    BY <2>2, <2>3
<1>4. DoubtInv'
  <2> SUFFICES ASSUME faults = 0, NEW u \in Threads, Busy(u)', thread'[u].inDoubt PROVE NoneShown'
    BY DEF DoubtInv, Busy
  <2>1. CASE /\ shown' = shown /\ ~thread'[t].inDoubt
             /\ \A w \in Threads \ {t} : thread'[w] = thread[w]
    <3>1. Busy(u) /\ thread[u].inDoubt
      BY <2>1 DEF Busy
    <3>2. NoneShown
      BY <3>1 DEF BInv, DoubtInv
    <3> QED
      BY <2>1, <3>2 DEF NoneShown, IsShown
  <2> QED
    BY <1>3, <2>1
<1>5. ASSUME NEW u \in Threads \ {t}, ~thread'[u].inDoubt
      PROVE  /\ ~thread[u].inDoubt
             /\ DOMAIN thread[u].todo # {} => UNCHANGED << events, phase >> /\ (behind => behind')
  <2>1. ~thread[u].inDoubt
    BY <1>1, <1>5
  <2>2. CASE items = Items /\ DOMAIN thread[u].todo # {}
    <3>1. thread[u].todo # << >>
      BY <2>2, NoEffects
    <3>2. Busy(u)
      BY <3>1 DEF Busy
    <3>3. thread[u].items \cap thread[u].items # {} /\ thread[u].items \subseteq Items
      BY <3>2, EffectType DEF IInv, SInv, SoleInv
    <3>4. thread'[u].inDoubt
      BY <1>1, <2>2, <3>2, <3>3
    <3> QED
      BY <1>5, <3>4
  <2> QED
    BY <2>1, <2>2
<1>6. BaseShapeInv'
  <2> SUFFICES ASSUME faults = 0, NEW u \in Threads, ~thread'[u].inDoubt, NEW i \in DOMAIN thread'[u].todo
               PROVE  BaseShape(thread[u].todo[i], Before(thread[u].todo, i))'
    BY DEF BaseShapeInv
  <2>1. CASE u = t
    <3>1. BaseShape(todo[i], Before(todo, i))'
      BY <1>1, <2>1
    <3> QED
      BY <1>1, <2>1, <3>1, SMTT(30) DEF BaseShape, Before
  <2>2. CASE u # t
    <3>1. thread'[u].todo = thread[u].todo /\ ~thread[u].inDoubt
      BY <1>1, <1>5, <2>2
    <3>2. PICK e : e = thread[u].todo[i]
      OBVIOUS
    <3>3. PICK before : before = Before(thread[u].todo, i)
      OBVIOUS
    <3>4. BaseShape(e, before)
      BY <3>1, <3>2, <3>3 DEF BInv, BaseShapeInv
    <3>5. BaseShape(e, before)'
      BY <3>4 DEF BaseShape
    <3> QED
      BY <3>1, <3>2, <3>3, <3>5 DEF BaseShape, Before
  <2> QED
    BY <2>1, <2>2
<1>7. BaseFitsInv'
  <2> SUFFICES ASSUME NEW user \in Users, InFront(user)', NEW u \in Threads, ~thread'[u].inDoubt,
                      NEW i \in DOMAIN thread'[u].todo
               PROVE  BaseFits(thread[u].todo[i], After(thread[u].todo, i), user)'
    BY DEF BaseFitsInv
  <2>1. CASE u = t
    <3>1. BaseFits(todo[i], After(todo, i), user)'
      BY <1>1, <2>1
    <3>2. thread'[u].todo = todo
      BY <1>1, <2>1
    <3> QED
      BY <3>1, <3>2, SMTT(30) DEF BaseFits, After
  <2>2. CASE u # t
    <3>1. /\ thread'[u].todo = thread[u].todo /\ ~thread[u].inDoubt
          /\ UNCHANGED << events, phase >> /\ (behind => behind')
      BY <1>1, <1>5, <2>2
    <3>2. InFront(user)
      BY <3>1 DEF InFront
    <3>3. PICK e : e = thread[u].todo[i]
      OBVIOUS
    <3>4. PICK after : after = After(thread[u].todo, i)
      OBVIOUS
    <3>5. BaseFits(e, after, user)
      BY <3>1, <3>2, <3>3, <3>4 DEF BInv, BaseFitsInv
    <3>6. \A item : (Entry(foreground[user])[item])' = Entry(foreground[user])[item]
      BY <1>2 DEF Entry
    <3>7. Ends(after, user)' = Ends(after, user) /\ BaseAwaited(user)' = BaseAwaited(user)
      BY <3>1 DEF Ends, BaseAwaited
    <3>8. BaseFits(e, after, user)'
      BY <3>5, <3>6, <3>7 DEF BaseFits
    <3> QED
      BY <3>1, <3>3, <3>4, <3>8 DEF BaseFits, After
  <2> QED
    BY <2>1, <2>2
<1>8. BaseFollowInv'
  <2> SUFFICES ASSUME NEW user \in Users, InFront(user)', IsShown(user)' PROVE BaseFollows(user)'
    BY DEF BaseFollowInv, InFront, IsShown
  <2>1. IsShown(user)
    BY <1>3 DEF NoneShown, IsShown
  <2>2. phase # "published"
    BY <2>1 DEF SInv, SoleInv, NoneShown, IsShown
  <2>3. CASE behind => behind'
    <3>1. InFront(user)
      BY <2>2, <2>3 DEF InFront
    <3>2. BaseFollows(user)
      BY <2>1, <3>1 DEF BInv, BaseFollowInv
    <3> QED
      BY <1>2, <3>1, <3>2, BeginFollows
  <2>4. CASE BaseAwaited(user)'
    BY <2>4 DEF BaseFollows
  <2>5. CASE RebaseIn(todo, user)
    <3>1. RebaseIn(thread'[t].todo, user)
      BY <1>1, <2>5
    <3>2. RebaseUnderWay(user)'
      BY <3>1 DEF RebaseUnderWay
    <3> QED
      BY <3>2 DEF BaseFollows
  <2> QED
    BY <2>3, <2>4, <2>5
<1>9. faults' \in Nat
  BY DEF BInv
<1> QED
  BY <1>4, <1>6, <1>7, <1>8, <1>9 DEF BInv

\* A set request writes the base before the account of each of the users.
LEMMA OnSetBases ==
    ASSUME TypeInv, NEW item \in Items, NEW context \in Contexts, NEW value \in Values, NEW must \in BOOLEAN,
           NEW list, list = OnSet(item, context, value, must)
    PROVE  \E users \in {active, {context.userId}} : \A i \in DOMAIN list :
              /\ list[i].op \in {"configuration", "base", "persist"}
              /\ list[i].op = "base" =>
                    /\ DOMAIN list[i].values = {item} /\ \A b \in Before(list, i) : b.op = "configuration"
                    /\ \E a \in After(list, i) : a.op = "persist" /\ item \in DOMAIN a.values
              /\ list[i].op = "persist" =>
                    /\ DOMAIN list[i].values = {item} /\ About(list[i]) \in users
                    /\ \E b \in Before(list, i) : b.op = "base"
                    /\ \A b \in Before(list, i) : b.op = "base" =>
                          DOMAIN b.values = {item} /\ b.values[item] = list[i].values[item]
<1>1. PICK c, b \in Effects, rest \in Seq(Effects) :
         Persisting(OnSet(item, context, value, must), c, b, rest, item, context, value)
  BY OnSetParts, Zenon
<1>2. /\ list = << c, b >> \o rest
      /\ c.op = "configuration" /\ c.users \in {active, {context.userId}}
      /\ b.op = "base" /\ DOMAIN b.values = {item} /\ b.values[item] = value
      /\ \A j \in DOMAIN rest :
            /\ rest[j].op = "persist" /\ DOMAIN rest[j].values = {item} /\ rest[j].values[item] = value
            /\ About(rest[j]) \in c.users
      /\ \A user \in c.users : \E j \in DOMAIN rest : About(rest[j]) = user
  BY <1>1 DEF Persisting
<1>3. /\ list \in Seq(Effects) /\ Len(rest) \in Nat /\ Len(list) = 2 + Len(rest)
      /\ DOMAIN list = 1 .. 2 + Len(rest) /\ DOMAIN rest = 1 .. Len(rest)
      /\ \A i \in DOMAIN list : \/ i = 1 /\ list[i] = c
                                \/ i = 2 /\ list[i] = b
                                \/ i > 2 /\ i - 2 \in DOMAIN rest /\ list[i] = rest[i - 2]
      /\ \A j \in DOMAIN rest : j + 2 \in DOMAIN list /\ list[j + 2] = rest[j]
  BY <1>2, TwoAndMore
<1>4. PICK user \in c.users : TRUE
  <2>1. active # {}
    BY DEF TypeInv, TypeOK
  <2> QED
    BY <1>2, <2>1
<1>5. PICK last \in DOMAIN rest : rest[last].op = "persist" /\ item \in DOMAIN rest[last].values
  BY <1>2, <1>4
<1>6. ASSUME NEW i \in DOMAIN list, list[i].op = "base"
      PROVE  /\ DOMAIN list[i].values = {item} /\ \A x \in Before(list, i) : x.op = "configuration"
             /\ \E a \in After(list, i) : a.op = "persist" /\ item \in DOMAIN a.values
  <2>1. i = 2 /\ list[i] = b
    BY <1>2, <1>3, <1>6
  <2>2. \A j \in 1 .. i - 1 : j = 1 /\ list[j] = c
    BY <1>3, <2>1
  <2>3. last + 2 \in i + 1 .. Len(list) /\ list[last + 2] = rest[last]
    BY <1>3, <2>1
  <2>4. rest[last] \in After(list, i)
    BY <2>3 DEF After
  <2> QED
    BY <1>2, <1>5, <2>1, <2>2, <2>4 DEF Before
<1>7. ASSUME NEW i \in DOMAIN list, list[i].op = "persist"
      PROVE  /\ DOMAIN list[i].values = {item} /\ About(list[i]) \in c.users
             /\ \E x \in Before(list, i) : x.op = "base"
             /\ \A x \in Before(list, i) : x.op = "base" =>
                   DOMAIN x.values = {item} /\ x.values[item] = list[i].values[item]
  <2>1. i > 2 /\ i - 2 \in DOMAIN rest /\ list[i] = rest[i - 2]
    BY <1>2, <1>3, <1>7
  <2>2. DOMAIN list[i].values = {item} /\ list[i].values[item] = value /\ About(list[i]) \in c.users
    BY <1>2, <2>1
  <2>3. 2 \in 1 .. i - 1 /\ 2 \in DOMAIN list
    BY <1>3, <2>1
  <2>4. list[2] = b
    BY <1>3, <2>3
  <2>5. b \in Before(list, i)
    BY <2>3, <2>4 DEF Before
  <2>6. ASSUME NEW x \in Before(list, i), x.op = "base" PROVE x = b
    <3>1. PICK j \in 1 .. i - 1 : x = list[j]
      BY <2>6 DEF Before
    <3>2. j \in DOMAIN list
      BY <1>3, <3>1
    <3>3. list[j] = c \/ list[j] = b \/ (j - 2 \in DOMAIN rest /\ list[j] = rest[j - 2])
      BY <1>3, <3>2
    <3> QED
      BY <1>2, <2>6, <3>1, <3>3
  <2> QED
    BY <1>2, <2>2, <2>5, <2>6
<1>8. \A i \in DOMAIN list : list[i].op \in {"configuration", "base", "persist"}
  BY <1>2, <1>3
<1> QED
  BY <1>2, <1>6, <1>7, <1>8

LEMMA RequestBases ==
    ASSUME IInv, SInv, BInv, Request
    PROVE  BInv'
<1>1. UNCHANGED << active, foreground, persistent, usersParam, flags, events, faults >>
  BY DEF Request
<1>2. UNCHANGED << active, foreground, usersParam, baseParam, faults, events, phase >>
  BY <1>1 DEF persistent, flags
<1>3. PICK user0 \in Users, t \in Threads, item \in Items, value \in Values, must \in BOOLEAN :
         /\ behind' = (behind \/ user0 \notin active)
         /\ Begin(t, {item}, OnSet(item, foreground[user0], value, must))
  BY RequestBegins DEF IInv
<1>4. foreground[user0] \in Contexts /\ foreground[user0].userId = user0
  BY DEF IInv, TypeInv, TypeOK
<1>5. PICK todo : todo = OnSet(item, foreground[user0], value, must)
  OBVIOUS
<1>6. todo \in Seq(Effects) /\ Begin(t, {item}, todo) /\ {item} \in SUBSET Items /\ {item} # {}
  BY <1>3, <1>4, <1>5, OnSetEffects DEF IInv
<1>7. PICK users \in {active, {user0}} : \A i \in DOMAIN todo :
         /\ todo[i].op \in {"configuration", "base", "persist"}
         /\ todo[i].op = "base" =>
               /\ DOMAIN todo[i].values = {item} /\ \A b \in Before(todo, i) : b.op = "configuration"
               /\ \E a \in After(todo, i) : a.op = "persist" /\ item \in DOMAIN a.values
         /\ todo[i].op = "persist" =>
               /\ DOMAIN todo[i].values = {item} /\ About(todo[i]) \in users
               /\ \E b \in Before(todo, i) : b.op = "base"
               /\ \A b \in Before(todo, i) : b.op = "base" =>
                     DOMAIN b.values = {item} /\ b.values[item] = todo[i].values[item]
  <2>1. TypeInv
    BY DEF IInv
  <2> QED
    BY <1>4, <1>5, <2>1, OnSetBases
<1>8. SwitchedInv'
  BY <1>2 DEF BInv, SwitchedInv
<1>9. ASSUME NEW i \in DOMAIN todo
      PROVE  /\ BaseShape(todo[i], Before(todo, i))'
             /\ \A user \in Users : InFront(user)' => BaseFits(todo[i], After(todo, i), user)'
  <2>1. BaseShape(todo[i], Before(todo, i))'
    BY <1>7 DEF BaseShape, Setting
  <2>2. ASSUME NEW user \in Users, InFront(user)' PROVE BaseFits(todo[i], After(todo, i), user)'
    <3>1. active = {user} /\ user0 \in active
      BY <1>2, <1>3, <2>2 DEF InFront
    <3>2. users = {user}
      BY <1>3, <1>7, <3>1
    <3>3. todo[i].op = "persist" => About(todo[i]) = user
      BY <1>7, <3>2
    <3>4. todo[i].op \in {"configuration", "base", "persist"}
      BY <1>7
    <3>5. todo[i].op = "base" => \A item1 \in DOMAIN todo[i].values :
             \E a \in After(todo, i) : a.op = "persist" /\ item1 \in DOMAIN a.values
      BY <1>7
    <3>6. About(todo[i])' = About(todo[i])
      BY DEF About
    <3> QED
      BY <3>3, <3>4, <3>5, <3>6 DEF BaseFits, Showing
  <2> QED
    BY <2>1, <2>2
<1>10. \A user \in Users : BaseAwaited(user) => BaseAwaited(user)'
  BY <1>2 DEF BaseAwaited
<1>11. behind => behind'
  BY <1>3
<1> QED
  BY <1>2, <1>6, <1>8, <1>9, <1>10, <1>11, BeginBases

LEMMA OnAddSystemAbilityBases ==
    ASSUME IInv, SInv, BInv, OnAddSystemAbility
    PROVE  BInv'
<1> DEFINE e == [op |-> "upgradeIfNeeded"]
           f == [op |-> "initializeIfNeeded"]
<1>1. e \in Effects /\ f \in Effects /\ e.op = "upgradeIfNeeded" /\ f.op = "initializeIfNeeded"
  BY DEF Effects
<1>2. Begin("sa", Items, << e, f >>)
  BY DEF OnAddSystemAbility
<1> HIDE DEF e, f
<1>3. /\ << e, f >> \in Seq(Effects) /\ DOMAIN << e, f >> = {1, 2}
      /\ << e, f >>[1] = e /\ << e, f >>[2] = f
      /\ Before(<< e, f >>, 1) = {} /\ Before(<< e, f >>, 2) = {e}
  BY <1>1, TwoEffects
<1>4. PICK todo \in Seq(Effects) : /\ todo = << e, f >> /\ DOMAIN todo = {1, 2} /\ todo[1] = e /\ todo[2] = f
                                   /\ Before(todo, 1) = {} /\ Before(todo, 2) = {e}
  BY <1>3, Zenon
<1>5. UNCHANGED << environment, persistent, usersParam, events, faults >>
  BY DEF OnAddSystemAbility
<1>6. UNCHANGED << active, foreground, behind, usersParam, baseParam, faults, events >>
  BY <1>5 DEF environment, persistent
<1>7. PICK t \in Threads : t = "sa"
  BY DEF Threads
<1>8. Begin(t, Items, todo) /\ Items \in SUBSET Items /\ Items # {}
  BY <1>2, <1>4, <1>7 DEF Items
<1>9. ASSUME NEW i \in DOMAIN todo
      PROVE  /\ BaseShape(todo[i], Before(todo, i))'
             /\ \A user \in Users : InFront(user)' => BaseFits(todo[i], After(todo, i), user)'
  <2>1. /\ todo[i].op \in {"upgradeIfNeeded", "initializeIfNeeded"}
        /\ \A b \in Before(todo, i) : b.op # "configuration"
    <3>1. CASE i = 1
      BY <1>1, <1>4, <3>1
    <3>2. CASE i = 2
      BY <1>1, <1>4, <3>2
    <3> QED
      BY <1>4, <3>1, <3>2
  <2> QED
    BY <2>1 DEF BaseShape, BaseFits, Showing, Setting
<1>10. SwitchedInv'
  BY <1>6 DEF BInv, SwitchedInv
<1>11. \A user \in Users : BaseAwaited(user) => BaseAwaited(user)'
  BY <1>6 DEF BaseAwaited
<1> QED
  BY <1>6, <1>8, <1>9, <1>10, <1>11, BeginBases

\* A switch to an account that others are going to follow.
LEMMA SpreadAfter ==
    ASSUME NEW c \in Contexts, NEW todo,
           todo = AccountContextSwitchFunc(c) \o << [op |-> "spread", context |-> c] >>
    PROVE  /\ \A i \in DOMAIN todo :
                 /\ todo[i].op # "apply"
                 /\ todo[i].op = "loaded" => \E a \in After(todo, i) : a.op = "spread"
           /\ \E i \in DOMAIN todo : todo[i].op = "spread"
<1>1. PICK list : list = AccountContextSwitchFunc(c)
  OBVIOUS
<1>2. /\ list \in Seq(Effects)
      /\ \A i \in DOMAIN list : list[i].op \in {"compatible", "initialize", "loaded"}
  BY <1>1, SwitchList
<1>3. PICK s \in Effects : s = [op |-> "spread", context |-> c] /\ s.op = "spread"
  <2> DEFINE s == [op |-> "spread", context |-> c]
  <2>1. s \in Effects /\ s.op = "spread"
    BY DEF Effects
  <2> QED
    BY <2>1, Zenon
<1>4. todo = list \o << s >>
  BY <1>1, <1>3
<1>5. /\ Len(list) \in Nat /\ DOMAIN list = 1 .. Len(list)
      /\ Len(todo) = Len(list) + 1 /\ DOMAIN todo = 1 .. Len(list) + 1
      /\ \A i \in 1 .. Len(list) : todo[i] = list[i]
      /\ todo[Len(list) + 1] = s
  <2>1. << s >> \in Seq(Effects) /\ Len(<< s >>) = 1 /\ << s >>[1] = s
    OBVIOUS
  <2>2. PICK last \in Seq(Effects) : last = << s >> /\ Len(last) = 1 /\ last[1] = s
    BY <2>1, Zenon
  <2>3. /\ list \o last \in Seq(Effects) /\ Len(list \o last) = Len(list) + 1
        /\ \A i \in 1 .. Len(list) + 1 :
              (list \o last)[i] = IF i <= Len(list) THEN list[i] ELSE last[i - Len(list)]
    BY <1>2, <2>2, ConcatProperties
  <2>4. Len(list) \in Nat /\ DOMAIN list = 1 .. Len(list)
    BY <1>2, LenProperties
  <2>5. DOMAIN (list \o last) = 1 .. Len(list) + 1
    BY <2>3, LenProperties
  <2>6. \A i \in 1 .. Len(list) : i <= Len(list) /\ i \in 1 .. Len(list) + 1
    BY <2>4
  <2>7. ~(Len(list) + 1 <= Len(list)) /\ (Len(list) + 1) - Len(list) = 1 /\ Len(list) + 1 \in 1 .. Len(list) + 1
    BY <2>4
  <2>8. (list \o last)[Len(list) + 1] = s
    BY <2>2, <2>3, <2>7
  <2> QED
    BY <1>4, <2>2, <2>3, <2>4, <2>5, <2>6, <2>8
<1>6. ASSUME NEW i \in DOMAIN todo, i # Len(list) + 1
      PROVE  /\ todo[i].op \in {"compatible", "initialize", "loaded"}
             /\ s \in After(todo, i)
  <2>1. i \in 1 .. Len(list) /\ Len(list) + 1 \in i + 1 .. Len(todo)
    BY <1>5, <1>6
  <2> QED
    BY <1>2, <1>5, <2>1 DEF After
<1>7. Len(list) + 1 \in DOMAIN todo
  BY <1>5
<1> QED
  BY <1>3, <1>5, <1>6, <1>7

LEMMA OnReceiveEventBases ==
    ASSUME IInv, SInv, BInv, OnReceiveEvent
    PROVE  BInv'
<1>1. PICK event : event = Head(events)
  OBVIOUS
<1>2. /\ events # << >> /\ events' = Tail(events)
      /\ Begin("event", Items,
               IF event.action = "USER_SWITCHED"
               THEN AccountContextSwitchFunc(foreground[event.context.userId])
               ELSE HandleSubProfileSwitched(event.context))
      /\ behind' = FALSE
      /\ UNCHANGED << active, foreground, configuration, persistent, usersParam, flags, faults, changes,
                       accepted >>
  BY <1>1 DEF OnReceiveEvent
<1>3. event \in [action : {"USER_SWITCHED", "SUB_PROFILE_SWITCHED"}, context : Contexts]
  BY <1>1, <1>2, HeadTailProperties DEF IInv, TypeInv
<1>4. UNCHANGED << active, foreground, usersParam, baseParam, faults, phase >>
  BY <1>2 DEF persistent, flags
<1>5. PICK todo : todo = IF event.action = "USER_SWITCHED"
                         THEN AccountContextSwitchFunc(foreground[event.context.userId])
                         ELSE HandleSubProfileSwitched(event.context)
  OBVIOUS
<1>6. PICK target \in Contexts : target = EventTarget(event) /\ target.userId = event.context.userId
  BY <1>3, NotShown DEF EventTarget, IInv, TypeInv, TypeOK
<1>7. /\ todo \in Seq(Effects)
      /\ \A i \in DOMAIN todo : SwitchesTo(todo[i], Before(todo, i), target)
      /\ \E i \in DOMAIN todo : todo[i].op \in {"loaded", "apply"}
  BY <1>3, <1>5, <1>6, OnReceiveEventList DEF IInv
<1>8. PICK t \in Threads : t = "event"
  BY DEF Threads
<1>9. Begin(t, Items, todo) /\ Items \in SUBSET Items /\ Items # {}
  BY <1>2, <1>5, <1>8 DEF Items
<1>10. PICK n \in Nat : /\ DOMAIN events = 1 .. n /\ n >= 1 /\ DOMAIN events' = 1 .. n - 1
                        /\ events[1] = event /\ \A i \in 1 .. n - 1 : events'[i] = events[i + 1]
  <2>1. events \in Seq([action : {"USER_SWITCHED", "SUB_PROFILE_SWITCHED"}, context : Contexts])
    BY DEF IInv, TypeInv
  <2>2. /\ Len(events) \in Nat /\ Len(events) >= 1 /\ DOMAIN events = 1 .. Len(events)
        /\ DOMAIN Tail(events) = 1 .. Len(events) - 1 /\ events[1] = event
        /\ \A i \in 1 .. Len(Tail(events)) : Tail(events)[i] = events[i + 1]
        /\ Len(Tail(events)) = Len(events) - 1
    BY <1>1, <1>2, <2>1, HeadTailProperties, LenProperties, EmptySeq
  <2>3. DOMAIN Tail(events) = DOMAIN events' /\ DOMAIN events' = 1 .. Len(events) - 1
    BY <1>2, <2>2
  <2>4. \A i \in 1 .. Len(events) - 1 : events'[i] = events[i + 1]
    BY <1>2, <2>2
  <2> QED
    BY <2>2, <2>3, <2>4
<1>11. \A i \in 2 .. n : i - 1 \in DOMAIN events' /\ events'[i - 1] = events[i]
  <2> SUFFICES ASSUME NEW i \in 2 .. n PROVE i - 1 \in DOMAIN events' /\ events'[i - 1] = events[i]
    OBVIOUS
  <2>1. i - 1 \in 1 .. n - 1 /\ (i - 1) + 1 = i
    OBVIOUS
  <2> QED
    BY <1>10, <2>1
<1>12. SwitchedInv'
  <2> SUFFICES ASSUME NEW user \in Users, active = {user}, NEW i \in DOMAIN events',
                      events'[i].action = "USER_SWITCHED"
               PROVE  \/ events'[i].context.userId = user
                      \/ \E j \in DOMAIN events' : /\ j > i /\ events'[j].action = "USER_SWITCHED"
                                                   /\ events'[j].context.userId = user
    BY <1>4 DEF SwitchedInv
  <2>1. i + 1 \in DOMAIN events /\ events[i + 1] = events'[i] /\ i \in Nat
    BY <1>10
  <2>2. \/ events'[i].context.userId = user
        \/ \E j \in DOMAIN events : /\ j > i + 1 /\ events[j].action = "USER_SWITCHED"
                                    /\ events[j].context.userId = user
    BY <2>1 DEF BInv, SwitchedInv
  <2>3. ASSUME NEW j \in DOMAIN events, j > i + 1 PROVE j \in 2 .. n /\ j - 1 > i
    BY <1>10, <2>1, <2>3
  <2> QED
    BY <1>11, <2>2, <2>3
<1>13. ASSUME event.action # "USER_SWITCHED", event.context.userId = USER100
       PROVE  /\ \A i \in DOMAIN todo :
                    /\ todo[i].op # "apply"
                    /\ todo[i].op = "loaded" => \E a \in After(todo, i) : a.op = "spread"
              /\ \E i \in DOMAIN todo : todo[i].op = "spread"
  <2>1. event.context \in Contexts
    BY <1>3
  <2>2. todo = AccountContextSwitchFunc(event.context) \o << [op |-> "spread", context |-> event.context] >>
    BY <1>5, <1>13 DEF HandleSubProfileSwitched
  <2> QED
    BY <2>1, <2>2, SpreadAfter
<1>14. ASSUME NEW i \in DOMAIN todo, NEW user \in Users, InFront(user)', todo[i].op \in {"loaded", "apply"}
       PROVE  target.userId = user \/ BaseAwaited(user)' \/ \E a \in After(todo, i) : Rebases(a, user)
  <2> active = {user} /\ \A c \in Contexts : IsSubProfileContext(c) => c.userId \in {USER100, user}
    BY <1>4, <1>14 DEF InFront
  <2>1. 1 \in DOMAIN events /\ \A j \in DOMAIN events : j > 1 => j \in 2 .. n
    BY <1>10
  <2>2. CASE event.action = "USER_SWITCHED" /\ target.userId # user
    <3>1. PICK j \in DOMAIN events : /\ j > 1 /\ events[j].action = "USER_SWITCHED"
                                     /\ events[j].context.userId = user
      BY <1>6, <1>10, <2>1, <2>2 DEF BInv, SwitchedInv
    <3> QED
      BY <1>11, <2>1, <3>1 DEF BaseAwaited
  <2>3. CASE event.action = "SUB_PROFILE_SWITCHED" /\ target.userId # user
    <3>1. IsSubProfileContext(event.context) /\ event.context \in Contexts
      BY <1>3, <1>10, <2>1, <2>3 DEF SInv, EventsInv
    <3>2. event.context.userId = USER100 /\ user # USER100
      BY <1>6, <2>3, <3>1
    <3>3. PICK a \in After(todo, i) : a.op = "spread"
      BY <1>13, <1>14, <2>3, <3>2
    <3> QED
      BY <3>2, <3>3 DEF Rebases
  <2> QED
    BY <1>3, <2>2, <2>3
<1>15. ASSUME NEW i \in DOMAIN todo
       PROVE  /\ BaseShape(todo[i], Before(todo, i))'
              /\ \A user \in Users : InFront(user)' => BaseFits(todo[i], After(todo, i), user)'
  <2>1. SwitchesTo(todo[i], Before(todo, i), target)
    BY <1>7
  <2>2. BaseShape(todo[i], Before(todo, i))'
    BY <2>1 DEF SwitchesTo, BaseShape
  <2>3. ASSUME NEW user \in Users, InFront(user)' PROVE BaseFits(todo[i], After(todo, i), user)'
    <3>1. todo[i].op \in {"loaded", "apply"} =>
             target.userId = user \/ BaseAwaited(user)' \/ \E a \in After(todo, i) : Rebases(a, user)
      BY <1>14, <2>3
    <3>2. todo[i].op \in {"loaded", "apply"} => target.userId = user \/ Ends(After(todo, i), user)'
      BY <3>1 DEF Ends, Rebases, After, Account
    <3>3. /\ todo[i].op \in {"compatible", "initialize", "loaded", "spread", "apply"}
          /\ todo[i].op \in {"loaded", "apply"} => Account(todo[i]) = target
      BY <2>1 DEF SwitchesTo
    <3> QED
      BY <3>2, <3>3 DEF BaseFits, Showing, Account
  <2> QED
    BY <2>2, <2>3
<1>16. ASSUME NEW user \in Users, BaseAwaited(user) PROVE BaseAwaited(user)' \/ RebaseIn(todo, user)
  <2>1. PICK i \in DOMAIN events :
           \/ events[i].action = "USER_SWITCHED" /\ events[i].context.userId = user
           \/ events[i].action = "SUB_PROFILE_SWITCHED" /\ events[i].context.userId \in {USER100, user}
    BY <1>16 DEF BaseAwaited
  <2>2. CASE i # 1
    <3>1. i \in 2 .. n
      BY <1>10, <2>2
    <3> QED
      BY <1>11, <2>1, <3>1 DEF BaseAwaited
  <2>3. CASE i = 1 /\ target.userId = user
    <3>1. PICK k \in DOMAIN todo : todo[k].op \in {"loaded", "apply"}
      BY <1>7
    <3>2. Account(todo[k]) = target
      BY <1>7, <3>1 DEF SwitchesTo
    <3> QED
      BY <2>3, <3>1, <3>2 DEF RebaseIn, Rebases
  <2>4. CASE i = 1 /\ target.userId # user
    <3>1. event.action # "USER_SWITCHED" /\ event.context.userId = USER100 /\ user # USER100
      BY <1>6, <1>10, <2>1, <2>4
    <3>2. PICK k \in DOMAIN todo : todo[k].op = "spread"
      BY <1>13, <3>1
    <3> QED
      BY <3>1, <3>2 DEF RebaseIn, Rebases
  <2> QED
    BY <2>2, <2>3, <2>4
<1>17. ASSUME NEW user \in Users, InFront(user)' PROVE BaseAwaited(user)' \/ RebaseIn(todo, user)
  <2>1. PICK k \in DOMAIN todo : todo[k].op \in {"loaded", "apply"}
    BY <1>7
  <2>2. CASE target.userId = user
    <3>1. Account(todo[k]) = target
      BY <1>7, <2>1 DEF SwitchesTo
    <3> QED
      BY <2>1, <2>2, <3>1 DEF RebaseIn, Rebases
  <2>3. ASSUME NEW a \in After(todo, k), Rebases(a, user) PROVE RebaseIn(todo, user)
    <3>1. PICK j \in k + 1 .. Len(todo) : a = todo[j]
      BY DEF After
    <3>2. DOMAIN todo = 1 .. Len(todo) /\ Len(todo) \in Nat
      BY <1>7, LenProperties
    <3>3. j \in DOMAIN todo
      BY <3>1, <3>2
    <3> QED
      BY <2>3, <3>1, <3>3 DEF RebaseIn
  <2> QED
    BY <1>14, <1>17, <2>1, <2>2, <2>3
<1> QED
  BY <1>4, <1>7, <1>9, <1>12, <1>15, <1>16, <1>17, BeginBases

-----------------------------------------------------------------------------
(* The base parameters: switches, and what is lost.                        *)

LEMMA EnvironmentBases ==
    ASSUME IInv, SInv, BInv, UNCHANGED << usersParam, baseParam, thread, faults >>,
           shown' = shown \/ NoneShown', SwitchedInv',
           \A user \in Users : InFront(user)' =>
              \/ BaseAwaited(user)'
              \/ InFront(user) /\ events' = events /\ foreground'[user] = foreground[user]
    PROVE  BInv'
<1>1. DoubtInv'
  <2>1. NoneShown => NoneShown'
    BY DEF NoneShown, IsShown
  <2> QED
    BY <2>1 DEF BInv, DoubtInv, Busy
<1>2. BaseShapeInv'
  <2> SUFFICES ASSUME faults = 0, NEW t \in Threads, ~thread[t].inDoubt, NEW i \in DOMAIN thread[t].todo
               PROVE  BaseShape(thread[t].todo[i], Before(thread[t].todo, i))'
    BY DEF BaseShapeInv
  <2>1. BaseShape(thread[t].todo[i], Before(thread[t].todo, i))
    BY DEF BInv, BaseShapeInv
  <2> QED
    BY <2>1 DEF BaseShape, Before
<1>3. BaseFitsInv'
  <2> SUFFICES ASSUME NEW user \in Users, InFront(user)', NEW t \in Threads, ~thread[t].inDoubt,
                      NEW i \in DOMAIN thread[t].todo
               PROVE  BaseFits(thread[t].todo[i], After(thread[t].todo, i), user)'
    BY DEF BaseFitsInv
  <2>1. PICK e : e = thread[t].todo[i]
    OBVIOUS
  <2>2. PICK after : after = After(thread[t].todo, i)
    OBVIOUS
  <2>3. CASE BaseAwaited(user)'
    <3>1. Ends(after, user)'
      BY <2>3 DEF Ends
    <3>2. BaseFits(e, after, user)'
      BY <2>3, <3>1 DEF BaseFits
    <3> QED
      BY <2>1, <2>2, <3>2 DEF BaseFits, After
  <2>4. CASE InFront(user) /\ events' = events /\ foreground'[user] = foreground[user]
    <3>1. BaseFits(e, after, user)
      BY <2>1, <2>2, <2>4 DEF BInv, BaseFitsInv
    <3>2. \A item : (Entry(foreground[user])[item])' = Entry(foreground[user])[item]
      BY <2>4 DEF Entry
    <3>3. Ends(after, user)' = Ends(after, user) /\ BaseAwaited(user)' = BaseAwaited(user)
      BY <2>4 DEF Ends, BaseAwaited
    <3>4. BaseFits(e, after, user)'
      BY <3>1, <3>2, <3>3 DEF BaseFits
    <3> QED
      BY <2>1, <2>2, <3>4 DEF BaseFits, After
  <2> QED
    BY <2>3, <2>4
<1>4. BaseFollowInv'
  <2> SUFFICES ASSUME NEW user \in Users, InFront(user)', IsShown(user)' PROVE BaseFollows(user)'
    BY DEF BaseFollowInv, InFront, IsShown
  <2>1. CASE BaseAwaited(user)'
    BY <2>1 DEF BaseFollows
  <2>2. CASE InFront(user) /\ events' = events /\ foreground'[user] = foreground[user]
    <3>1. IsShown(user)
      BY DEF NoneShown, IsShown
    <3>2. BaseFollows(user)
      BY <2>2, <3>1 DEF BInv, BaseFollowInv
    <3>3. \A item : (Entry(foreground[user])[item])' = Entry(foreground[user])[item]
      BY <2>2 DEF Entry
    <3>4. BaseAwaited(user) => BaseAwaited(user)'
      BY <2>2 DEF BaseAwaited
    <3>5. RebaseUnderWay(user) => RebaseUnderWay(user)'
      BY DEF RebaseUnderWay
    <3>6. \A item \in Items : BaseAgrees(user, item) => BaseAgrees(user, item)'
      BY <3>3 DEF BaseAgrees
    <3> QED
      BY <3>2, <3>4, <3>5, <3>6 DEF BaseFollows
  <2> QED
    BY <2>1, <2>2
<1>5. faults' \in Nat
  BY DEF BInv
<1> QED
  BY <1>1, <1>2, <1>3, <1>4, <1>5 DEF BInv

LEMMA SwitchUserBases ==
    ASSUME IInv, SInv, BInv, NEW user0 \in Users, SwitchUser(user0)
    PROVE  BInv'
<1>1. /\ Publish([action |-> "USER_SWITCHED", context |-> foreground[user0]]) /\ active' = {user0}
      /\ UNCHANGED << foreground, behind, configuration, persistent, usersParam, flags, thread, faults, history >>
  BY DEF SwitchUser
<1>2. UNCHANGED << foreground, usersParam, baseParam, thread, faults, shown, phase >>
  BY <1>1 DEF persistent, flags, history
<1>3. PICK event \in [action : {"USER_SWITCHED", "SUB_PROFILE_SWITCHED"}, context : Contexts] :
         /\ event = [action |-> "USER_SWITCHED", context |-> foreground[user0]]
         /\ event.action = "USER_SWITCHED" /\ event.context.userId = user0
  <2> DEFINE e == [action |-> "USER_SWITCHED", context |-> foreground[user0]]
  <2>1. foreground[user0] \in Contexts /\ foreground[user0].userId = user0
    BY DEF IInv, TypeInv, TypeOK
  <2>2. /\ e \in [action : {"USER_SWITCHED", "SUB_PROFILE_SWITCHED"}, context : Contexts]
        /\ e.action = "USER_SWITCHED" /\ e.context.userId = user0
    BY <2>1
  <2> QED
    BY <2>2, Zenon
<1>4. CASE phase = "published"
  <2>1. events' = events /\ events = << >>
    BY <1>1, <1>4 DEF Publish, IInv, TypeInv
  <2>2. DOMAIN events' = {}
    BY <2>1, NoEffects
  <2>3. SwitchedInv'
    BY <2>2 DEF SwitchedInv
  <2>4. \A user \in Users : ~InFront(user)'
    BY <1>2, <1>4 DEF InFront
  <2> QED
    BY <1>2, <2>3, <2>4, EnvironmentBases
<1>5. CASE phase # "published"
  <2>1. events' = Append(events, event)
    BY <1>1, <1>3, <1>5 DEF Publish
  <2>2. /\ \A i \in DOMAIN events' : i \in DOMAIN events \/ events'[i] = event
        /\ \E i \in DOMAIN events' : events'[i] = event /\ \A j \in DOMAIN events : j < i
    <3>1. events \in Seq([action : {"USER_SWITCHED", "SUB_PROFILE_SWITCHED"}, context : Contexts])
      BY DEF IInv, TypeInv
    <3> QED
      BY <2>1, <3>1, Appended
  <2>3. DOMAIN events' \subseteq Int /\ DOMAIN events \subseteq Int
    <3>1. /\ events \in Seq([action : {"USER_SWITCHED", "SUB_PROFILE_SWITCHED"}, context : Contexts])
          /\ events' \in Seq([action : {"USER_SWITCHED", "SUB_PROFILE_SWITCHED"}, context : Contexts])
      BY <2>1, AppendProperties DEF IInv, TypeInv
    <3> QED
      BY <3>1, LenProperties
  <2>4. PICK last \in DOMAIN events' : events'[last] = event /\ \A j \in DOMAIN events : last > j
    BY <2>2, <2>3
  <2>5. ASSUME NEW user \in Users, active' = {user} PROVE user = user0
    BY <1>1, <2>5
  <2>6. SwitchedInv'
    <3> SUFFICES ASSUME NEW user \in Users, active' = {user}, NEW i \in DOMAIN events'
                 PROVE  \/ events'[i].context.userId = user
                        \/ \E j \in DOMAIN events' : /\ j > i /\ events'[j].action = "USER_SWITCHED"
                                                     /\ events'[j].context.userId = user
      BY DEF SwitchedInv
    <3> QED
      BY <1>3, <2>2, <2>4, <2>5
  <2>7. \A user \in Users : InFront(user)' => BaseAwaited(user)'
    BY <1>3, <2>4, <2>5 DEF InFront, BaseAwaited
  <2> QED
    BY <1>2, <2>6, <2>7, EnvironmentBases
<1> QED
  BY <1>4, <1>5

\* A switch between sub-profiles of a user in the background is what InFront excludes.
LEMMA SwitchSubProfileBases ==
    ASSUME IInv, SInv, BInv, NEW context \in Contexts, SwitchSubProfile(context)
    PROVE  BInv'
<1>1. /\ foreground[context.userId] # context
      /\ foreground' = [foreground EXCEPT ![context.userId] = context]
      /\ Publish([action |-> "SUB_PROFILE_SWITCHED", context |-> context])
      /\ UNCHANGED << active, behind, configuration, persistent, usersParam, flags, thread, faults, history >>
  BY DEF SwitchSubProfile
<1>2. UNCHANGED << active, behind, usersParam, baseParam, thread, faults, shown, phase >>
  BY <1>1 DEF persistent, flags, history
<1>3. PICK event \in [action : {"USER_SWITCHED", "SUB_PROFILE_SWITCHED"}, context : Contexts] :
         /\ event = [action |-> "SUB_PROFILE_SWITCHED", context |-> context]
         /\ event.action = "SUB_PROFILE_SWITCHED" /\ event.context = context
  <2> DEFINE e == [action |-> "SUB_PROFILE_SWITCHED", context |-> context]
  <2>1. /\ e \in [action : {"USER_SWITCHED", "SUB_PROFILE_SWITCHED"}, context : Contexts]
        /\ e.action = "SUB_PROFILE_SWITCHED" /\ e.context = context
    OBVIOUS
  <2> QED
    BY <2>1, Zenon
<1>4. IsSubProfileContext(context)
  <2> SUFFICES ASSUME context.subProfileId = INVALID_SUB_PROFILE_ID PROVE FALSE
    BY DEF IsSubProfileContext
  <2>1. context \in [userId : Users, subProfileId : Int]
    BY AppearanceServiceAssumption
  <2>2. context = Base(context.userId)
    BY <2>1 DEF Base
  <2>3. foreground[context.userId] \in Contexts /\ foreground[context.userId].userId = context.userId
    BY NotShown DEF IInv, TypeInv, TypeOK
  <2>4. foreground[context.userId] = Base(context.userId)
    BY <2>2, <2>3, AppearanceServiceAssumption
  <2> QED
    BY <1>1, <2>2, <2>4
<1>5. CASE phase = "published"
  <2>1. events' = events /\ events = << >>
    BY <1>1, <1>5 DEF Publish, IInv, TypeInv
  <2>2. DOMAIN events' = {}
    BY <2>1, NoEffects
  <2>3. SwitchedInv'
    BY <2>2 DEF SwitchedInv
  <2>4. \A user \in Users : ~InFront(user)'
    BY <1>2, <1>5 DEF InFront
  <2> QED
    BY <1>2, <2>3, <2>4, EnvironmentBases
<1>6. CASE phase # "published"
  <2>1. events' = Append(events, event)
    BY <1>1, <1>3, <1>6 DEF Publish
  <2>2. /\ \A i \in DOMAIN events : i \in DOMAIN events' /\ events'[i] = events[i]
        /\ \A i \in DOMAIN events' : i \in DOMAIN events \/ events'[i] = event
        /\ \E i \in DOMAIN events' : events'[i] = event
    <3>1. events \in Seq([action : {"USER_SWITCHED", "SUB_PROFILE_SWITCHED"}, context : Contexts])
      BY DEF IInv, TypeInv
    <3> QED
      BY <2>1, <3>1, Appended
  <2>3. SwitchedInv'
    <3> SUFFICES ASSUME NEW user \in Users, active = {user}, NEW i \in DOMAIN events',
                        events'[i].action = "USER_SWITCHED"
                 PROVE  \/ events'[i].context.userId = user
                        \/ \E j \in DOMAIN events' : /\ j > i /\ events'[j].action = "USER_SWITCHED"
                                                     /\ events'[j].context.userId = user
      BY <1>2 DEF SwitchedInv
    <3>1. i \in DOMAIN events /\ events'[i] = events[i]
      BY <1>3, <2>2
    <3>2. \/ events[i].context.userId = user
          \/ \E j \in DOMAIN events : /\ j > i /\ events[j].action = "USER_SWITCHED"
                                      /\ events[j].context.userId = user
      BY <3>1 DEF BInv, SwitchedInv
    <3> QED
      BY <2>2, <3>1, <3>2
  <2>4. ASSUME NEW user \in Users, InFront(user)' PROVE BaseAwaited(user)'
    <3>1. context.userId \in {USER100, user}
      BY <1>4, <2>4 DEF InFront
    <3> QED
      BY <1>3, <2>2, <3>1 DEF BaseAwaited
  <2> QED
    BY <1>2, <2>3, <2>4, EnvironmentBases
<1> QED
  BY <1>5, <1>6

LEMMA OnRemoveSystemAbilityBases ==
    ASSUME IInv, SInv, BInv, OnRemoveSystemAbility
    PROVE  BInv'
<1>1. /\ phase = "serving" /\ shown' = NothingShown
      /\ UNCHANGED << environment, persistent, usersParam, events, thread, faults >>
  BY DEF OnRemoveSystemAbility
<1>2. UNCHANGED << active, foreground, behind, usersParam, baseParam, events, thread, faults >>
  BY <1>1 DEF persistent, environment
<1>3. NoneShown'
  BY <1>1, NothingIsShown DEF NoneShown, IsShown
<1>4. SwitchedInv'
  BY <1>2 DEF BInv, SwitchedInv
<1>5. \A user \in Users : InFront(user)' => InFront(user)
  BY <1>1, <1>2 DEF InFront
<1> QED
  BY <1>2, <1>3, <1>4, <1>5, EnvironmentBases

LEMMA UnchangedBases ==
    ASSUME IInv, SInv, BInv, UNCHANGED << active, foreground, behind, usersParam, baseParam, events, thread, faults,
                                          shown, phase >>
    PROVE  BInv'
<1>1. SwitchedInv'
  BY DEF BInv, SwitchedInv
<1>2. \A user \in Users : InFront(user)' => InFront(user)
  BY DEF InFront
<1> QED
  BY <1>1, <1>2, EnvironmentBases

LEMMA NoBases == NothingYet /\ faults \in Nat => BInv
<1> SUFFICES ASSUME NothingYet, faults \in Nat PROVE BInv
  OBVIOUS
<1>1. \A t \in Threads : ~Busy(t) /\ DOMAIN thread[t].todo = {}
  BY NoEffects DEF NothingYet, Idle, Busy
<1>2. NoneShown /\ DOMAIN events = {}
  BY NothingIsShown, NoEffects DEF NothingYet, NoneShown, IsShown
<1> QED
  BY <1>1, <1>2 DEF BInv, DoubtInv, BaseShapeInv, BaseFitsInv, SwitchedInv, BaseFollowInv, NoneShown

LEMMA CrashBases ==
    ASSUME BInv, Crash
    PROVE  BInv'
<1>1. (NothingYet /\ faults \in Nat)'
  BY DEF Crash, NothingYet, Idle, NothingShown, Nobody, BInv
<1> QED
  BY <1>1, NoBases, PTL

LEMMA InitBInv == Init => BInv
<1>1. Init => NothingYet /\ faults \in Nat
  BY DEF Init, NothingYet, Idle, NothingShown, Nobody
<1> QED
  BY <1>1, NoBases

LEMMA NextBInv == IInv /\ SInv /\ BInv /\ [Next]_vars => BInv'
<1> SUFFICES ASSUME IInv, SInv, BInv, [Next]_vars PROVE BInv'
  OBVIOUS
<1>1. CASE Request
  BY <1>1, RequestBases
<1>2. CASE OnAddSystemAbility
  BY <1>2, OnAddSystemAbilityBases
<1>3. CASE OnRemoveSystemAbility
  BY <1>3, OnRemoveSystemAbilityBases
<1>4. CASE AppMgrStarts
  <2>1. UNCHANGED << active, foreground, behind, usersParam, baseParam, events, thread, faults, shown, phase >>
    BY <1>4 DEF AppMgrStarts, environment, persistent, history
  <2> QED
    BY <2>1, UnchangedBases
<1>5. CASE OnReceiveEvent
  BY <1>5, OnReceiveEventBases
<1>6. CASE Crash
  BY <1>6, CrashBases
<1>7. CASE \E user \in Users : SwitchUser(user)
  BY <1>7, SwitchUserBases
<1>8. CASE \E context \in Contexts : SwitchSubProfile(context)
  BY <1>8, SwitchSubProfileBases
<1>9. CASE \E t \in Threads : Step(t)
  <2> SUFFICES ASSUME NEW t \in Threads, Step(t) PROVE BInv'
    BY <1>9
  <2>1. CASE UpdateConfiguration(t) \/ SetBaseParam(t) \/ SetContextParam(t) \/ ConfigurePersistence(t) \/ Promise(t)
    BY <2>1, UpdateConfigurationBases, SetBaseParamBases, SetContextParamBases, ConfigurePersistenceBases,
       PromiseBases
  <2>2. CASE UpgradeIfNeeded(t) \/ InitializeIfNeeded(t) \/ DoCompatibleProcess(t) \/ GetOldParam(t) \/ CarryTo(t)
             \/ Carried(t)
    BY <2>2, UpgradeIfNeededBases, InitializeIfNeededBases, DoCompatibleProcessBases, GetOldParamBases,
       CarryToBases, CarriedBases
  <2>3. CASE DoInitProcess(t) \/ InitContext(t) \/ Initialized(t)
    BY <2>3, DoInitProcessBases, InitContextBases, InitializedBases
  <2>4. CASE UpdateCurrentUserConfiguration(t) \/ SendOnce(t) \/ LoadedDarkMode(t)
             \/ ApplyAppearanceContextToUser(t) \/ GetMultipleUsers(t) \/ UpdateForeground(t)
    BY <2>4, UpdateCurrentUserConfigurationBases, SendOnceBases, LoadedDarkModeBases,
       ApplyAppearanceContextToUserBases, GetMultipleUsersBases, UpdateForegroundBases
  <2> QED
    BY <2>1, <2>2, <2>3, <2>4 DEF Step
<1>10. CASE UNCHANGED vars
  <2>1. UNCHANGED << active, foreground, behind, usersParam, baseParam, events, thread, faults, shown, phase >>
    BY <1>10 DEF vars, environment, persistent, flags, history
  <2> QED
    BY <2>1, UnchangedBases
<1> QED
  BY <1>1, <1>2, <1>3, <1>4, <1>5, <1>6, <1>7, <1>8, <1>9, <1>10 DEF Next

\* When nothing is under way, the base is that of the user in front.
LEMMA NoBaseIsPending == IInv /\ BInv => BaseFollowsForeground
<1> SUFFICES ASSUME IInv, BInv, Quiet, faults = 0, ~behind, NEW user \in Users,
                    active = {user}, shown[user] = foreground[user],
                    \A c \in Contexts : IsSubProfileContext(c) => c.userId \in {USER100, user}
             PROVE  baseParam = Entry(foreground[user])
  BY DEF BaseFollowsForeground
<1>1. DOMAIN events = {} /\ \A t \in Threads : DOMAIN thread[t].todo = {}
  BY NoEffects DEF Quiet, Busy
<1>2. foreground[user] \in Contexts /\ baseParam \in [Items -> Values]
  BY DEF IInv, TypeInv, TypeOK
<1>3. InFront(user) /\ IsShown(user)
  BY <1>2 DEF InFront, IsShown, Quiet
<1>4. BaseFollows(user)
  BY <1>3 DEF BInv, BaseFollowInv
<1>5. ~BaseAwaited(user) /\ ~RebaseUnderWay(user)
  BY <1>1 DEF BaseAwaited, RebaseUnderWay, RebaseIn
<1>6. PICK entry \in [Items -> Values] : entry = Entry(foreground[user])
  BY <1>2, EntryType DEF IInv
<1>7. \A item \in Items : baseParam[item] = entry[item]
  BY <1>1, <1>4, <1>5, <1>6 DEF BaseFollows, BaseAgrees, PersistPending, BasePending
<1> QED
  BY <1>2, <1>6, <1>7

\* Whenever the service is at rest, no call has failed and nobody in the background has
\* set anything since the last switch, the parameters from which the device shows its
\* next start are those of the account in front, for any users and accounts with the
\* sub-profiles that the property says, and whatever else came before, what users in the
\* background set earlier included:
\* switches that overtook one another or a set, a late initialization, a set by a
\* timer, a new application manager, a crash (UpdateCurrentUserConfiguration,
\* SetDarkMode and the other set requests, UserSwitchFunc, DoInitProcess).
THEOREM BaseFollowsForegroundHolds == Spec => []BaseFollowsForeground
<1>1. Spec => []SInv
  BY InitSInv, NextSInv, Inductive, PTL DEF Spec
<1>2. Spec => []BInv
  BY <1>1, InitBInv, NextBInv, Inductive, PTL DEF Spec
<1> QED
  BY <1>2, Inductive, NoBaseIsPending, PTL
=============================================================================
