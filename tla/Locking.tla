------------------------------- MODULE Locking -------------------------------
(***************************************************************************)
(* Threads of the service that run handlers.  Of a handler only its lock   *)
(* sections are kept: it is a sequence of steps, each of which locks or    *)
(* unlocks one mutex (a std::lock_guard entered or left), or uses it: a    *)
(* section with no other inside is one step, which only has to find the    *)
(* mutex free.  A mutex is not recursive, and nobody queues for it: who    *)
(* gets a free mutex is open.                                              *)
(* Which handlers there are is the subject of module LockOrder.            *)
(***************************************************************************)
EXTENDS Integers, Sequences

CONSTANTS
    Runners,    \* the threads that run handlers
    Mutexes,
    Serves,     \* the handlers each thread may be called with
    Level,      \* the level of a mutex: sections of a higher one enclose it
    Calls       \* how many handlers a thread is called with, to bound the runs

Lock(m) == [op |-> "lock", mutex |-> m]
Unlock(m) == [op |-> "unlock", mutex |-> m]
Use(m) == [op |-> "use", mutex |-> m]
Step == [op : {"lock", "unlock", "use"}, mutex : Mutexes]
Handlers == UNION { Serves[t] : t \in Runners }
NoHandler == << >>

\* The mutexes locked before position i of handler h.
HeldAt(h, i) ==
    { m \in Mutexes : \E j \in 1 .. (i - 1) :
        /\ h[j] = Lock(m)
        /\ \A k \in (j + 1) .. (i - 1) : h[k] # Unlock(m) }

NoOwner == "nobody"

ASSUME LockingAssumption ==
    /\ NoOwner \notin Runners
    /\ Serves \in [Runners -> SUBSET Seq(Step)]
    /\ Level \in [Mutexes -> Nat]
    /\ Calls \in Nat

\* Sections are nested in each other: what is unlocked was locked, and the end
\* of a handler finds everything unlocked.
WellNested(h) ==
    /\ \A i \in DOMAIN h : h[i].op = "unlock" => h[i].mutex \in HeldAt(h, i)
    /\ HeldAt(h, Len(h) + 1) = {}

\* Inside a section only mutexes of a lower level are locked or used.
Descends(h) ==
    \A i \in DOMAIN h : h[i].op # "unlock" =>
        \A m \in HeldAt(h, i) : Level[h[i].mutex] < Level[m]

\* The discipline the handlers keep to, hypothesis of the theorem.
LockDiscipline == \A t \in Runners : \A h \in Serves[t] : WellNested(h) /\ Descends(h)

VARIABLES
    owner,      \* the thread holding each mutex
    handler,    \* the handler a thread is in, NoHandler if none
    position,   \* the next step of that handler
    calls       \* the calls a thread is still to get

lockVars == << owner, handler, position, calls >>

Busy(t) == handler[t] # NoHandler
Pending(t) == position[t] <= Len(handler[t])
NextStep(t) == handler[t][position[t]]
Holds(t) == HeldAt(handler[t], position[t])

\* An event, a notification, a timer or an IPC call arrives.
Call(t, h) ==
    /\ ~Busy(t) /\ calls[t] > 0
    /\ handler' = [handler EXCEPT ![t] = h]
    /\ position' = [position EXCEPT ![t] = 1]
    /\ calls' = [calls EXCEPT ![t] = @ - 1]
    /\ UNCHANGED owner

Advance(t) ==
    /\ position' = [position EXCEPT ![t] = @ + 1]
    /\ UNCHANGED << handler, calls >>

LockStep(t) ==
    /\ Pending(t) /\ NextStep(t).op = "lock"
    /\ owner[NextStep(t).mutex] = NoOwner
    /\ owner' = [owner EXCEPT ![NextStep(t).mutex] = t]
    /\ Advance(t)

UseStep(t) ==
    /\ Pending(t) /\ NextStep(t).op = "use"
    /\ owner[NextStep(t).mutex] = NoOwner
    /\ UNCHANGED owner
    /\ Advance(t)

UnlockStep(t) ==
    /\ Pending(t) /\ NextStep(t).op = "unlock"
    /\ owner' = [owner EXCEPT ![NextStep(t).mutex] = NoOwner]
    /\ Advance(t)

Return(t) ==
    /\ Busy(t) /\ ~Pending(t)
    /\ handler' = [handler EXCEPT ![t] = NoHandler]
    /\ position' = [position EXCEPT ![t] = 1]
    /\ UNCHANGED << owner, calls >>

LockInit ==
    /\ owner = [m \in Mutexes |-> NoOwner]
    /\ handler = [t \in Runners |-> NoHandler]
    /\ position = [t \in Runners |-> 1]
    /\ calls = [t \in Runners |-> Calls]

LockNext ==
    \E t \in Runners :
        \/ \E h \in Serves[t] : Call(t, h)
        \/ LockStep(t) \/ UseStep(t) \/ UnlockStep(t) \/ Return(t)

LockSpec == LockInit /\ [][LockNext]_lockVars

\* The scheduler runs every thread that can run; calls need not arrive.
LockFairness ==
    \A t \in Runners : WF_lockVars(LockStep(t) \/ UseStep(t) \/ UnlockStep(t) \/ Return(t))
FairLockSpec == LockSpec /\ LockFairness

-----------------------------------------------------------------------------
(* Properties                                                              *)

LockTypeOK ==
    /\ owner \in [Mutexes -> Runners \cup {NoOwner}]
    /\ handler \in [Runners -> Handlers \cup {NoHandler}]
    /\ position \in [Runners -> Nat \ {0}]
    /\ calls \in [Runners -> 0 .. Calls]

Blocked(t) ==
    /\ Pending(t) /\ NextStep(t).op # "unlock"
    /\ owner[NextStep(t).mutex] # NoOwner

\* A thread that locks or uses a mutex holds only mutexes of a higher level, and
\* what it holds at the end of a handler is nothing: the discipline, as kept.
KeepsDiscipline ==
    \A t \in Runners :
        IF Pending(t)
        THEN NextStep(t).op # "unlock" =>
                \A m \in Holds(t) : Level[NextStep(t).mutex] < Level[m]
        ELSE Holds(t) = {}

\* As long as some handler runs, one of them can go on: no circle of threads
\* waits for each other's mutexes, and no thread for its own.
NoDeadlock == (\E t \in Runners : Busy(t)) => (\E t \in Runners : Busy(t) /\ ~Blocked(t))

\* Every event, notification, timer and call is handled to its end.
EveryHandlerReturns == \A t \in Runners : Busy(t) ~> ~Busy(t)
=============================================================================
