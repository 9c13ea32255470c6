---------------------------- MODULE MCLockOrder ----------------------------
(***************************************************************************)
(* One thread for the common events, one for a settings observer and one   *)
(* for what comes by IPC: the timers of the time service and the calls.    *)
(* Every handler is there but the manual choice that departs from the      *)
(* schedule, which keeps to no order (module MCLockOrderManual).           *)
(***************************************************************************)
EXTENDS LockOrder

ServiceThreads == {"events", "observer", "binder"}
ServiceHandlers ==
    [t \in ServiceThreads |->
        CASE t = "events" -> EventHandlers
          [] t = "observer" -> ObserverHandlers
          [] t = "binder" -> TimerHandlers \cup IpcHandlers]
=============================================================================
