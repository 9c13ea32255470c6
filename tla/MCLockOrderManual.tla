------------------------- MODULE MCLockOrderManual -------------------------
(* A manual choice that departs from the schedule, and a settings observer. *)
EXTENDS LockOrder

ManualThreads == {"observer", "binder"}
ManualServes ==
    [t \in ManualThreads |-> IF t = "binder" THEN ManualHandlers ELSE ObserverHandlers]
=============================================================================
