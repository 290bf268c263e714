----------------------------- MODULE QueueClients ----------------------------
(* A Queue with threads that only put, threads that only get, and threads that
   remove: the system the runs and the theorems about Queue are about. *)
EXTENDS Queue

CONSTANTS Putting, Getting, Removing

ASSUME ClientsAssumption == Putting \cup Getting \cup Removing \subseteq Threads

vars == queueVars

Next == \/ \E t \in Putting : PutStep(t)
        \/ \E t \in Getting : GetStep(t)
        \/ \E t \in Removing : RemoveStep(t)
        \/ \E t \in Threads : WakeStep(t)

Spec == Init /\ [][Next]_vars
==============================================================================
