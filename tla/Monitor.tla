------------------------------- MODULE Monitor -------------------------------
(***************************************************************************)
(* What the global lock of the library promises (aff4_utils.h, "threading  *)
(* rules"): one thread at a time is inside library code.  A thread may     *)
(* enter the library again while it is inside (library functions call each *)
(* other), so it has a level, the number of library functions on its       *)
(* stack.  A thread that waits for something steps out of the library,     *)
(* and comes back later at the level it had.                               *)
(***************************************************************************)
EXTENDS Naturals

CONSTANTS Threads,   \* the threads of the program
          NoThread   \* nobody is inside

VARIABLES inside,    \* the thread that is inside the library
          level      \* the number of library functions on each thread's stack

vars == <<inside, level>>

Init == /\ inside = NoThread
        /\ level = [t \in Threads |-> 0]

\* A library function is called, from outside or from another one.
Enter(t) == /\ inside \in {NoThread, t}
            /\ inside = t <=> level[t] > 0
            /\ inside' = t
            /\ level' = [level EXCEPT ![t] = @ + 1]

\* A library function returns; the thread is out when it was the last one.
Leave(t) == /\ inside = t
            /\ level[t] > 0
            /\ level' = [level EXCEPT ![t] = @ - 1]
            /\ inside' = IF level[t] = 1 THEN NoThread ELSE t

\* The thread steps out to wait, and comes back at the level it had.
StepOut(t) == /\ inside = t
              /\ inside' = NoThread
              /\ UNCHANGED level

StepIn(t) == /\ inside = NoThread
             /\ level[t] > 0
             /\ inside' = t
             /\ UNCHANGED level

Next == \E t \in Threads : Enter(t) \/ Leave(t) \/ StepOut(t) \/ StepIn(t)

Spec == Init /\ [][Next]_vars
==============================================================================
