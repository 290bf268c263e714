----------------------------- MODULE GlobalLock ------------------------------
(***************************************************************************)
(* AFF4GlobalLock (lib/aff4_utils.c): a recursive pthread mutex and one    *)
(* counter, depth, that all threads share and that is meant to equal the   *)
(* number of times the owner has locked the mutex.  timedwait and          *)
(* allow_threads read depth to release the mutex completely and to         *)
(* restore it afterwards.                                                  *)
(*                                                                         *)
(* Every access to the mutex or to depth is a step of its own, so that     *)
(* what protects depth is the mutex and nothing else.                      *)
(***************************************************************************)
EXTENDS Integers

CONSTANTS Threads,   \* the threads that use the library
          NoThread,  \* the owner of a free mutex
          MaxLevel   \* bound: library functions on a thread's stack

ASSUME GLAssumption == NoThread \notin Threads /\ MaxLevel \in Nat \ {0}

VARIABLES
  owner, count,  \* the recursive mutex: its owner, and how often it is locked
  depth,         \* self->depth
  pc,            \* what each thread is doing in the lock's code
  n,             \* iterations left of the loop in lock() or unlock()
  caller,        \* who called lock() or unlock() last: the AFF4_GL macros,
                 \* timedwait or allow_threads
  saved,         \* the local depth of timedwait(), the _depth of allow_threads
  level          \* library functions on each thread's stack

mutex == <<owner, count>>
vars  == <<owner, count, depth, pc, n, caller, saved, level>>

PCs == {"run", "lock", "locked", "unlock", "unlocked", "cond", "condwait",
        "blocked", "woken", "away"}

Init == /\ owner = NoThread /\ count = 0
        /\ depth = 0
        /\ pc = [t \in Threads |-> "run"]
        /\ n = [t \in Threads |-> 0]
        /\ caller = [t \in Threads |-> "gl"]
        /\ saved = [t \in Threads |-> 0]
        /\ level = [t \in Threads |-> 0]
------------------------------------------------------------------------------
\* pthread_mutex_lock() and pthread_mutex_unlock() on a recursive mutex.
Acquire(t) == /\ owner \in {NoThread, t}
              /\ owner' = t
              /\ count' = count + 1

Release(t) == /\ owner = t
              /\ count' = count - 1
              /\ owner' = IF count = 1 THEN NoThread ELSE t

\* Where unlock() returns to.
After(who) == IF who = "gl" THEN "run"
              ELSE IF who = "timedwait" THEN "cond" ELSE "away"

\* lock(number) and unlock(number) are called: the loop has number
\* iterations, none at all when number is not positive.
LoopLock(t, number) ==
  /\ n' = [n EXCEPT ![t] = number]
  /\ pc' = [pc EXCEPT ![t] = IF number > 0 THEN "lock" ELSE "run"]

LoopUnlock(t, number, who) ==
  LET k == IF number < depth THEN number ELSE depth
  IN /\ n' = [n EXCEPT ![t] = k]
     /\ caller' = [caller EXCEPT ![t] = who]
     /\ pc' = [pc EXCEPT ![t] = IF k > 0 THEN "unlock" ELSE After(who)]
------------------------------------------------------------------------------
\* The calls a thread makes: AFF4_GL_LOCK on entry to a library function,
\* AFF4_GL_UNLOCK on exit, timedwait, AFF4_BEGIN_ALLOW_THREADS and
\* AFF4_END_ALLOW_THREADS.
GLLock(t) ==
  /\ pc[t] = "run" /\ level[t] < MaxLevel
  /\ level' = [level EXCEPT ![t] = @ + 1]
  /\ caller' = [caller EXCEPT ![t] = "gl"]
  /\ LoopLock(t, 1)
  /\ UNCHANGED <<mutex, depth, saved>>

GLUnlock(t) ==
  /\ pc[t] = "run" /\ level[t] > 0
  /\ level' = [level EXCEPT ![t] = @ - 1]
  /\ LoopUnlock(t, 1, "gl")
  /\ UNCHANGED <<mutex, depth, saved>>

\* Mutant: the levels above the first are not unlocked before the wait.
TimedwaitNested(t) ==
  /\ pc[t] = "run" /\ level[t] > 0
  /\ saved' = [saved EXCEPT ![t] = 1]
  /\ LoopUnlock(t, 0, "timedwait")
  /\ UNCHANGED <<mutex, depth, level>>

Timedwait(t) ==
  /\ pc[t] = "run" /\ level[t] > 0
  /\ saved' = [saved EXCEPT ![t] = depth]
  /\ LoopUnlock(t, depth - 1, "timedwait")
  /\ UNCHANGED <<mutex, depth, level>>

AllowThreads(t) ==
  /\ pc[t] = "run" /\ level[t] > 0
  /\ saved' = [saved EXCEPT ![t] = depth]
  /\ LoopUnlock(t, depth, "allow")
  /\ UNCHANGED <<mutex, depth, level>>

\* Mutant: AFF4_END_ALLOW_THREADS locks once, whatever the level was.
EndAllowThreadsOnce(t) ==
  /\ pc[t] = "away"
  /\ LoopLock(t, 1)
  /\ UNCHANGED <<mutex, depth, caller, saved, level>>

EndAllowThreads(t) ==
  /\ pc[t] = "away"
  /\ LoopLock(t, saved[t])
  /\ UNCHANGED <<mutex, depth, caller, saved, level>>
------------------------------------------------------------------------------
\* The loop of lock(): pthread_mutex_lock, then depth ++.
MutexLock(t) ==
  /\ pc[t] = "lock"
  /\ Acquire(t)
  /\ pc' = [pc EXCEPT ![t] = "locked"]
  /\ UNCHANGED <<depth, n, caller, saved, level>>

DepthUp(t) ==
  /\ pc[t] = "locked"
  /\ depth' = depth + 1
  /\ LoopLock(t, n[t] - 1)
  /\ UNCHANGED <<mutex, caller, saved, level>>

\* The loop of unlock(): depth --, then pthread_mutex_unlock.
DepthDown(t) ==
  /\ pc[t] = "unlock"
  /\ depth' = depth - 1
  /\ pc' = [pc EXCEPT ![t] = "unlocked"]
  /\ UNCHANGED <<mutex, n, caller, saved, level>>

MutexUnlock(t) ==
  /\ pc[t] = "unlocked"
  /\ Release(t)
  /\ n' = [n EXCEPT ![t] = @ - 1]
  /\ pc' = [pc EXCEPT ![t] = IF n[t] > 1 THEN "unlock" ELSE After(caller[t])]
  /\ UNCHANGED <<depth, caller, saved, level>>
------------------------------------------------------------------------------
\* The rest of timedwait(): depth --, the wait, depth ++, lock(depth - 1).

\* Mutant: the release that the wait implies is not tracked in depth.
CondDownUntracked(t) ==
  /\ pc[t] = "cond"
  /\ pc' = [pc EXCEPT ![t] = "condwait"]
  /\ UNCHANGED <<mutex, depth, n, caller, saved, level>>

CondDown(t) ==
  /\ pc[t] = "cond"
  /\ depth' = depth - 1
  /\ pc' = [pc EXCEPT ![t] = "condwait"]
  /\ UNCHANGED <<mutex, n, caller, saved, level>>

\* pthread_cond_timedwait() gives the mutex up ...
CondWait(t) ==
  /\ pc[t] = "condwait"
  /\ Release(t)
  /\ pc' = [pc EXCEPT ![t] = "blocked"]
  /\ UNCHANGED <<depth, n, caller, saved, level>>

\* ... or fails at once and keeps it: the deadline is computed as
\* (tv_usec + timeout % 1000000) * 1000 nanoseconds, which is not a valid
\* time when it reaches a second, and the call then returns EINVAL.
CondInvalid(t) ==
  /\ pc[t] = "condwait"
  /\ pc' = [pc EXCEPT ![t] = "woken"]
  /\ UNCHANGED <<mutex, depth, n, caller, saved, level>>

\* A signal, the deadline or a spurious wakeup: it returns with the mutex.
CondWake(t) ==
  /\ pc[t] = "blocked"
  /\ Acquire(t)
  /\ pc' = [pc EXCEPT ![t] = "woken"]
  /\ UNCHANGED <<depth, n, caller, saved, level>>

\* Mutant: the level is restored from the shared depth, not the saved one.
CondUpShared(t) ==
  /\ pc[t] = "woken"
  /\ depth' = depth + 1
  /\ LoopLock(t, depth)
  /\ UNCHANGED <<mutex, caller, saved, level>>

CondUp(t) ==
  /\ pc[t] = "woken"
  /\ depth' = depth + 1
  /\ LoopLock(t, saved[t] - 1)
  /\ UNCHANGED <<mutex, caller, saved, level>>
------------------------------------------------------------------------------
Call(t) == GLLock(t) \/ GLUnlock(t) \/ Timedwait(t) \/ AllowThreads(t)
             \/ EndAllowThreads(t)

Step(t) == MutexLock(t) \/ DepthUp(t) \/ DepthDown(t) \/ MutexUnlock(t)
             \/ CondDown(t) \/ CondWait(t) \/ CondInvalid(t) \/ CondWake(t)
             \/ CondUp(t)

Next == \E t \in Threads : Call(t) \/ Step(t)

Spec == Init /\ [][Next]_vars
------------------------------------------------------------------------------
TypeOK == /\ owner \in Threads \cup {NoThread}
          /\ count \in Nat
          /\ depth \in Int
          /\ pc \in [Threads -> PCs]
          /\ n \in [Threads -> Int]
          /\ caller \in [Threads -> {"gl", "timedwait", "allow"}]
          /\ saved \in [Threads -> Int]
          /\ level \in [Threads -> 0..MaxLevel]

\* A thread that runs between two calls owns the mutex if and only if it is
\* inside the library, and has then locked it exactly once for each library
\* function on its stack.  timedwait() and allow_threads() restore the level
\* from depth, a counter other threads write in between (aff4_utils.c:478-490
\* and 494-499): a wrong value there would leave the mutex locked for ever, or
\* let the thread go on without it.
LevelRestored ==
  \A t \in Threads : pc[t] = "run" =>
    /\ (owner = t) <=> (level[t] > 0)
    /\ owner = t => count = level[t]

\* A thread that waits on a condition, or that has allowed threads, holds no
\* lock at all: "This ensures the mutex becomes completely unlocked and other
\* threads can run" (aff4_utils.c:472-475).
FullyReleased == \A t \in Threads : pc[t] \in {"blocked", "away"} => owner # t

\* depth is the recursion count of the mutex ("The recursiveness of this
\* lock", aff4_utils.h:60) whenever its owner is not between the two halves of
\* an update, and zero when the mutex is free.
DepthIsCount ==
  /\ owner = NoThread => depth = 0
  /\ \A t \in Threads :
       (owner = t /\ pc[t] \notin {"locked", "unlocked", "condwait", "woken"})
         => depth = count
------------------------------------------------------------------------------
\* The number of times t has locked the mutex, by where it is in the code.
Held(t) == IF pc[t] = "run" THEN level[t]
           ELSE IF pc[t] = "lock" THEN level[t] - n[t]
           ELSE IF pc[t] = "locked" THEN level[t] - n[t] + 1
           ELSE IF pc[t] \in {"unlock", "unlocked"}
                THEN n[t] + (IF caller[t] = "gl" THEN level[t]
                             ELSE IF caller[t] = "timedwait" THEN 1 ELSE 0)
           ELSE IF pc[t] \in {"cond", "condwait", "woken"} THEN 1 ELSE 0

\* The inductive invariant: the mutex is locked as often as its owner's place
\* in the code says, depth lags behind it only inside an update, and the saved
\* depth is the level to come back to.
IInv ==
  /\ TypeOK
  /\ owner = NoThread <=> count = 0
  /\ owner = NoThread => depth = 0
  /\ \A t \in Threads :
       /\ Held(t) = IF owner = t THEN count ELSE 0
       /\ owner = t =>
            depth = IF pc[t] \in {"locked", "unlocked", "condwait", "woken"}
                    THEN count - 1 ELSE count
       /\ pc[t] \in {"lock", "locked"} => n[t] \in 1..level[t]
       /\ pc[t] \in {"unlock", "unlocked"} => n[t] >= 1
       /\ (\/ pc[t] \in {"cond", "condwait", "blocked", "woken", "away"}
           \/ pc[t] \in {"unlock", "unlocked"} /\ caller[t] # "gl")
            => saved[t] = level[t] /\ level[t] >= 1
       /\ pc[t] \in {"lock", "locked", "unlock", "unlocked"} /\ caller[t] = "gl"
            => n[t] = 1
       /\ pc[t] \in {"cond", "condwait", "blocked", "woken"}
            => caller[t] = "timedwait"
       /\ pc[t] = "away" => caller[t] = "allow"

\* A library function is on the stack, for the monitor, from the moment its
\* AFF4_GL_LOCK has the mutex until its AFF4_GL_UNLOCK gives it up.
MonitorLevel ==
  [t \in Threads |->
     IF pc[t] = "lock" /\ caller[t] = "gl" THEN level[t] - 1
     ELSE IF pc[t] \in {"unlock", "unlocked"} /\ caller[t] = "gl"
          THEN level[t] + 1
     ELSE level[t]]

M == INSTANCE Monitor WITH inside <- owner, level <- MonitorLevel

\* The lock implements the monitor that the rules of aff4_utils.h:19-56
\* promise: one thread at a time inside, and a thread that stepped out to wait
\* comes back at the level it had.
ImplementsMonitor == M!Spec
==============================================================================
