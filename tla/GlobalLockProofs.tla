-------------------------- MODULE GlobalLockProofs ---------------------------
(***************************************************************************)
(* For every set of threads and every bound on the nesting, the global     *)
(* lock restores the level of a thread that waited, releases the mutex     *)
(* completely while it waits, keeps depth equal to the recursion count,    *)
(* and implements the monitor.                                             *)
(***************************************************************************)
EXTENDS GlobalLock, TLAPS

\* The invariant holds when the lock has been constructed.
LEMMA InitIInv == Init => IInv
BY GLAssumption DEF Init, IInv, TypeOK, Held, PCs

\* Every step of every thread preserves the invariant.
LEMMA NextIInv == IInv /\ [Next]_vars => IInv'
<1> SUFFICES ASSUME IInv, [Next]_vars PROVE IInv'
  OBVIOUS
<1> USE GLAssumption
<1>1. ASSUME NEW t \in Threads, GLLock(t) PROVE IInv'
  BY <1>1 DEF GLLock, LoopLock, mutex, IInv, TypeOK, Held, PCs
<1>2. ASSUME NEW t \in Threads, GLUnlock(t) PROVE IInv'
  BY <1>2 DEF GLUnlock, LoopUnlock, After, mutex, IInv, TypeOK, Held, PCs
<1>3. ASSUME NEW t \in Threads, Timedwait(t) PROVE IInv'
  BY <1>3 DEF Timedwait, LoopUnlock, After, mutex, IInv, TypeOK, Held, PCs
<1>4. ASSUME NEW t \in Threads, AllowThreads(t) PROVE IInv'
  BY <1>4 DEF AllowThreads, LoopUnlock, After, mutex, IInv, TypeOK, Held, PCs
<1>5. ASSUME NEW t \in Threads, EndAllowThreads(t) PROVE IInv'
  BY <1>5 DEF EndAllowThreads, LoopLock, mutex, IInv, TypeOK, Held, PCs
<1>6. ASSUME NEW t \in Threads, MutexLock(t) PROVE IInv'
  BY <1>6 DEF MutexLock, Acquire, IInv, TypeOK, Held, PCs
<1>7. ASSUME NEW t \in Threads, DepthUp(t) PROVE IInv'
  BY <1>7 DEF DepthUp, LoopLock, mutex, IInv, TypeOK, Held, PCs
<1>8. ASSUME NEW t \in Threads, DepthDown(t) PROVE IInv'
  BY <1>8 DEF DepthDown, mutex, IInv, TypeOK, Held, PCs
<1>9. ASSUME NEW t \in Threads, MutexUnlock(t) PROVE IInv'
  BY <1>9 DEF MutexUnlock, Release, After, IInv, TypeOK, Held, PCs
<1>10. ASSUME NEW t \in Threads, CondDown(t) PROVE IInv'
  BY <1>10 DEF CondDown, mutex, IInv, TypeOK, Held, PCs
<1>11. ASSUME NEW t \in Threads, CondWait(t) PROVE IInv'
  BY <1>11 DEF CondWait, Release, IInv, TypeOK, Held, PCs
<1>12. ASSUME NEW t \in Threads, CondInvalid(t) PROVE IInv'
  BY <1>12 DEF CondInvalid, mutex, IInv, TypeOK, Held, PCs
<1>13. ASSUME NEW t \in Threads, CondWake(t) PROVE IInv'
  BY <1>13 DEF CondWake, Acquire, IInv, TypeOK, Held, PCs
<1>14. ASSUME NEW t \in Threads, CondUp(t) PROVE IInv'
  BY <1>14 DEF CondUp, LoopLock, mutex, IInv, TypeOK, Held, PCs
<1>15. CASE UNCHANGED vars
  BY <1>15 DEF vars, IInv, TypeOK, Held
<1> QED
  BY <1>1, <1>2, <1>3, <1>4, <1>5, <1>6, <1>7, <1>8, <1>9, <1>10, <1>11,
     <1>12, <1>13, <1>14, <1>15 DEF Next, Call, Step

\* The mutex is locked as often as its owner's place in the code says.
THEOREM Inductive == Spec => []IInv
BY InitIInv, NextIInv, PTL DEF Spec

\* timedwait and allow_threads restore the level exactly, so a thread that
\* runs library code owns the mutex once for each function on its stack.
THEOREM LevelRestoredHolds == Spec => []LevelRestored
<1>1. IInv => LevelRestored
  BY GLAssumption DEF IInv, LevelRestored, Held, TypeOK
<1> QED
  BY <1>1, Inductive, PTL

\* A thread that waits, or allows threads, holds no lock at all.
THEOREM FullyReleasedHolds == Spec => []FullyReleased
<1>1. IInv => FullyReleased
  BY GLAssumption DEF IInv, FullyReleased, Held, TypeOK
<1> QED
  BY <1>1, Inductive, PTL

\* depth is the recursion count of the mutex outside an update of it.
THEOREM DepthIsCountHolds == Spec => []DepthIsCount
<1>1. IInv => DepthIsCount
  BY DEF IInv, DepthIsCount
<1> QED
  BY <1>1, Inductive, PTL

\* Every step of the lock's code is a step of the monitor or leaves it alone.
LEMMA StepMonitor == IInv /\ [Next]_vars => [M!Next]_(M!vars)
<1> SUFFICES ASSUME IInv, [Next]_vars PROVE [M!Next]_(M!vars)
  OBVIOUS
<1> USE GLAssumption DEF IInv, TypeOK, PCs, Held, MonitorLevel, mutex
<1>1. ASSUME NEW t \in Threads, GLLock(t) PROVE UNCHANGED M!vars
  BY <1>1 DEF GLLock, LoopLock, M!vars
<1>2. ASSUME NEW t \in Threads, GLUnlock(t) PROVE UNCHANGED M!vars
  BY <1>2 DEF GLUnlock, LoopUnlock, After, M!vars
<1>3. ASSUME NEW t \in Threads, Timedwait(t) PROVE UNCHANGED M!vars
  BY <1>3 DEF Timedwait, LoopUnlock, After, M!vars
<1>4. ASSUME NEW t \in Threads, AllowThreads(t) PROVE UNCHANGED M!vars
  BY <1>4 DEF AllowThreads, LoopUnlock, After, M!vars
<1>5. ASSUME NEW t \in Threads, EndAllowThreads(t) PROVE UNCHANGED M!vars
  BY <1>5 DEF EndAllowThreads, LoopLock, M!vars
<1>6. ASSUME NEW t \in Threads, MutexLock(t)
      PROVE M!Enter(t) \/ M!StepIn(t) \/ UNCHANGED M!vars
  <2>1. CASE caller[t] = "gl"
    <3> DEFINE Up == [MonitorLevel EXCEPT ![t] = @ + 1]
    <3>1. MonitorLevel' = Up
      <4>1. ASSUME NEW u \in Threads, u # t PROVE MonitorLevel'[u] = Up[u]
        BY <1>6, <4>1 DEF MutexLock, Acquire
      <4>2. MonitorLevel[t] = level[t] - 1 /\ MonitorLevel'[t] = level[t]
        BY <1>6, <2>1 DEF MutexLock, Acquire
      <4>3. Up[t] = MonitorLevel[t] + 1
        OBVIOUS
      <4>4. Up[t] = MonitorLevel'[t]
        BY <4>2, <4>3
      <4> HIDE DEF IInv
      <4> QED
        BY <4>1, <4>4
    <3>2. owner = t <=> MonitorLevel[t] > 0
      BY <1>6, <2>1 DEF MutexLock, Acquire
    <3> QED
      BY <1>6, <3>1, <3>2 DEF MutexLock, Acquire, M!Enter
  <2>2. CASE caller[t] # "gl"
    <3>1. UNCHANGED MonitorLevel
      BY <1>6, <2>2 DEF MutexLock, Acquire
    <3>2. MonitorLevel[t] > 0
      BY <1>6, <2>2 DEF MutexLock, Acquire
    <3> QED
      BY <1>6, <3>1, <3>2 DEF MutexLock, Acquire, M!StepIn, M!vars
  <2> QED
    BY <2>1, <2>2
<1>7. ASSUME NEW t \in Threads, DepthUp(t) PROVE UNCHANGED M!vars
  BY <1>7 DEF DepthUp, LoopLock, M!vars
<1>8. ASSUME NEW t \in Threads, DepthDown(t) PROVE UNCHANGED M!vars
  BY <1>8 DEF DepthDown, M!vars
<1>9. ASSUME NEW t \in Threads, MutexUnlock(t)
      PROVE M!Leave(t) \/ M!StepOut(t) \/ UNCHANGED M!vars
  <2>1. CASE caller[t] = "gl"
    <3> DEFINE Down == [MonitorLevel EXCEPT ![t] = @ - 1]
    <3>1. MonitorLevel' = Down
      <4>1. ASSUME NEW u \in Threads, u # t PROVE MonitorLevel'[u] = Down[u]
        BY <1>9, <4>1 DEF MutexUnlock, Release, After
      <4>2. MonitorLevel[t] = level[t] + 1 /\ MonitorLevel'[t] = level[t]
        BY <1>9, <2>1 DEF MutexUnlock, Release, After
      <4>3. Down[t] = MonitorLevel[t] - 1
        OBVIOUS
      <4>4. Down[t] = MonitorLevel'[t]
        BY <4>2, <4>3
      <4> HIDE DEF IInv
      <4> QED
        BY <4>1, <4>4
    <3>2. MonitorLevel[t] = count /\ count > 0
      BY <1>9, <2>1 DEF MutexUnlock, Release
    <3> QED
      BY <1>9, <3>1, <3>2 DEF MutexUnlock, Release, M!Leave
  <2>2. CASE caller[t] # "gl"
    <3>1. UNCHANGED MonitorLevel
      BY <1>9, <2>2 DEF MutexUnlock, Release, After
    <3> QED
      BY <1>9, <3>1 DEF MutexUnlock, Release, M!StepOut, M!vars
  <2> QED
    BY <2>1, <2>2
<1>10. ASSUME NEW t \in Threads, CondDown(t) PROVE UNCHANGED M!vars
  BY <1>10 DEF CondDown, M!vars
<1>11. ASSUME NEW t \in Threads, CondWait(t) PROVE M!StepOut(t)
  BY <1>11 DEF CondWait, Release, M!StepOut
<1>12. ASSUME NEW t \in Threads, CondInvalid(t) PROVE UNCHANGED M!vars
  BY <1>12 DEF CondInvalid, M!vars
<1>13. ASSUME NEW t \in Threads, CondWake(t) PROVE M!StepIn(t)
  BY <1>13 DEF CondWake, Acquire, M!StepIn
<1>14. ASSUME NEW t \in Threads, CondUp(t) PROVE UNCHANGED M!vars
  BY <1>14 DEF CondUp, LoopLock, M!vars
<1>15. CASE UNCHANGED vars
  BY <1>15 DEF vars, M!vars
<1> QED
  BY <1>1, <1>2, <1>3, <1>4, <1>5, <1>6, <1>7, <1>8, <1>9, <1>10, <1>11,
     <1>12, <1>13, <1>14, <1>15 DEF Next, Call, Step, M!Next

\* The lock implements the monitor of the library's threading rules.
THEOREM MonitorImplemented == Spec => ImplementsMonitor
<1>1. Init => M!Init
  BY DEF Init, M!Init, MonitorLevel
<1> QED
  BY <1>1, StepMonitor, Inductive, PTL DEF Spec, ImplementsMonitor, M!Spec
==============================================================================
