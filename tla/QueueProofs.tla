----------------------------- MODULE QueueProofs -----------------------------
(***************************************************************************)
(* Proofs about Queue and its clients, for any number of threads, objects  *)
(* and places.                                                             *)
(***************************************************************************)
EXTENDS QueueClients, QueueLemmas

\* Every step of a client keeps the invariant.
LEMMA NextIInv ==
  ASSUME IInv, [Next]_vars
  PROVE  IInv'
  <1>a. wait \in [Threads -> WaitStates] /\ arg \in [Threads -> Data \cup {NoData}]
    BY DEF IInv, TypeOK
  <1>b. \A t \in Threads : arg = [arg EXCEPT ![t] = arg[t]]
    BY <1>a
  <1>c. \A t \in Threads : wait[t] \in {"awake", "not_empty"} => arg[t] = NoData
    BY DEF IInv, WaitMatchesCall
  <1>1. ASSUME NEW t \in Putting, PutStep(t) PROVE IInv'
    <2> t \in Threads
      BY <1>1, ClientsAssumption
    <2>1. ASSUME NEW d \in Data, Put(t, d) PROVE IInv'
      <3>1. CASE queue_size >= maxsize /\ Sleep(t, "not_full")
                 /\ arg' = [arg EXCEPT ![t] = d]
        <4>1. d \in Data \cup {NoData} /\ d # NoData /\ "not_full" \in WaitStates
          BY QueueAssumption DEF WaitStates
        <4>2. /\ wait' = [wait EXCEPT ![t] = "not_full"]
              /\ arg' = [arg EXCEPT ![t] = d]
              /\ UNCHANGED <<items, queue_size, accepted, taken, removed>>
              /\ queue_size >= maxsize /\ wait[t] # "signalled"
          BY <2>1, <3>1 DEF Put, Sleep
        <4> QED BY <4>1, <4>2, WaitIInv, Zenon
      <3>2. CASE queue_size < maxsize /\ AddItem(t, d)
        BY <2>1, <3>2, AddItemIInv DEF Put
      <3> QED BY <2>1, <3>1, <3>2 DEF Put
    <2>2. CASE PutSignalled(t)
      <3>1. arg[t] \in Data
        BY <2>2, <1>a DEF PutSignalled
      <3> QED BY <2>2, <3>1, AddItemIInv DEF PutSignalled
    <2>3. CASE PutTimedOut(t)
      <3>1. /\ wait' = [wait EXCEPT ![t] = "awake"]
            /\ arg' = [arg EXCEPT ![t] = NoData]
            /\ UNCHANGED <<items, queue_size, accepted, taken, removed>>
            /\ wait[t] # "signalled" /\ "awake" \in WaitStates
        BY <2>3 DEF PutTimedOut, Return, WaitStates
      <3> QED BY <3>1, WaitIInv, Zenon
    <2> QED BY <1>1, <2>1, <2>2, <2>3 DEF PutStep
  <1>2. ASSUME NEW t \in Getting, GetStep(t) PROVE IInv'
    <2> t \in Threads
      BY <1>2, ClientsAssumption
    <2>1. ASSUME GetLoop(t), wait[t] = "awake" \/ (wait[t] = "signalled" /\ arg[t] = NoData)
          PROVE IInv'
      <3>1. CASE queue_size = 0 /\ Sleep(t, "not_empty") /\ UNCHANGED arg
        <4>1. arg[t] = NoData /\ arg' = [arg EXCEPT ![t] = NoData]
          BY <2>1, <3>1, <1>b, <1>c
        <4> QED BY <2>1, <3>1, <4>1, WaitIInv DEF Sleep, WaitStates
      <3>2. CASE queue_size # 0 /\ TakeItem(t)
        BY <2>1, <3>2, TakeItemIInv
      <3> QED BY <2>1, <3>1, <3>2 DEF GetLoop
    <2>2. CASE Get(t) \/ GetSignalled(t)
      BY <2>1, <2>2 DEF Get, GetSignalled
    <2>3. CASE GetTimedOut(t)
      BY <2>3, WaitIInv DEF GetTimedOut, Return, WaitStates
    <2> QED BY <1>2, <2>2, <2>3 DEF GetStep
  <1>3. ASSUME NEW t \in Threads, WakeStep(t) PROVE IInv'
    <2>1. arg' = [arg EXCEPT ![t] = arg[t]] /\ arg[t] \in Data \cup {NoData}
      BY <1>3, <1>a, <1>b DEF WakeStep, Timeout, SpuriousWakeup
    <2>2. CASE Timeout(t)
      <3>1. /\ wait' = [wait EXCEPT ![t] = "timedout"]
            /\ UNCHANGED <<items, queue_size, accepted, taken, removed>>
            /\ wait[t] # "signalled" /\ "timedout" \in WaitStates
        BY <2>2 DEF Timeout, WaitStates
      <3> QED BY <2>1, <3>1, WaitIInv, Zenon
    <2>3. CASE SpuriousWakeup(t)
      <3>1. /\ wait' = [wait EXCEPT ![t] = "signalled"]
            /\ UNCHANGED <<items, queue_size, accepted, taken, removed>>
            /\ wait[t] # "signalled" /\ "signalled" \in WaitStates
        BY <2>3 DEF SpuriousWakeup, WaitStates
      <3> QED BY <2>1, <3>1, WaitIInv, Zenon
    <2> QED BY <1>3, <2>2, <2>3 DEF WakeStep
  <1>4. CASE UNCHANGED vars
    BY <1>4 DEF vars, queueVars, IInv, TypeOK, Fifo, SizeIsLength, WaitMatchesCall,
                NoLostWakeup, Getters, Putters
  <1>5. ASSUME NEW t \in Removing, RemoveStep(t) PROVE IInv'
    BY <1>5, ClientsAssumption, RemoveIInv DEF RemoveStep
  <1> QED BY <1>1, <1>2, <1>3, <1>4, <1>5 DEF Next
------------------------------------------------------------------------------
\* IInv is inductive for any threads that call Queue_put, Queue_get and
\* Queue_remove, any objects and any queue length.
THEOREM QueueInductive == Spec => []IInv
  <1>1. Init => IInv
    BY InitIInv
  <1>2. IInv /\ [Next]_vars => IInv'
    BY NextIInv
  <1> QED BY <1>1, <1>2, PTL DEF Spec

\* The queue hands out what it accepted, in order and once (Queue_put and
\* Queue_get), whatever waits, signals and timeouts happen, until Queue_remove
\* takes something out.
THEOREM FifoHolds == Spec => []Fifo
  <1>1. IInv => Fifo
    BY DEF IInv
  <1> QED BY <1>1, QueueInductive, PTL

\* The counter that put and get test is the length of the list, until the first
\* Queue_remove.
THEOREM SizeIsLengthHolds == Spec => []SizeIsLength
  <1>1. IInv => SizeIsLength
    BY DEF IInv
  <1> QED BY <1>1, QueueInductive, PTL

\* One signal for each put and each get is enough: a sleeping thread that could
\* go on always has a signalled thread ahead of it, also after a Queue_remove.
THEOREM NoLostWakeupHolds == Spec => []NoLostWakeup
  <1>1. IInv => NoLostWakeup
    BY DEF IInv
  <1> QED BY <1>1, QueueInductive, PTL
==============================================================================
