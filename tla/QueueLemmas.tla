----------------------------- MODULE QueueLemmas -----------------------------
(***************************************************************************)
(* What each operation of Queue does to its inductive invariant, whoever   *)
(* calls it: for QueueProofs and ThreadPoolProofs.                         *)
(***************************************************************************)
EXTENDS Queue, TLAPS, FiniteSetTheorems, SequenceTheorems

\* Moving the head of the list to the end of what was taken leaves the
\* concatenation as it was (Queue_get).
LEMMA MoveHead ==
  ASSUME NEW S, NEW T, S \subseteq T, NEW s \in Seq(T), NEW i \in Seq(S), i # <<>>
  PROVE  /\ Append(s, Head(i)) \in Seq(T) /\ Tail(i) \in Seq(S)
         /\ Append(s, Head(i)) \o Tail(i) = s \o i
         /\ Len(Tail(i)) = Len(i) - 1
  OBVIOUS

\* What one pthread_cond_signal does to the wait states.
LEMMA SignalEffect ==
  ASSUME NEW w \in [Threads -> WaitStates], NEW cond,
         NEW w2 \in Signalled(w, cond)
  PROVE  \/ w2 = w /\ \A t \in Threads : w[t] # cond
         \/ \E t \in Threads : w[t] = cond /\ w2 = [w EXCEPT ![t] = "signalled"]
  BY DEF Signalled

\* The signalled threads are finitely many, so that the cardinalities in
\* NoLostWakeup are natural numbers.
LEMMA FiniteWaiters ==
  ASSUME NEW s
  PROVE  /\ IsFiniteSet(Getters(s)) /\ Cardinality(Getters(s)) \in Nat
         /\ IsFiniteSet(Putters(s)) /\ Cardinality(Putters(s)) \in Nat
  <1>1. Getters(s) \subseteq Threads /\ Putters(s) \subseteq Threads
    BY DEF Getters, Putters
  <1>2. IsFiniteSet(Threads)
    BY QueueAssumption
  <1>3. IsFiniteSet(Getters(s)) /\ IsFiniteSet(Putters(s))
    BY <1>1, <1>2, FS_Subset
  <1> QED BY <1>3, FS_CardinalityType

\* An empty queue satisfies the invariant (Queue_Con).
LEMMA InitIInv == Init => IInv
  <1> SUFFICES ASSUME Init PROVE IInv
    OBVIOUS
  <1> USE QueueAssumption DEF Init
  <1>1. TypeOK
    BY DEF TypeOK, WaitStates
  <1>2. Fifo /\ SizeIsLength /\ WaitMatchesCall
    BY DEF Fifo, SizeIsLength, WaitMatchesCall
  <1>3. Getters("not_empty") = {} /\ Putters("not_full") = {}
    BY DEF Getters, Putters
  <1>4. NoLostWakeup
    BY <1>3 DEF NoLostWakeup
  <1> QED BY <1>1, <1>2, <1>4 DEF IInv

\* Queue_put adds an object: directly, or after it was signalled.
LEMMA AddItemIInv ==
  ASSUME IInv, NEW t \in Threads, NEW d \in Data, AddItem(t, d),
         \/ wait[t] = "awake" /\ queue_size < maxsize
         \/ wait[t] = "signalled" /\ arg[t] # NoData
  PROVE  IInv'
  <1> DEFINE w == [wait EXCEPT ![t] = "awake"]
  <1>0. /\ w \in [Threads -> WaitStates]
        /\ \A u \in Threads : w[u] = IF u = t THEN "awake" ELSE wait[u]
        /\ wait' \in Signalled(w, "not_empty")
    BY DEF IInv, TypeOK, WaitStates, AddItem, SignalGetter
  <1> HIDE DEF w
  <1>1. \/ wait' = w /\ \A u \in Threads : w[u] # "not_empty"
        \/ \E u \in Threads : w[u] = "not_empty"
                              /\ wait' = [w EXCEPT ![u] = "signalled"]
    BY <1>0, SignalEffect
  <1>2. TypeOK'
    <2>1. wait' \in [Threads -> WaitStates]
      BY <1>0, <1>1 DEF WaitStates
    <2>2. /\ items' \in Seq(Data) /\ accepted' \in Seq(Data)
          /\ taken' \in Seq(Data \cup {NoData}) /\ removed' \subseteq Data
      BY DEF IInv, TypeOK, AddItem
    <2>3. queue_size' \in Nat /\ arg' \in [Threads -> Data \cup {NoData}]
      BY DEF IInv, TypeOK, AddItem
    <2> QED BY <2>1, <2>2, <2>3 DEF TypeOK
  <1>3. Fifo' /\ SizeIsLength'
    <2> SUFFICES ASSUME removed' = {}
                 PROVE  accepted' = taken' \o items' /\ queue_size' = Len(items')
      BY DEF Fifo, SizeIsLength
    <2>0. items \in Seq(Data \cup {NoData}) /\ taken \in Seq(Data \cup {NoData})
      BY DEF IInv, TypeOK
    <2>1. accepted = taken \o items /\ queue_size = Len(items)
      BY DEF IInv, Fifo, SizeIsLength, AddItem
    <2>2. items' = Append(items, d) /\ accepted' = Append(accepted, d)
          /\ taken' = taken /\ queue_size' = queue_size + 1
      BY DEF AddItem
    <2> HIDE DEF IInv, AddItem
    <2>a. /\ Append(taken \o items, d) = taken \o Append(items, d)
          /\ Len(Append(items, d)) = Len(items) + 1
      BY <2>0, SMTT(20)
    <2>3. accepted' = taken' \o items'
      BY <2>a, <2>1, <2>2, Zenon
    <2>4. queue_size' = Len(items')
      BY <2>a, <2>1, <2>2, Zenon
    <2> QED BY <2>3, <2>4
  <1>4. /\ arg' \in [Threads -> Data \cup {NoData}]
        /\ \A u \in Threads : arg'[u] = IF u = t THEN NoData ELSE arg[u]
    BY DEF IInv, TypeOK, AddItem
  <1>5. WaitMatchesCall'
    BY <1>0, <1>1, <1>4, QueueAssumption DEF IInv, WaitMatchesCall, WaitStates
  <1>6. Putters("signalled")' = Putters("signalled") \ {t}
    BY <1>0, <1>1, <1>4 DEF IInv, WaitMatchesCall, Putters
  <1>7. Putters("not_full")' \subseteq Putters("not_full")
    BY <1>0, <1>1, <1>4 DEF Putters
  <1> DEFINE ps == Cardinality(Putters("signalled"))
             gs == Cardinality(Getters("signalled"))
  <1>8. ps \in Nat /\ gs \in Nat /\ queue_size \in Nat /\ maxsize \in Nat
        /\ queue_size' = queue_size + 1
    BY FiniteWaiters, QueueAssumption DEF IInv, TypeOK, AddItem
  <1>9. Putters("not_full")' # {} =>
          maxsize <= queue_size' + Cardinality(Putters("signalled")')
    <2>1. CASE wait[t] = "awake"
      <3>1. Putters("signalled")' = Putters("signalled")
        BY <1>6, <2>1 DEF Putters
      <3> QED BY <3>1, <1>7, <1>8 DEF IInv, NoLostWakeup
    <2>2. CASE wait[t] = "signalled" /\ arg[t] # NoData
      <3>1. t \in Putters("signalled")
        BY <2>2 DEF Putters
      <3>2. Cardinality(Putters("signalled")') = ps - 1
        BY <3>1, <1>6, FiniteWaiters, FS_RemoveElement
      <3> QED BY <3>2, <1>7, <1>8 DEF IInv, NoLostWakeup
    <2> QED BY <2>1, <2>2
  <1>10. Getters("not_empty")' # {} =>
           queue_size' <= Cardinality(Getters("signalled")')
    <2>1. CASE wait' = w /\ \A u \in Threads : w[u] # "not_empty"
      BY <2>1 DEF Getters
    <2>2. CASE \E u \in Threads : w[u] = "not_empty"
                                  /\ wait' = [w EXCEPT ![u] = "signalled"]
      <3>1. PICK u \in Threads : w[u] = "not_empty"
                                 /\ wait' = [w EXCEPT ![u] = "signalled"]
        BY <2>2
      <3>2. u # t /\ wait[u] = "not_empty" /\ arg[u] = NoData
        BY <3>1, <1>0 DEF IInv, WaitMatchesCall
      <3>3. Getters("signalled")' = Getters("signalled") \cup {u}
        BY <3>1, <3>2, <1>0, <1>4 DEF Getters
      <3>4. u \notin Getters("signalled") /\ u \in Getters("not_empty")
        BY <3>2 DEF Getters
      <3>5. Cardinality(Getters("signalled")') = gs + 1
        BY <3>3, <3>4, FiniteWaiters, FS_AddElement
      <3> QED BY <3>4, <3>5, <1>8 DEF IInv, NoLostWakeup
    <2> QED BY <2>1, <2>2, <1>1
  <1>11. NoLostWakeup'
    BY <1>8, <1>9, <1>10 DEF NoLostWakeup, AddItem
  <1> QED BY <1>2, <1>3, <1>5, <1>11 DEF IInv

\* Queue_get takes an object: directly, after it was signalled, or in the next call after
\* one that timed out.
LEMMA TakeItemIInv ==
  ASSUME IInv, NEW t \in Threads, TakeItem(t), queue_size # 0,
         wait[t] = "awake" \/ (wait[t] \in {"signalled", "timedout"} /\ arg[t] = NoData)
  PROVE  IInv'
  <1> DEFINE w == [wait EXCEPT ![t] = "awake"]
  <1>0. /\ w \in [Threads -> WaitStates]
        /\ \A u \in Threads : w[u] = IF u = t THEN "awake" ELSE wait[u]
        /\ wait' \in Signalled(w, "not_full")
    BY DEF IInv, TypeOK, WaitStates, TakeItem, SignalPutter
  <1> HIDE DEF w
  <1>1. \/ wait' = w /\ \A u \in Threads : w[u] # "not_full"
        \/ \E u \in Threads : w[u] = "not_full"
                              /\ wait' = [w EXCEPT ![u] = "signalled"]
    BY <1>0, SignalEffect
  <1>2. items \in Seq(Data) /\ taken \in Seq(Data \cup {NoData})
    BY DEF IInv, TypeOK
  <1>3. ASSUME items # <<>>
        PROVE  /\ taken' \in Seq(Data \cup {NoData}) /\ items' \in Seq(Data)
               /\ Fifo' /\ SizeIsLength'
    <2>1. /\ Append(taken, Head(items)) \in Seq(Data \cup {NoData})
          /\ Tail(items) \in Seq(Data)
          /\ Append(taken, Head(items)) \o Tail(items) = taken \o items
          /\ Len(Tail(items)) = Len(items) - 1
      BY <1>2, <1>3, MoveHead
    <2>2. taken' = Append(taken, Head(items)) /\ items' = Tail(items)
          /\ queue_size' = queue_size - 1 /\ accepted' = accepted
          /\ removed' = removed
      BY <1>3 DEF TakeItem
    <2>3. taken' \in Seq(Data \cup {NoData}) /\ items' \in Seq(Data)
      BY <2>1, <2>2, Zenon
    <2>4. Fifo' /\ SizeIsLength'
      BY <2>1, <2>2, Zenon DEF IInv, Fifo, SizeIsLength
    <2> QED BY <2>3, <2>4
  <1>4. ASSUME items = <<>>
        PROVE  /\ taken' \in Seq(Data \cup {NoData}) /\ items' \in Seq(Data)
               /\ Fifo' /\ SizeIsLength'
    <2>1. removed # {}
      BY <1>4 DEF IInv, SizeIsLength
    <2>2. taken' = Append(taken, NoData) /\ items' = <<>> /\ removed' = removed
      BY <1>4 DEF TakeItem
    <2>3. Fifo' /\ SizeIsLength'
      BY <2>1, <2>2 DEF Fifo, SizeIsLength
    <2>4. taken' \in Seq(Data \cup {NoData}) /\ items' \in Seq(Data)
      BY <1>2, <2>2
    <2> QED BY <2>3, <2>4
  <1>5. wait' \in [Threads -> WaitStates]
    BY <1>0, <1>1 DEF WaitStates
  <1>6. /\ queue_size' = queue_size - 1 /\ queue_size' \in Nat
        /\ accepted' = accepted /\ arg' = arg /\ removed' = removed
    BY DEF IInv, TypeOK, TakeItem
  <1>7. TypeOK'
    BY <1>3, <1>4, <1>5, <1>6 DEF IInv, TypeOK
  <1>8. Fifo' /\ SizeIsLength'
    BY <1>3, <1>4
  <1>9. arg[t] = NoData
    BY DEF IInv, WaitMatchesCall
  <1>10. WaitMatchesCall'
    BY <1>0, <1>1, <1>6, <1>9 DEF IInv, WaitMatchesCall
  <1>11. Getters("signalled")' = Getters("signalled") \ {t}
    BY <1>0, <1>1, <1>6 DEF IInv, WaitMatchesCall, Getters
  <1>12. Getters("not_empty")' \subseteq Getters("not_empty")
    BY <1>0, <1>1, <1>6 DEF Getters
  <1> DEFINE ps == Cardinality(Putters("signalled"))
             gs == Cardinality(Getters("signalled"))
  <1>13. ps \in Nat /\ gs \in Nat /\ queue_size \in Nat /\ maxsize \in Nat
    BY FiniteWaiters, QueueAssumption DEF IInv, TypeOK
  <1>14. Getters("not_empty")' # {} =>
           queue_size' <= Cardinality(Getters("signalled")')
    <2>1. CASE wait[t] # "signalled"
      <3>1. Getters("signalled")' = Getters("signalled")
        BY <1>11, <2>1 DEF Getters
      <3> QED BY <3>1, <1>6, <1>12, <1>13 DEF IInv, NoLostWakeup
    <2>2. CASE wait[t] = "signalled" /\ arg[t] = NoData
      <3>1. t \in Getters("signalled")
        BY <2>2 DEF Getters
      <3>2. Cardinality(Getters("signalled")') = gs - 1
        BY <3>1, <1>11, FiniteWaiters, FS_RemoveElement
      <3> QED BY <3>2, <1>6, <1>12, <1>13 DEF IInv, NoLostWakeup
    <2> QED BY <2>1, <2>2
  <1>15. Putters("not_full")' # {} =>
           maxsize <= queue_size' + Cardinality(Putters("signalled")')
    <2>1. CASE wait' = w /\ \A u \in Threads : w[u] # "not_full"
      BY <2>1 DEF Putters
    <2>2. CASE \E u \in Threads : w[u] = "not_full"
                                  /\ wait' = [w EXCEPT ![u] = "signalled"]
      <3>1. PICK u \in Threads : w[u] = "not_full"
                                 /\ wait' = [w EXCEPT ![u] = "signalled"]
        BY <2>2
      <3>2. u # t /\ wait[u] = "not_full" /\ arg[u] # NoData
        BY <3>1, <1>0 DEF IInv, WaitMatchesCall
      <3>3. Putters("signalled")' = Putters("signalled") \cup {u}
        BY <3>1, <3>2, <1>0, <1>6, <1>9 DEF Putters
      <3>4. u \notin Putters("signalled") /\ u \in Putters("not_full")
        BY <3>2 DEF Putters
      <3>5. Cardinality(Putters("signalled")') = ps + 1
        BY <3>3, <3>4, FiniteWaiters, FS_AddElement
      <3> QED BY <3>4, <3>5, <1>6, <1>13 DEF IInv, NoLostWakeup
    <2> QED BY <2>1, <2>2, <1>1
  <1>16. NoLostWakeup'
    BY <1>14, <1>15 DEF NoLostWakeup
  <1> QED BY <1>7, <1>8, <1>10, <1>16 DEF IInv

\* A step that changes the wait state of one thread and leaves the list alone.
LEMMA WaitIInv ==
  ASSUME IInv, NEW t \in Threads, NEW s \in WaitStates, NEW a \in Data \cup {NoData},
         wait' = [wait EXCEPT ![t] = s], arg' = [arg EXCEPT ![t] = a],
         UNCHANGED <<items, queue_size, accepted, taken, removed>>,
         s \in {"awake", "not_empty"} => a = NoData,
         s = "not_full" => a # NoData,
         \* a getter goes to sleep on an empty queue, a putter on a full one
         s = "not_empty" => queue_size = 0,
         s = "not_full" => queue_size >= maxsize,
         \* only a getter that finds the queue empty wastes a signal
         wait[t] # "signalled" \/ (queue_size = 0 /\ arg[t] = NoData)
  PROVE  IInv'
  <1>1. TypeOK'
    BY DEF IInv, TypeOK
  <1>2. Fifo' /\ SizeIsLength'
    BY DEF IInv, Fifo, SizeIsLength
  <1>3. /\ \A u \in Threads : wait'[u] = IF u = t THEN s ELSE wait[u]
        /\ \A u \in Threads : arg'[u] = IF u = t THEN a ELSE arg[u]
    BY DEF IInv, TypeOK
  <1>4. WaitMatchesCall'
    BY <1>3 DEF IInv, WaitMatchesCall
  <1> DEFINE ps == Cardinality(Putters("signalled"))
             gs == Cardinality(Getters("signalled"))
             ps2 == Cardinality(Putters("signalled")')
             gs2 == Cardinality(Getters("signalled")')
  <1>5. /\ ps \in Nat /\ gs \in Nat /\ queue_size \in Nat /\ maxsize \in Nat
        /\ queue_size' = queue_size
    BY FiniteWaiters, QueueAssumption DEF IInv, TypeOK
  <1>6. IsFiniteSet(Putters("signalled")') /\ IsFiniteSet(Getters("signalled")')
    <2>1. Putters("signalled")' \subseteq Threads /\ Getters("signalled")' \subseteq Threads
      BY DEF Putters, Getters
    <2> QED BY <2>1, QueueAssumption, FS_Subset
  <1>7. ps2 \in Nat /\ gs2 \in Nat
    BY <1>6, FS_CardinalityType
  <1>8. Putters("signalled") \subseteq Putters("signalled")'
    BY <1>3 DEF Putters
  <1>9. ps <= ps2
    BY <1>6, <1>8, FS_Subset
  <1>10. Putters("not_full")' # {} => maxsize <= queue_size' + ps2
    <2>1. CASE s = "not_full"
      BY <2>1, <1>5, <1>7
    <2>2. CASE s # "not_full"
      <3>1. Putters("not_full")' \subseteq Putters("not_full")
        BY <2>2, <1>3 DEF Putters
      <3> QED BY <3>1, <1>5, <1>7, <1>9 DEF IInv, NoLostWakeup
    <2> QED BY <2>1, <2>2
  <1>11. Getters("not_empty")' # {} => queue_size' <= gs2
    <2>1. CASE queue_size = 0
      BY <2>1, <1>5, <1>7
    <2>2. CASE queue_size # 0
      <3>1. Getters("not_empty")' \subseteq Getters("not_empty")
        BY <2>2, <1>3 DEF Getters
      <3>2. Getters("signalled") \subseteq Getters("signalled")'
        BY <2>2, <1>3 DEF Getters
      <3>3. gs <= gs2
        BY <1>6, <3>2, FS_Subset
      <3> QED BY <3>1, <3>3, <1>5, <1>7 DEF IInv, NoLostWakeup
    <2> QED BY <2>1, <2>2
  <1>12. NoLostWakeup'
    BY <1>5, <1>10, <1>11 DEF NoLostWakeup
  <1> QED BY <1>1, <1>2, <1>4, <1>12 DEF IInv

\* Queue_remove: whatever it leaves in the list, it touches no waiting thread and
\* not the counter that they wait for.
LEMMA RemoveIInv ==
  ASSUME IInv, NEW t \in Threads, NEW d \in Data, Remove(t, d)
  PROVE  IInv'
  <1>1. items \in Seq(Data)
    BY DEF IInv, TypeOK
  <1>2. PICK i \in DOMAIN items :
          items' = SubSeq(items, 1, i - 1) \o SubSeq(items, i + 1, Len(items))
    BY DEF Remove
  <1>3. i \in 1..Len(items) /\ Len(items) \in Nat
        /\ \A j \in 1..Len(items) : items[j] \in Data
    BY <1>1
  <1>4. SubSeq(items, 1, i - 1) \in Seq(Data)
    <2>1. 1 \in Int /\ i - 1 \in Int /\ \A j \in 1..(i - 1) : items[j] \in Data
      BY <1>3
    <2> QED BY <2>1, SubSeqProperties, Zenon
  <1>5. SubSeq(items, i + 1, Len(items)) \in Seq(Data)
    <2>1. i + 1 \in Int /\ Len(items) \in Int
          /\ \A j \in (i + 1)..Len(items) : items[j] \in Data
      BY <1>3
    <2> QED BY <2>1, SubSeqProperties, Zenon
  <1>6. items' \in Seq(Data)
    BY <1>2, <1>4, <1>5, ConcatProperties, Zenon
  <1>7. removed' \subseteq Data /\ removed' # {}
        /\ UNCHANGED <<queue_size, wait, arg, accepted, taken>>
    BY DEF IInv, TypeOK, Remove
  <1>8. TypeOK'
    BY <1>6, <1>7 DEF IInv, TypeOK
  <1>9. Fifo' /\ SizeIsLength'
    BY <1>7 DEF Fifo, SizeIsLength
  <1>10. WaitMatchesCall' /\ NoLostWakeup'
    BY <1>7 DEF IInv, WaitMatchesCall, NoLostWakeup, Getters, Putters
  <1> QED BY <1>8, <1>9, <1>10 DEF IInv
==============================================================================
