--------------------------- MODULE ThreadPoolProofs --------------------------
(***************************************************************************)
(* Proofs about ThreadPool, for any number of workers, jobs and places in  *)
(* the queue.                                                              *)
(***************************************************************************)
EXTENDS ThreadPool, QueueLemmas

\* Who may be where: a worker puts nothing, and is in timedwait only from get; the main
\* thread calls the queue only before join; a worker is gone only after it.
Places ==
  /\ removed = {}
  /\ \A w \in Workers : arg[w] = NoData /\ (wpc[w] # "get" => wait[w] = "awake")
  /\ active <=> mpc = "schedule"
  /\ active => \A w \in Workers : wpc[w] # "quit"
  /\ mpc # "schedule" => wait[Main] = "awake"
  /\ mpc = "joined" => \A w \in Workers : wpc[w] = "quit"

\* The jobs in the queue differ from each other, and the one that schedule waits with was
\* never accepted.
Distinct ==
  /\ \A i, j \in DOMAIN items : items[i] = items[j] => i = j
  /\ arg[Main] \notin Range(accepted)

\* After join, while a job waits and the pool was not idle, some worker is on its way to it.
Pending ==
  mpc # "schedule" /\ items # <<>> /\ ~idleAtJoin =>
    \E w \in Workers : wpc[w] = "run" \/ (wpc[w] = "get" /\ wait[w] \in {"awake", "signalled"})

PoolIInv == IInv /\ PoolTypeOK /\ Places /\ Distinct /\ EachJobOnce /\ Pending

\* The elements of a list that grows at its end.
LEMMA RangeAppend ==
  ASSUME NEW S, NEW s \in Seq(S), NEW d \in S
  PROVE  Range(Append(s, d)) = Range(s) \cup {d}
  <1> DEFINE a == Append(s, d)
  <1>1. /\ DOMAIN s = 1 .. Len(s) /\ Len(s) \in Nat /\ DOMAIN a = 1 .. Len(s) + 1
        /\ \A i \in 1 .. Len(s) : a[i] = s[i]
        /\ a[Len(s) + 1] = d
    OBVIOUS
  <1> HIDE DEF a
  <1>2. \A i \in DOMAIN a : i \in DOMAIN s \/ i = Len(s) + 1
    BY <1>1
  <1>3. \A i \in DOMAIN s : i \in DOMAIN a
    BY <1>1
  <1>4. Len(s) + 1 \in DOMAIN a
    BY <1>1
  <1>5. Range(a) = Range(s) \cup {d}
    BY <1>1, <1>2, <1>3, <1>4 DEF Range
  <1> QED BY <1>5 DEF a

\* A list without repetitions stays so when something new is put at its end.
LEMMA DistinctAppend ==
  ASSUME NEW S, NEW s \in Seq(S), NEW d \in S, d \notin Range(s),
         \A i, j \in DOMAIN s : s[i] = s[j] => i = j
  PROVE  \A i, j \in DOMAIN Append(s, d) : Append(s, d)[i] = Append(s, d)[j] => i = j
  <1> DEFINE a == Append(s, d)
  <1>1. /\ DOMAIN s = 1 .. Len(s) /\ Len(s) \in Nat /\ DOMAIN a = 1 .. Len(s) + 1
        /\ \A i \in 1 .. Len(s) : a[i] = s[i]
        /\ a[Len(s) + 1] = d
    OBVIOUS
  <1> HIDE DEF a
  <1>2. ASSUME NEW i \in DOMAIN a, NEW j \in DOMAIN a, a[i] = a[j]
        PROVE  i = j
    <2>1. \A k \in DOMAIN s : a[k] # d /\ a[k] = s[k]
      BY <1>1 DEF Range
    <2>2. (i \in DOMAIN s \/ i = Len(s) + 1) /\ (j \in DOMAIN s \/ j = Len(s) + 1)
      BY <1>1
    <2> QED BY <1>1, <1>2, <2>1, <2>2
  <1> QED BY <1>2 DEF a

\* What is left of a list without its head.
LEMMA RangeTail ==
  ASSUME NEW S, NEW s \in Seq(S), s # <<>>,
         \A i, j \in DOMAIN s : s[i] = s[j] => i = j
  PROVE  /\ Head(s) \in S /\ Range(s) = Range(Tail(s)) \cup {Head(s)}
         /\ Head(s) \notin Range(Tail(s))
         /\ \A i, j \in DOMAIN Tail(s) : Tail(s)[i] = Tail(s)[j] => i = j
  <1> DEFINE t == Tail(s)
  <1>1. /\ DOMAIN s = 1 .. Len(s) /\ Len(s) \in Nat \ {0} /\ DOMAIN t = 1 .. Len(s) - 1
        /\ \A i \in 1 .. Len(s) - 1 : t[i] = s[i + 1]
        /\ Head(s) = s[1] /\ s[1] \in S
    OBVIOUS
  <1> HIDE DEF t
  <1>2. \A i \in DOMAIN t : i + 1 \in DOMAIN s /\ i + 1 # 1 /\ t[i] = s[i + 1]
    BY <1>1
  <1>3. \A i \in DOMAIN s : i = 1 \/ (i - 1 \in DOMAIN t /\ t[i - 1] = s[i])
    BY <1>1
  <1>4. 1 \in DOMAIN s
    BY <1>1
  <1>5. Range(s) = Range(t) \cup {s[1]}
    BY <1>2, <1>3, <1>4 DEF Range
  <1>6. s[1] \notin Range(t)
    BY <1>2, <1>4 DEF Range
  <1>7. ASSUME NEW i \in DOMAIN t, NEW j \in DOMAIN t, t[i] = t[j]
        PROVE  i = j
    <2>1. i + 1 = j + 1
      BY <1>2, <1>7
    <2> QED BY <1>1, <2>1
  <1> QED BY <1>1, <1>5, <1>6, <1>7 DEF t

\* What the invariant says of the types and of the threads that the pool has.
LEMMA PoolTypes ==
  ASSUME PoolIInv
  PROVE  /\ items \in Seq(Data) /\ queue_size = Len(items)
         /\ queue_size = 0 <=> items = <<>>
         /\ wait \in [Threads -> WaitStates] /\ arg \in [Threads -> Data \cup {NoData}]
         /\ wpc \in [Workers -> {"get", "run", "quit"}]
         /\ job \in [Workers -> Data \cup {NoData}] /\ accepted \in Seq(Data)
         /\ Main \in Threads /\ Main \notin Workers /\ Workers \subseteq Threads
  <1>1. /\ items \in Seq(Data) /\ wait \in [Threads -> WaitStates]
        /\ arg \in [Threads -> Data \cup {NoData}] /\ accepted \in Seq(Data)
        /\ wpc \in [Workers -> {"get", "run", "quit"}]
        /\ job \in [Workers -> Data \cup {NoData}]
    BY DEF PoolIInv, IInv, TypeOK, PoolTypeOK
  <1>2. queue_size = Len(items)
    BY DEF PoolIInv, IInv, SizeIsLength, Places
  <1>3. queue_size = 0 <=> items = <<>>
    BY <1>1, <1>2
  <1> QED BY <1>1, <1>2, <1>3, PoolAssumption

\* A worker that takes a job wakes at most the main thread (Queue_get).
LEMMA TakeEffect ==
  ASSUME PoolIInv, NEW w \in Workers, TakeItem(w)
  PROVE  /\ \A u \in Workers : wait'[u] = IF u = w THEN "awake" ELSE wait[u]
         /\ wait[Main] = "awake" => wait'[Main] = "awake"
  <1> USE PoolTypes
  <1> DEFINE v == [wait EXCEPT ![w] = "awake"]
  <1>1. v \in [Threads -> WaitStates] /\ wait' \in Signalled(v, "not_full")
    BY DEF TakeItem, SignalPutter, WaitStates
  <1>2. \A u \in Threads : v[u] = IF u = w THEN "awake" ELSE wait[u]
    OBVIOUS
  <1> HIDE DEF v
  <1>3. \/ wait' = v
        \/ \E t \in Threads : v[t] = "not_full" /\ wait' = [v EXCEPT ![t] = "signalled"]
    BY <1>1, SignalEffect, SMTT(30)
  <1>4. \A t \in Workers : v[t] # "not_full"
    BY <1>2 DEF PoolIInv, IInv, WaitMatchesCall, Places
  <1> QED BY <1>1, <1>2, <1>3, <1>4

\* A put by the main thread wakes at most one worker, in get (Queue_put).
LEMMA AddEffect ==
  ASSUME PoolIInv, NEW d, AddItem(Main, d)
  PROVE  /\ \A u \in Workers :
              wait'[u] = wait[u] \/ (wait[u] = "not_empty" /\ wait'[u] = "signalled")
         /\ wait'[Main] = "awake" /\ arg'[Main] = NoData
         /\ \A u \in Workers : arg'[u] = arg[u]
  <1> USE PoolTypes
  <1> DEFINE v == [wait EXCEPT ![Main] = "awake"]
  <1>1. v \in [Threads -> WaitStates] /\ wait' \in Signalled(v, "not_empty")
    BY DEF AddItem, SignalGetter, WaitStates
  <1>2. \A u \in Threads : v[u] = IF u = Main THEN "awake" ELSE wait[u]
    OBVIOUS
  <1> HIDE DEF v
  <1>3. \/ wait' = v
        \/ \E t \in Threads : v[t] = "not_empty" /\ wait' = [v EXCEPT ![t] = "signalled"]
    BY <1>1, SignalEffect, SMTT(30)
  <1>4. arg' = [arg EXCEPT ![Main] = NoData]
    BY DEF AddItem
  <1> QED BY <1>1, <1>2, <1>3, <1>4

\* Where the jobs are when a worker has run one and goes on without another.
LEMMA JobsWithout ==
  ASSUME PoolIInv, NEW w \in Workers, NEW s \in {"get", "quit"},
         wpc' = [wpc EXCEPT ![w] = s], job' = [job EXCEPT ![w] = NoData],
         done' = IF wpc[w] = "run" THEN done \cup {job[w]} ELSE done,
         UNCHANGED <<items, accepted>>
  PROVE  EachJobOnce'
  <1> USE PoolTypes
  <1> DEFINE R == {u \in Workers : wpc[u] = "run"}
             J == {job[u] : u \in R}
  <1>1. /\ \A u \in Workers \ {w} : wpc'[u] = wpc[u] /\ job'[u] = job[u]
        /\ wpc'[w] = s
    OBVIOUS
  <1>2. {u \in Workers : wpc'[u] = "run"} = R \ {w}
    BY <1>1
  <1>3. /\ Range(items) \cap done = {}
        /\ \A u \in R : job[u] \notin Range(items) \cup done
        /\ \A u, v \in R : u # v => job[u] # job[v]
        /\ Range(items) \cup done \cup J = Range(accepted)
    BY DEF PoolIInv, EachJobOnce
  <1>4. R \subseteq Workers /\ (wpc[w] = "run" <=> w \in R)
    OBVIOUS
  <1>5. J = {job'[u] : u \in R \ {w}} \cup (IF w \in R THEN {job[w]} ELSE {})
    BY <1>1, <1>4
  <1> HIDE DEF R, J
  <1>6. Range(items) \cup done' \cup {job'[u] : u \in R \ {w}} = Range(accepted)
    BY <1>3, <1>4, <1>5
  <1>7. Range(items) \cap done' = {}
    BY <1>3, <1>4
  <1>8. \A u \in R \ {w} : job'[u] \notin Range(items) \cup done'
    BY <1>1, <1>3, <1>4
  <1>9. \A u, v \in R \ {w} : u # v => job'[u] # job'[v]
    BY <1>1, <1>3, <1>4
  <1> QED BY <1>2, <1>6, <1>7, <1>8, <1>9 DEF EachJobOnce

\* What a worker runs is a job: it was accepted.
LEMMA RunsData ==
  ASSUME PoolIInv, NEW w \in Workers, wpc[w] = "run"
  PROVE  job[w] \in Data
  <1>1. job[w] \in Range(accepted)
    BY DEF PoolIInv, EachJobOnce
  <1>2. accepted \in Seq(Data)
    BY PoolTypes
  <1> QED BY <1>1, <1>2 DEF Range

\* A worker goes to sleep in get, or leaves its loop: nothing waits, or its get has timed
\* out after join.
LEMMA WithoutJob ==
  ASSUME PoolIInv, NEW w \in Workers, NEW s \in {"get", "quit"}, NEW c \in WaitStates,
         s = "get" => c = "not_empty" /\ queue_size = 0,
         s = "quit" => c = "awake" /\ ~active,
         wpc[w] = "run" \/ (wpc[w] = "get" /\ wait[w] \in {"awake", "signalled", "timedout"}),
         queue_size = 0 \/ (wpc[w] = "get" /\ wait[w] = "timedout"),
         wait' = [wait EXCEPT ![w] = c], arg' = [arg EXCEPT ![w] = NoData],
         wpc' = [wpc EXCEPT ![w] = s], job' = [job EXCEPT ![w] = NoData],
         done' = IF wpc[w] = "run" THEN done \cup {job[w]} ELSE done,
         UNCHANGED <<items, queue_size, accepted, taken, removed, active, mpc, idleAtJoin>>
  PROVE  PoolIInv'
  <1> USE PoolTypes
  <1>1. arg[w] = NoData /\ arg' = arg /\ (wpc[w] = "run" => wait[w] = "awake")
    BY DEF PoolIInv, Places
  <1>2. /\ \A u \in Workers : wpc'[u] = IF u = w THEN s ELSE wpc[u]
        /\ \A u \in Threads : wait'[u] = IF u = w THEN c ELSE wait[u]
    OBVIOUS
  <1>3. IInv'
    <2>1. IInv /\ w \in Threads
      BY DEF PoolIInv
    <2>2. wait[w] # "signalled" \/ (queue_size = 0 /\ arg[w] = NoData)
      BY <1>1
    <2>3. c # "not_full" /\ (c = "not_empty" => queue_size = 0)
      OBVIOUS
    <2> QED BY <1>1, <2>1, <2>2, <2>3, WaitIInv
  <1>4. EachJobOnce'
    BY JobsWithout
  <1>5. PoolTypeOK'
    <2>1. wpc[w] = "run" => job[w] \in Data
      BY RunsData
    <2> QED BY <1>3, <2>1 DEF PoolIInv, PoolTypeOK, IInv
  <1>6. Places'
    BY <1>1, <1>2 DEF PoolIInv, Places, PoolTypeOK
  <1>7. Distinct'
    BY <1>1 DEF PoolIInv, Distinct
  <1>8. Pending'
    <2>1. CASE queue_size = 0
      BY <2>1 DEF Pending
    <2>2. CASE wpc[w] = "get" /\ wait[w] = "timedout"
      BY <1>2, <2>2 DEF PoolIInv, Pending
    <2> QED BY <2>1, <2>2
  <1> QED BY <1>3, <1>4, <1>5, <1>6, <1>7, <1>8 DEF PoolIInv

\* A worker takes the next job: it goes from the list to the worker and nowhere else.
LEMMA WithJob ==
  ASSUME PoolIInv, NEW w \in Workers, queue_size # 0, TakeItem(w),
         wpc[w] = "run" \/ (wpc[w] = "get" /\ wait[w] \in {"awake", "signalled", "timedout"}),
         wpc' = [wpc EXCEPT ![w] = "run"], job' = [job EXCEPT ![w] = Head(items)],
         done' = IF wpc[w] = "run" THEN done \cup {job[w]} ELSE done,
         UNCHANGED <<active, mpc, idleAtJoin>>
  PROVE  PoolIInv'
  <1> USE PoolTypes
  <1>1. arg[w] = NoData /\ (wpc[w] = "run" => wait[w] = "awake")
    BY DEF PoolIInv, Places
  <1>2. IInv'
    BY <1>1, TakeItemIInv DEF PoolIInv
  <1>3. /\ items # <<>> /\ items' = Tail(items)
        /\ UNCHANGED <<arg, accepted, removed>>
    BY DEF TakeItem
  <1>4. /\ Head(items) \in Data /\ Range(items) = Range(items') \cup {Head(items)}
        /\ Head(items) \notin Range(items')
        /\ \A i, j \in DOMAIN items' : items'[i] = items'[j] => i = j
    BY <1>3, RangeTail DEF PoolIInv, Distinct
  <1>5. /\ \A u \in Workers : wait'[u] = IF u = w THEN "awake" ELSE wait[u]
        /\ wait[Main] = "awake" => wait'[Main] = "awake"
    BY TakeEffect
  <1>6. /\ \A u \in Workers : wpc'[u] = IF u = w THEN "run" ELSE wpc[u]
        /\ \A u \in Workers : job'[u] = IF u = w THEN Head(items) ELSE job[u]
    OBVIOUS
  <1>7. EachJobOnce'
    <2> DEFINE R == {u \in Workers : wpc[u] = "run"}
               J == {job[u] : u \in R}
               h == Head(items)
    <2>1. {u \in Workers : wpc'[u] = "run"} = R \cup {w}
      BY <1>6
    <2>2. /\ Range(items) \cap done = {}
          /\ \A u \in R : job[u] \notin Range(items) \cup done
          /\ \A u, v \in R : u # v => job[u] # job[v]
          /\ Range(items) \cup done \cup J = Range(accepted)
      BY DEF PoolIInv, EachJobOnce
    <2>3. R \subseteq Workers /\ (wpc[w] = "run" <=> w \in R)
      OBVIOUS
    <2>4. J \cup {h} = {job'[u] : u \in R \cup {w}} \cup (IF w \in R THEN {job[w]} ELSE {})
      BY <1>6, <2>3
    <2> HIDE DEF R, J, h
    <2>5. h \in Range(items) /\ Range(items) = Range(items') \cup {h} /\ h \notin Range(items')
          /\ \A u \in R \cup {w} : job'[u] = IF u = w THEN h ELSE job[u]
      BY <1>4, <1>6, <2>3 DEF h
    <2>6. Range(items') \cup done' \cup {job'[u] : u \in R \cup {w}} = Range(accepted)
      BY <2>2, <2>3, <2>4, <2>5
    <2>7. Range(items') \cap done' = {}
      BY <2>2, <2>3, <2>5
    <2>8. \A u \in R \cup {w} : job'[u] \notin Range(items') \cup done'
      BY <2>2, <2>3, <2>5
    <2>9. \A u, v \in R \cup {w} : u # v => job'[u] # job'[v]
      BY <2>2, <2>3, <2>5
    <2> QED BY <1>3, <2>1, <2>6, <2>7, <2>8, <2>9 DEF EachJobOnce
  <1>8. PoolTypeOK'
    <2>1. wpc[w] = "run" => job[w] \in Data
      BY RunsData
    <2>2. job' \in [Workers -> Data \cup {NoData}]
      BY <1>4
    <2> QED BY <1>2, <2>1, <2>2 DEF PoolIInv, PoolTypeOK, IInv
  <1>9. Places'
    BY <1>3, <1>5, <1>6 DEF PoolIInv, Places, PoolTypeOK
  <1>10. Distinct'
    BY <1>3, <1>4 DEF PoolIInv, Distinct
  <1>11. Pending'
    BY <1>6 DEF Pending
  <1> QED BY <1>2, <1>7, <1>8, <1>9, <1>10, <1>11 DEF PoolIInv

\* The main thread puts a job into the queue: it is nowhere else.
LEMMA PutJob ==
  ASSUME PoolIInv, NEW d \in Data, d \notin Range(accepted), AddItem(Main, d),
         mpc = "schedule", UNCHANGED poolVars,
         \/ wait[Main] = "awake" /\ queue_size < maxsize
         \/ wait[Main] = "signalled" /\ arg[Main] # NoData
  PROVE  PoolIInv'
  <1> USE PoolTypes
  <1>1. IInv'
    BY AddItemIInv DEF PoolIInv
  <1>2. items' = Append(items, d) /\ accepted' = Append(accepted, d) /\ removed' = removed
    BY DEF AddItem
  <1>3. d \notin Range(items) /\ Range(items') = Range(items) \cup {d}
        /\ Range(accepted') = Range(accepted) \cup {d}
        /\ \A i, j \in DOMAIN items' : items'[i] = items'[j] => i = j
    <2>0. items \in Seq(Data) /\ accepted \in Seq(Data)
      OBVIOUS
    <2> HIDE PoolTypes
    <2>1. d \notin Range(items)
      BY DEF PoolIInv, EachJobOnce
    <2>2. \A i, j \in DOMAIN items : items[i] = items[j] => i = j
      BY DEF PoolIInv, Distinct
    <2>3. \A i, j \in DOMAIN Append(items, d) : Append(items, d)[i] = Append(items, d)[j] => i = j
      BY <2>0, <2>1, <2>2, DistinctAppend, ZenonT(60)
    <2>4. Range(Append(items, d)) = Range(items) \cup {d}
      BY <2>0, RangeAppend
    <2>5. Range(Append(accepted, d)) = Range(accepted) \cup {d}
      BY <2>0, RangeAppend
    <2> QED BY <1>2, <2>1, <2>3, <2>4, <2>5, Zenon
  <1>4. /\ \A u \in Workers :
             wait'[u] = wait[u] \/ (wait[u] = "not_empty" /\ wait'[u] = "signalled")
        /\ wait'[Main] = "awake" /\ arg'[Main] = NoData
        /\ \A u \in Workers : arg'[u] = arg[u]
    BY AddEffect
  <1>5. PoolTypeOK'
    BY <1>1 DEF PoolIInv, PoolTypeOK, IInv, poolVars
  <1>6. Places'
    BY <1>2, <1>4 DEF PoolIInv, Places, poolVars
  <1>7. Distinct'
    <2>1. accepted' \in Seq(Data)
      BY <1>1 DEF IInv, TypeOK
    <2>2. NoData \notin Range(accepted')
      BY <2>1, QueueAssumption DEF Range
    <2> QED BY <1>3, <1>4, <2>2 DEF Distinct
  <1>8. EachJobOnce'
    <2>1. \A u \in Workers : wpc[u] = "run" => job[u] # d
      BY DEF PoolIInv, EachJobOnce
    <2>2. d \notin done
      BY DEF PoolIInv, EachJobOnce
    <2> QED BY <1>3, <2>1, <2>2 DEF PoolIInv, EachJobOnce, poolVars
  <1>9. Pending'
    BY DEF Pending, poolVars
  <1> QED BY <1>1, <1>5, <1>6, <1>7, <1>8, <1>9 DEF PoolIInv

\* The main thread waits for a place, or gives up; or a wait of any thread ends.
LEMMA WaitChange ==
  ASSUME PoolIInv, UNCHANGED poolVars, IInv',
         NEW t \in Threads, NEW c \in WaitStates, NEW a \in Data \cup {NoData},
         wait' = [wait EXCEPT ![t] = c], arg' = [arg EXCEPT ![t] = a],
         UNCHANGED <<items, queue_size, accepted, taken, removed>>,
         t = Main => mpc = "schedule" /\ a \notin Range(accepted),
         t # Main => wait[t] = "not_empty" /\ a = arg[t]
  PROVE  PoolIInv'
  <1> USE PoolTypes
  <1>1. /\ \A u \in Threads : wait'[u] = IF u = t THEN c ELSE wait[u]
        /\ \A u \in Threads : arg'[u] = IF u = t THEN a ELSE arg[u]
    OBVIOUS
  <1>2. PoolTypeOK'
    BY DEF PoolIInv, PoolTypeOK, IInv, poolVars
  <1>3. Places'
    BY <1>1 DEF PoolIInv, Places, poolVars
  <1>4. Distinct'
    BY <1>1 DEF PoolIInv, Distinct
  <1>5. EachJobOnce'
    BY DEF PoolIInv, EachJobOnce, poolVars
  <1>6. Pending'
    BY <1>1 DEF PoolIInv, Pending, poolVars
  <1> QED BY <1>2, <1>3, <1>4, <1>5, <1>6 DEF PoolIInv

\* The steps of a worker (ThreadPool_worker).
LEMMA NextJobInv ==
  ASSUME PoolIInv, NEW w \in Workers, NextJob(w),
         wpc[w] = "run" \/ (wpc[w] = "get" /\ wait[w] \in {"awake", "signalled", "timedout"}),
         done' = IF wpc[w] = "run" THEN done \cup {job[w]} ELSE done,
         UNCHANGED <<active, mpc, idleAtJoin>>
  PROVE  PoolIInv'
  <1> USE PoolTypes
  <1>0. arg[w] = NoData
    BY DEF PoolIInv, Places
  <1>1. CASE /\ queue_size = 0
             /\ Sleep(w, "not_empty") /\ UNCHANGED arg
             /\ wpc' = [wpc EXCEPT ![w] = "get"]
             /\ job' = [job EXCEPT ![w] = NoData]
    <2>1. "not_empty" \in WaitStates /\ arg' = [arg EXCEPT ![w] = NoData]
      BY <1>0, <1>1 DEF WaitStates
    <2> QED BY <1>1, <2>1, WithoutJob DEF Sleep
  <1>2. CASE queue_size = 0 /\ ~active /\ Quit(w)
    <2>1. "awake" \in WaitStates
      BY DEF WaitStates
    <2> QED BY <1>2, <2>1, WithoutJob DEF Quit, Return
  <1>3. CASE /\ queue_size # 0
             /\ TakeItem(w)
             /\ wpc' = [wpc EXCEPT ![w] = "run"]
             /\ job' = [job EXCEPT ![w] = Head(items)]
    BY <1>3, WithJob
  <1> QED BY <1>1, <1>2, <1>3 DEF NextJob

\* A worker after get, after a timeout, and after a job.
LEMMA WorkerInv ==
  ASSUME PoolIInv, NEW w \in Workers, Worker(w)
  PROVE  PoolIInv'
  <1>1. CASE WorkerGet(w)
    BY <1>1, NextJobInv DEF WorkerGet
  <1>2. CASE WorkerTimedOut(w)
    <2>1. CASE active
      BY <1>2, <2>1, NextJobInv DEF WorkerTimedOut
    <2>2. CASE ~active
      <3>1. "awake" \in WaitStates
        BY DEF WaitStates
      <3> QED BY <1>2, <2>2, <3>1, WithoutJob DEF WorkerTimedOut, Quit, Return
    <2> QED BY <2>1, <2>2
  <1>3. CASE WorkerRun(w)
    BY <1>3, NextJobInv DEF WorkerRun
  <1> QED BY <1>1, <1>2, <1>3 DEF Worker

\* The pool as ThreadPool_Con leaves it.
LEMMA InitPoolIInv == PoolInit => PoolIInv
  <1> SUFFICES ASSUME PoolInit PROVE PoolIInv
    OBVIOUS
  <1> USE DEF PoolInit
  <1>1. IInv
    BY InitIInv
  <1>2. items = <<>> /\ accepted = <<>> /\ removed = {} /\ PoolTypeOK /\ Places
    BY <1>1, PoolAssumption DEF Init, PoolTypeOK, Places, IInv
  <1>3. Range(<<>>) = {}
    BY DEF Range
  <1>4. Distinct /\ EachJobOnce /\ Pending
    <2>1. Distinct
      BY <1>2, <1>3 DEF Distinct
    <2>2. EachJobOnce
      <3>1. {w \in Workers : wpc[w] = "run"} = {} /\ done = {}
        OBVIOUS
      <3> QED BY <1>2, <1>3, <3>1, Zenon DEF EachJobOnce
    <2>3. Pending
      BY <1>2 DEF Pending
    <2> QED BY <2>1, <2>2, <2>3
  <1> QED BY <1>1, <1>2, <1>4 DEF PoolIInv

\* Every step of the pool keeps the invariant.
LEMMA NextPoolIInv ==
  ASSUME PoolIInv, [Next]_vars
  PROVE  PoolIInv'
  <1> USE PoolTypes
  <1>1. ASSUME NEW w \in Workers, Worker(w)
        PROVE  PoolIInv'
    BY <1>1, WorkerInv
  <1>2. ASSUME NEW d \in Data, Schedule(d)
        PROVE  PoolIInv'
    <2>1. /\ mpc = "schedule" /\ UNCHANGED poolVars /\ wait[Main] = "awake" /\ d \in Fresh
          /\ \/ queue_size >= maxsize /\ Sleep(Main, "not_full") /\ arg' = [arg EXCEPT ![Main] = d]
             \/ queue_size < maxsize /\ AddItem(Main, d)
      BY <1>2 DEF Schedule, Put
    <2>2. d \notin Range(accepted)
      BY <2>1 DEF Fresh, Range
    <2>3. CASE queue_size < maxsize /\ AddItem(Main, d)
      BY <2>1, <2>2, <2>3, PutJob
    <2>4. CASE /\ queue_size >= maxsize /\ Sleep(Main, "not_full")
               /\ arg' = [arg EXCEPT ![Main] = d]
      <3>1. "not_full" \in WaitStates /\ d # NoData
        BY QueueAssumption DEF WaitStates
      <3>2. IInv'
        BY <2>1, <2>4, <3>1, WaitIInv DEF Sleep, PoolIInv
      <3> QED BY <2>1, <2>2, <2>4, <3>1, <3>2, WaitChange DEF Sleep
    <2> QED BY <2>1, <2>3, <2>4
  <1>3. CASE ScheduleReturns
    <2>0. wait[Main] # "awake" => mpc = "schedule"
      BY DEF PoolIInv, Places
    <2>1. CASE PutSignalled(Main) /\ UNCHANGED poolVars
      <3>1. arg[Main] \in Data /\ arg[Main] \notin Range(accepted)
        BY <2>1 DEF PutSignalled, PoolIInv, Distinct
      <3> QED BY <2>0, <2>1, <3>1, PutJob DEF PutSignalled
    <2>2. CASE PutTimedOut(Main) /\ UNCHANGED poolVars
      <3>1. "awake" \in WaitStates
        BY DEF WaitStates
      <3>2. IInv'
        BY <2>2, <3>1, WaitIInv DEF PutTimedOut, Return, PoolIInv
      <3>3. NoData \notin Range(accepted)
        BY QueueAssumption DEF Range
      <3> QED BY <2>0, <2>2, <3>1, <3>2, <3>3, WaitChange DEF PutTimedOut, Return
    <2> QED BY <1>3, <2>1, <2>2 DEF ScheduleReturns
  <1>4. CASE Join
    <2>1. /\ mpc = "schedule" /\ wait[Main] = "awake" /\ active' = FALSE /\ mpc' = "join"
          /\ idleAtJoin' = (\A w \in Workers : wait[w] = "timedout")
          /\ UNCHANGED <<queueVars, wpc, job, done>>
      BY <1>4 DEF Join
    <2>2. UNCHANGED <<items, queue_size, wait, arg, accepted, taken, removed>>
      BY <2>1 DEF queueVars
    <2>3. IInv' /\ PoolTypeOK' /\ Places' /\ Distinct' /\ EachJobOnce'
      <3>1. IInv'
        BY <2>2 DEF PoolIInv, IInv, TypeOK, Fifo, SizeIsLength, WaitMatchesCall, NoLostWakeup,
                    Getters, Putters
      <3>2. PoolTypeOK'
        BY <2>1, <3>1 DEF PoolIInv, PoolTypeOK, IInv
      <3>3. Places'
        BY <2>1, <2>2 DEF PoolIInv, Places
      <3>4. Distinct'
        BY <2>2 DEF PoolIInv, Distinct
      <3>5. EachJobOnce'
        BY <2>1, <2>2 DEF PoolIInv, EachJobOnce
      <3> QED BY <3>1, <3>2, <3>3, <3>4, <3>5
    <2>4. Pending'
      <3> SUFFICES ASSUME items # <<>>, NEW w \in Workers, wait[w] # "timedout"
                   PROVE  \E u \in Workers : \/ wpc[u] = "run"
                                             \/ wpc[u] = "get" /\ wait[u] \in {"awake", "signalled"}
        BY <2>1, <2>2 DEF Pending
      <3>1. \A u \in Workers : wpc[u] \in {"get", "run"} /\ arg[u] = NoData
        BY <2>1 DEF PoolIInv, Places
      <3>2. CASE wait[w] # "not_empty"
        BY <3>1, <3>2 DEF PoolIInv, IInv, WaitMatchesCall, WaitStates
      <3>3. CASE wait[w] = "not_empty"
        <4>1. w \in Getters("not_empty")
          BY <3>1, <3>3 DEF Getters
        <4>2. queue_size <= Cardinality(Getters("signalled")) /\ queue_size # 0
          BY <4>1 DEF PoolIInv, IInv, NoLostWakeup
        <4>3. queue_size \in Nat
          BY DEF PoolIInv, IInv, TypeOK
        <4>4. Getters("signalled") # {}
          <5> HIDE PoolTypes
          <5> DEFINE n == Cardinality(Getters("signalled"))
          <5>1. n \in Nat /\ queue_size <= n
            BY <4>2, FiniteWaiters
          <5> HIDE DEF n
          <5>2. n # 0
            BY <4>2, <4>3, <5>1
          <5> QED BY <5>2, FS_EmptySet, Zenon DEF n
        <4>5. PICK u \in Threads : wait[u] = "signalled"
          BY <4>4 DEF Getters
        <4>6. u \in Workers
          BY <2>1, <4>5, PoolAssumption
        <4>7. wpc[u] = "get"
          BY <4>5, <4>6 DEF PoolIInv, Places
        <4> QED BY <4>5, <4>6, <4>7
      <3> QED BY <3>2, <3>3
    <2> QED BY <2>3, <2>4 DEF PoolIInv
  <1>5. CASE JoinReturns
    <2>1. /\ mpc = "join" /\ mpc' = "joined" /\ \A w \in Workers : wpc[w] = "quit"
          /\ UNCHANGED <<active, wpc, job, done, idleAtJoin>>
          /\ UNCHANGED <<items, queue_size, wait, arg, accepted, taken, removed>>
      BY <1>5 DEF JoinReturns, queueVars
    <2>2. IInv'
      BY <2>1 DEF PoolIInv, IInv, TypeOK, Fifo, SizeIsLength, WaitMatchesCall, NoLostWakeup,
                  Getters, Putters
    <2>3. PoolTypeOK'
      BY <2>1, <2>2 DEF PoolIInv, PoolTypeOK, IInv
    <2>4. Places' /\ Distinct' /\ EachJobOnce' /\ Pending'
      <3>1. Places'
        BY <2>1 DEF PoolIInv, Places
      <3>2. Distinct'
        BY <2>1 DEF PoolIInv, Distinct
      <3>3. EachJobOnce'
        BY <2>1 DEF PoolIInv, EachJobOnce
      <3>4. Pending'
        BY <2>1 DEF PoolIInv, Pending
      <3> QED BY <3>1, <3>2, <3>3, <3>4
    <2> QED BY <2>2, <2>3, <2>4 DEF PoolIInv
  <1>6. ASSUME NEW t \in Threads, Wake(t)
        PROVE  PoolIInv'
    <2>1. PICK c \in {"timedout", "signalled"} :
            /\ wait[t] \in {"not_empty", "not_full"} /\ wait' = [wait EXCEPT ![t] = c]
            /\ UNCHANGED <<items, queue_size, arg, accepted, taken, removed>>
            /\ UNCHANGED poolVars
      BY <1>6 DEF Wake, WakeStep, Timeout, SpuriousWakeup
    <2>2. c \in WaitStates /\ arg' = [arg EXCEPT ![t] = arg[t]] /\ arg[t] \in Data \cup {NoData}
      BY <2>1 DEF WaitStates
    <2>3. IInv'
      BY <2>1, <2>2, WaitIInv DEF PoolIInv
    <2>4. t = Main => mpc = "schedule" /\ arg[t] \notin Range(accepted)
      BY <2>1 DEF PoolIInv, Places, Distinct
    <2>5. t # Main => wait[t] = "not_empty"
      BY <2>1, PoolAssumption DEF PoolIInv, Places, IInv, WaitMatchesCall
    <2> QED BY <2>1, <2>2, <2>3, <2>4, <2>5, WaitChange
  <1>7. CASE UNCHANGED vars
    <2>1. /\ UNCHANGED <<items, queue_size, wait, arg, accepted, taken, removed>>
          /\ UNCHANGED <<active, wpc, job, done, mpc, idleAtJoin>>
      BY <1>7 DEF vars, queueVars, poolVars
    <2>2. IInv'
      BY <2>1 DEF PoolIInv, IInv, TypeOK, Fifo, SizeIsLength, WaitMatchesCall, NoLostWakeup,
                  Getters, Putters
    <2>3. PoolTypeOK'
      BY <2>1, <2>2 DEF PoolIInv, PoolTypeOK, IInv
    <2>4. Places' /\ Distinct' /\ EachJobOnce' /\ Pending'
      <3>1. Places'
        BY <2>1 DEF PoolIInv, Places
      <3>2. Distinct'
        BY <2>1 DEF PoolIInv, Distinct
      <3>3. EachJobOnce'
        BY <2>1 DEF PoolIInv, EachJobOnce
      <3>4. Pending'
        BY <2>1 DEF PoolIInv, Pending
      <3> QED BY <3>1, <3>2, <3>3, <3>4
    <2> QED BY <2>2, <2>3, <2>4 DEF PoolIInv
  <1> QED BY <1>1, <1>2, <1>3, <1>4, <1>5, <1>6, <1>7 DEF Next, Finished

\* The inductive invariant of the pool holds for any workers, jobs and size of its queue.
THEOREM PoolInductive == Spec => []PoolIInv
  <1> QED BY InitPoolIInv, NextPoolIInv, PTL DEF Spec

\* Every job that schedule accepted is in the queue, with one worker, or done: never
\* run twice, never dropped on the way (ThreadPool_worker, Queue_get).
THEOREM EachJobOnceHolds == Spec => []EachJobOnce
  <1>1. PoolIInv => EachJobOnce
    BY DEF PoolIInv
  <1> QED BY <1>1, PoolInductive, PTL

\* Join leaves a job behind only if every worker had timed out when it was called
\* (ThreadPool_join): with no lost wakeup, one other worker runs everything.
THEOREM LossNeedsIdlePoolHolds == Spec => []LossNeedsIdlePool
  <1>1. PoolIInv => LossNeedsIdlePool
    BY DEF PoolIInv, LossNeedsIdlePool, Pending, Places
  <1> QED BY <1>1, PoolInductive, PTL
==============================================================================
