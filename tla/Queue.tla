-------------------------------- MODULE Queue --------------------------------
(***************************************************************************)
(* Queue (lib/queue.c): a bounded list with a size counter and two         *)
(* condition variables, used by threads that hold the global lock.         *)
(*                                                                         *)
(* A step is what a thread does from the moment it has the lock until it   *)
(* gives it up, in timedwait or by returning (GlobalLockProofs shows that  *)
(* nobody else is inside meanwhile).  A thread whose wait has ended is     *)
(* "signalled" or "timedout" until it has the lock back: other threads run *)
(* in between.  A signal or a spurious wakeup makes timedwait return 0,    *)
(* the deadline makes it return ETIMEDOUT.                                 *)
(***************************************************************************)
EXTENDS Naturals, Sequences, FiniteSets

CONSTANTS Threads,  \* the threads that call put, get and remove
          Data,     \* what they put: pointers to distinct objects
          NoData,   \* NULL
          maxsize,  \* self->maxsize
          Spurious  \* may a wait end without a signal, as POSIX allows?

ASSUME QueueAssumption == /\ NoData \notin Data
                          /\ maxsize \in Nat
                          /\ Spurious \in BOOLEAN
                          /\ IsFiniteSet(Threads)

VARIABLES items,       \* self->items
          queue_size,  \* self->queue_size
          wait,        \* the condition variable each thread waits on, or how
                       \* its wait has ended
          arg,         \* the object a waiting put will add
          accepted,    \* history: what put returned 1 for, in order
          taken,       \* history: what get returned, in order
          removed      \* history: what remove returned

queueVars == <<items, queue_size, wait, arg, accepted, taken, removed>>

WaitStates == {"awake", "not_empty", "not_full", "signalled", "timedout"}

Asleep(cond) == {t \in Threads : wait[t] = cond}

\* The pointers not yet handed to the queue.
Fresh == {d \in Data : /\ \A i \in DOMAIN accepted : accepted[i] # d
                       /\ \A t \in Threads : arg[t] # d}

Init == /\ items = <<>> /\ queue_size = 0
        /\ wait = [t \in Threads |-> "awake"]
        /\ arg = [t \in Threads |-> NoData]
        /\ accepted = <<>> /\ taken = <<>> /\ removed = {}
------------------------------------------------------------------------------
\* pthread_cond_signal(): one of the threads waiting on cond, if any, in w.
Signalled(w, cond) ==
  LET waiting == {t \in Threads : w[t] = cond}
  IN IF waiting = {} THEN {w}
     ELSE {[w EXCEPT ![t] = "signalled"] : t \in waiting}

\* Mutant: getters are only signalled when the queue was empty before.
SignalGetterIfEmpty(w) ==
  IF queue_size = 0 THEN Signalled(w, "not_empty") ELSE {w}

\* The two signals the queue sends: put to a getter, get to a putter.
SignalGetter(w) == Signalled(w, "not_empty")

SignalPutter(w) == Signalled(w, "not_full")

\* Mutant: the new object goes to the head of the list.
AddItemAtHead(t, d) ==
  /\ items' = <<d>> \o items
  /\ queue_size' = queue_size + 1
  /\ wait' \in SignalGetter([wait EXCEPT ![t] = "awake"])
  /\ arg' = [arg EXCEPT ![t] = NoData]
  /\ accepted' = Append(accepted, d)
  /\ UNCHANGED <<taken, removed>>

\* The end of Queue_put: link the object, count it, signal a getter, return 1.
AddItem(t, d) ==
  /\ items' = Append(items, d)
  /\ queue_size' = queue_size + 1
  /\ wait' \in SignalGetter([wait EXCEPT ![t] = "awake"])
  /\ arg' = [arg EXCEPT ![t] = NoData]
  /\ accepted' = Append(accepted, d)
  /\ UNCHANGED <<taken, removed>>

\* Mutant: the object is returned and stays in the list.
TakeItemLinked(t) ==
  /\ taken' = Append(taken, IF items = <<>> THEN NoData ELSE Head(items))
  /\ wait' \in SignalPutter([wait EXCEPT ![t] = "awake"])
  /\ UNCHANGED <<items, queue_size, arg, accepted, removed>>

\* The end of Queue_get: unlink the first object, signal a putter, count.
\* list_next on an empty list yields the list head itself, not an object.
TakeItem(t) ==
  /\ taken' = Append(taken, IF items = <<>> THEN NoData ELSE Head(items))
  /\ items' = IF items = <<>> THEN <<>> ELSE Tail(items)
  /\ queue_size' = queue_size - 1
  /\ wait' \in SignalPutter([wait EXCEPT ![t] = "awake"])
  /\ UNCHANGED <<arg, accepted, removed>>

\* timedwait() gives the global lock up.
Sleep(t, cond) ==
  /\ wait' = [wait EXCEPT ![t] = cond]
  /\ UNCHANGED <<items, queue_size, accepted, taken, removed>>

\* A call returns without having touched the queue.
Return(t) ==
  /\ wait' = [wait EXCEPT ![t] = "awake"]
  /\ arg' = [arg EXCEPT ![t] = NoData]
  /\ UNCHANGED <<items, queue_size, accepted, taken, removed>>
------------------------------------------------------------------------------
\* Mutant: the object is counted before the wait for a place.
PutCounted(t, d) ==
  /\ wait[t] = "awake" /\ d \in Fresh
  /\ \/ /\ queue_size >= maxsize
        /\ wait' = [wait EXCEPT ![t] = "not_full"]
        /\ arg' = [arg EXCEPT ![t] = d]
        /\ queue_size' = queue_size + 1
        /\ UNCHANGED <<items, accepted, taken, removed>>
     \/ /\ queue_size < maxsize
        /\ AddItem(t, d)

\* Queue_put: a full queue is waited for once, and not looked at again: a putter
\* that another one overtakes, or that wakes for no reason, adds to a full queue.
Put(t, d) ==
  /\ wait[t] = "awake" /\ d \in Fresh
  /\ \/ /\ queue_size >= maxsize
        /\ Sleep(t, "not_full")
        /\ arg' = [arg EXCEPT ![t] = d]
     \/ /\ queue_size < maxsize
        /\ AddItem(t, d)

PutSignalled(t) == /\ wait[t] = "signalled" /\ arg[t] # NoData
                   /\ AddItem(t, arg[t])

PutTimedOut(t) == /\ wait[t] = "timedout" /\ arg[t] # NoData
                  /\ Return(t)

\* Queue_get: an empty queue is waited for until it is not empty any more.
GetLoop(t) ==
  \/ queue_size = 0 /\ Sleep(t, "not_empty") /\ UNCHANGED arg
  \/ queue_size # 0 /\ TakeItem(t)

Get(t) == wait[t] = "awake" /\ GetLoop(t)

GetSignalled(t) == /\ wait[t] = "signalled" /\ arg[t] = NoData
                   /\ GetLoop(t)

GetTimedOut(t) == /\ wait[t] = "timedout" /\ arg[t] = NoData
                  /\ Return(t)

\* Queue_remove: unlinks the first item with the object and leaves queue_size
\* as it is.
Remove(t, d) ==
  /\ wait[t] = "awake"
  /\ \E i \in DOMAIN items :
       /\ items[i] = d /\ \A j \in 1..(i - 1) : items[j] # d
       /\ items' = SubSeq(items, 1, i - 1) \o SubSeq(items, i + 1, Len(items))
  /\ removed' = removed \cup {d}
  /\ UNCHANGED <<queue_size, wait, arg, accepted, taken>>

\* The deadline of a wait passes, or it ends for no reason.
Timeout(t) == /\ wait[t] \in {"not_empty", "not_full"}
              /\ wait' = [wait EXCEPT ![t] = "timedout"]
              /\ UNCHANGED <<items, queue_size, arg, accepted, taken, removed>>

SpuriousWakeup(t) == /\ Spurious
                     /\ wait[t] \in {"not_empty", "not_full"}
                     /\ wait' = [wait EXCEPT ![t] = "signalled"]
                     /\ UNCHANGED <<items, queue_size, arg, accepted, taken, removed>>
------------------------------------------------------------------------------
PutStep(t) == (\E d \in Data : Put(t, d)) \/ PutSignalled(t) \/ PutTimedOut(t)

GetStep(t) == Get(t) \/ GetSignalled(t) \/ GetTimedOut(t)

WakeStep(t) == Timeout(t) \/ SpuriousWakeup(t)

RemoveStep(t) == \E d \in Data : Remove(t, d)
------------------------------------------------------------------------------
TypeOK == /\ items \in Seq(Data)
          /\ queue_size \in Nat
          /\ wait \in [Threads -> WaitStates]
          /\ arg \in [Threads -> Data \cup {NoData}]
          /\ accepted \in Seq(Data)
          /\ taken \in Seq(Data \cup {NoData})
          /\ removed \subseteq Data

\* Nothing is lost, duplicated or reordered: what get has returned, followed by
\* what is in the list, is what put has accepted, in that order, whichever
\* thread waited, was woken or timed out in between (Queue_put and Queue_get
\* both return to the list after having given the lock up).  Until the first
\* remove: SurvivorsInOrder says what is left of it then.
Fifo == removed = {} => accepted = taken \o items

\* queue_size, which get and put test instead of the list, is its length, until
\* Queue_remove, which does not count, has unlinked something.
SizeIsLength == removed = {} => queue_size = Len(items)

Getters(state) == {t \in Threads : wait[t] = state /\ arg[t] = NoData}
Putters(state) == {t \in Threads : wait[t] = state /\ arg[t] # NoData}

\* No wakeup is lost: while a getter sleeps in timedwait, every object in the
\* queue has a signalled getter on its way to it; while a putter sleeps, every
\* free place has a signalled putter.  Each put sends one signal and each get
\* sends one, and other threads may take the object or the place first.
NoLostWakeup ==
  /\ Getters("not_empty") # {} => queue_size <= Cardinality(Getters("signalled"))
  /\ Putters("not_full") # {} =>
       maxsize <= queue_size + Cardinality(Putters("signalled"))

\* The inductive invariant: only a getter waits for not_empty, only a putter
\* for not_full, and a thread that is not in put has no object to add.
WaitMatchesCall ==
  \A t \in Threads : /\ wait[t] \in {"awake", "not_empty"} => arg[t] = NoData
                     /\ wait[t] = "not_full" => arg[t] # NoData

IInv == TypeOK /\ Fifo /\ SizeIsLength /\ WaitMatchesCall /\ NoLostWakeup

\* Get returned an object each time, and never unlinked the head of an empty list.
OnlyObjects == \A i \in DOMAIN taken : taken[i] # NoData

\* Also when objects are removed from the middle of the list, the ones that are
\* left come out in the order they were put, each once, none of them removed,
\* and the counter is too large by the number of removed objects, so that none is
\* stuck behind a counter of zero.  Once Queue_get has unlinked the list head,
\* which takes a removal, nothing can be said.
SurvivorsInOrder ==
  LET left == taken \o items
      Place(d) == CHOOSE k \in DOMAIN accepted : accepted[k] = d
  IN IF OnlyObjects
     THEN /\ queue_size = Len(items) + Cardinality(removed)
          /\ \A i, j \in DOMAIN left : i < j => Place(left[i]) < Place(left[j])
          /\ \A i \in DOMAIN left : left[i] \notin removed
     ELSE removed # {}
==============================================================================
