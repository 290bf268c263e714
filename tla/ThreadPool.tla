------------------------------ MODULE ThreadPool -----------------------------
(***************************************************************************)
(* ThreadPool (lib/aff4_utils.c): worker threads that take jobs from a     *)
(* Queue and run them, and the thread that schedules the jobs and joins    *)
(* the workers.  Steps are as in Queue: what a thread does while it has    *)
(* the global lock.  A worker keeps the lock when get returns and looks    *)
(* for the next job in the same step; a job may give the lock up while it  *)
(* runs (ImageWorker_run compresses without it), so that the end of a job  *)
(* is a step of its own.                                                   *)
(***************************************************************************)
EXTENDS Queue, Functions

CONSTANTS Workers, Main

ASSUME PoolAssumption == /\ Main \notin Workers
                         /\ Threads = Workers \cup {Main}

VARIABLES active,     \* self->active
          wpc,        \* each worker: in get(), running a job, or gone
          job,        \* the job each worker runs
          done,       \* history: the jobs whose run() has returned
          mpc,        \* the main thread: scheduling, in join(), past it
          idleAtJoin  \* history: when join() was called every worker had timed
                      \* out and waited for the lock

poolVars == <<active, wpc, job, done, mpc, idleAtJoin>>
vars == <<queueVars, poolVars>>

PoolInit ==
  /\ Init
  /\ active = TRUE
  /\ wpc = [w \in Workers |-> "get"]
  /\ job = [w \in Workers |-> NoData]
  /\ done = {}
  /\ mpc = "schedule"
  /\ idleAtJoin = FALSE
------------------------------------------------------------------------------
\* The worker leaves its loop.
Quit(w) ==
  /\ Return(w)
  /\ wpc' = [wpc EXCEPT ![w] = "quit"]
  /\ job' = [job EXCEPT ![w] = NoData]

\* Mutant: the worker looks at active before it looks at the queue.
NextJobIfActive(w) ==
  \/ /\ active /\ queue_size = 0
     /\ Sleep(w, "not_empty") /\ UNCHANGED arg
     /\ wpc' = [wpc EXCEPT ![w] = "get"]
     /\ job' = [job EXCEPT ![w] = NoData]
  \/ /\ ~active
     /\ Quit(w)
  \/ /\ active /\ queue_size # 0
     /\ TakeItem(w)
     /\ wpc' = [wpc EXCEPT ![w] = "run"]
     /\ job' = [job EXCEPT ![w] = Head(items)]

\* get(100000): take a job, or sleep.  The deadline of the sleep may be one
\* that timedwait cannot express (GlobalLock, CondInvalid); get then returns
\* NULL at once, and the worker quits, or calls get again and nothing changed.
NextJob(w) ==
  \/ /\ queue_size = 0
     /\ Sleep(w, "not_empty") /\ UNCHANGED arg
     /\ wpc' = [wpc EXCEPT ![w] = "get"]
     /\ job' = [job EXCEPT ![w] = NoData]
  \/ /\ queue_size = 0 /\ ~active
     /\ Quit(w)
  \/ /\ queue_size # 0
     /\ TakeItem(w)
     /\ wpc' = [wpc EXCEPT ![w] = "run"]
     /\ job' = [job EXCEPT ![w] = Head(items)]

\* The thread has started, or has been signalled in get().
WorkerGet(w) ==
  /\ wpc[w] = "get" /\ wait[w] \in {"awake", "signalled"}
  /\ NextJob(w)
  /\ UNCHANGED <<active, done, mpc, idleAtJoin>>

\* Mutant: the worker quits when get() returns NULL.
WorkerTimedOutQuits(w) ==
  /\ wpc[w] = "get" /\ wait[w] = "timedout"
  /\ Quit(w)
  /\ UNCHANGED <<active, done, mpc, idleAtJoin>>

\* Mutant: the worker calls get() again when it returns NULL.
WorkerTimedOutLoops(w) ==
  /\ wpc[w] = "get" /\ wait[w] = "timedout"
  /\ NextJob(w)
  /\ UNCHANGED <<active, done, mpc, idleAtJoin>>

\* get() returns NULL after a timeout, whatever is in the queue by now.
WorkerTimedOut(w) ==
  /\ wpc[w] = "get" /\ wait[w] = "timedout"
  /\ IF active THEN NextJob(w) ELSE Quit(w)
  /\ UNCHANGED <<active, done, mpc, idleAtJoin>>

\* The job's run() returns and the worker looks for the next one.
WorkerRun(w) ==
  /\ wpc[w] = "run"
  /\ done' = done \cup {job[w]}
  /\ NextJob(w)
  /\ UNCHANGED <<active, mpc, idleAtJoin>>

Worker(w) == WorkerGet(w) \/ WorkerTimedOut(w) \/ WorkerRun(w)
------------------------------------------------------------------------------
\* ThreadPool_schedule: put with a timeout.
Schedule(d) ==
  /\ mpc = "schedule" /\ Put(Main, d)
  /\ UNCHANGED poolVars

ScheduleReturns ==
  /\ PutSignalled(Main) \/ PutTimedOut(Main)
  /\ UNCHANGED poolVars

\* ThreadPool_join: tell the workers, then wait for each of them to be gone.
Join ==
  /\ mpc = "schedule" /\ wait[Main] = "awake"
  /\ active' = FALSE
  /\ mpc' = "join"
  /\ idleAtJoin' = \A w \in Workers : wait[w] = "timedout"
  /\ UNCHANGED <<queueVars, wpc, job, done>>

JoinReturns ==
  /\ mpc = "join" /\ \A w \in Workers : wpc[w] = "quit"
  /\ mpc' = "joined"
  /\ UNCHANGED <<queueVars, active, wpc, job, done, idleAtJoin>>

Wake(t) == WakeStep(t) /\ UNCHANGED poolVars

\* Nothing is left to do.
Finished == mpc = "joined" /\ UNCHANGED vars

Next == \/ \E w \in Workers : Worker(w)
        \/ \E d \in Data : Schedule(d)
        \/ ScheduleReturns
        \/ Join
        \/ JoinReturns
        \/ \E t \in Threads : Wake(t)
        \/ Finished

Spec == PoolInit /\ [][Next]_vars
------------------------------------------------------------------------------
PoolTypeOK ==
  /\ TypeOK
  /\ active \in BOOLEAN
  /\ wpc \in [Workers -> {"get", "run", "quit"}]
  /\ job \in [Workers -> Data \cup {NoData}]
  /\ done \subseteq Data
  /\ mpc \in {"schedule", "join", "joined"}
  /\ idleAtJoin \in BOOLEAN

\* Every job that schedule accepted is in exactly one place: waiting in the
\* queue, run by exactly one worker, or done; and none is run that was not
\* accepted.  The worker holds the job after Queue_get has unlinked it and the
\* global lock has been given up and taken again (aff4_utils.c:348-351).
EachJobOnce ==
  LET running == {w \in Workers : wpc[w] = "run"}
  IN /\ Range(items) \cap done = {}
     /\ \A w \in running : job[w] \notin Range(items) \cup done
     /\ \A v, w \in running : v # w => job[v] # job[w]
     /\ Range(items) \cup done \cup {job[w] : w \in running} = Range(accepted)

\* A job is left behind by join only when, at the time of the call, every worker
\* had timed out in get() and was waiting for the lock; one worker that was
\* busy, signalled or not yet started is enough to run everything.
LossNeedsIdlePool == mpc = "joined" /\ items # <<>> => idleAtJoin

\* When join has returned every job that was accepted has been run (the test
\* asserts results[i] == 1 for all of them after join, tests/utils.c:186-191;
\* "Only quit if the pool is not active and there are no more waiting tasks",
\* aff4_utils.c:353-355).
JoinRunsAll == mpc = "joined" => done = Range(accepted)

\* While the pool is active every job in the queue is taken eventually, whoever
\* misses a signal: the workers poll (aff4_utils.c:348).
PoolServes ==
  \A d \in Data : d \in Range(items) ~> (d \notin Range(items) \/ ~active)
==============================================================================
