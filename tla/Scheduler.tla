----------------------------- MODULE Scheduler ------------------------------
(***************************************************************************)
(* The task scheduler of scheduler.cpp: threads running servicequeue() over *)
(* one multimap of tasks ordered by time, one mutex (newtaskmutex) and one  *)
(* condition variable (newtaskscheduled).                                   *)
(*                                                                          *)
(* One action is one critical section of the mutex, from the lock to the    *)
(* next unlock or wait.  schedule() and stop() notify after they unlocked,  *)
(* so a notification is a step of its own.  The run of a task takes place   *)
(* outside the mutex; a task may end by scheduling another one, or itself   *)
(* again, as repeat() does for ever for scheduleevery().                    *)
(***************************************************************************)
EXTENDS Integers, FiniteSets

CONSTANTS
  Servicers,  \* the threads that may run servicequeue()
  Tasks,      \* the tasks that may be scheduled
  NoTask,     \* not a task
  Follow,     \* the task that a task schedules before it returns, or NoTask
  Delta,      \* deltaseconds of that schedulefromnow()
  Times,      \* the times for which each task may be scheduled
  MaxTime     \* bound on the clock and on the time by which a task is overdue

ASSUME SchedulerAssumption ==
  /\ NoTask \notin Tasks
  /\ Follow \in [Tasks -> Tasks \cup {NoTask}]
  /\ \A j, k \in Tasks : Follow[j] = Follow[k] /\ Follow[j] # NoTask => j = k
  /\ Delta \in Nat
  /\ Times \in [Tasks -> SUBSET Nat]
  /\ MaxTime \in Nat
  /\ IsFiniteSet(Servicers)

VARIABLES
  now,            \* system_clock::now()
  taskqueue,      \* the tasks of the multimap
  at,             \* the key of each task in it
  place,          \* where each thread is
  cur,            \* the task that a thread runs or for whose time it waits, unless another
                  \* thread has erased its entry meanwhile
  nThreads,       \* nthreadsservicingqueue
  stopRequested,
  stopWhenEmpty,
  notices,        \* notify_one calls between their unlock and their effect
  noticeAll,      \* the notify_all of a stop() in the same situation
  interrupted,    \* threadgroup.interrupt_all() was called
  seen,           \* nthreadsservicingqueue as read by a thread that unwinds
  ran             \* history: the tasks whose run has begun

schedulerVars == <<now, taskqueue, at, place, cur, nThreads, stopRequested, stopWhenEmpty,
                   notices, noticeAll, interrupted, seen, ran>>

(***************************************************************************)
(* A thread is "off" if the program does not start it, "new" before it has  *)
(* the mutex, "idle" in newtaskscheduled.wait, "timed" in wait_until,       *)
(* "woken" and "timedwoken" when it was notified there, "running" a task,   *)
(* "notifying" when the task has scheduled what follows it and "ran" after  *)
(* the notify_one of that.  It ends "done", "interrupted" in a wait, or     *)
(* "unwound" when the task threw; "throwing" is between the read and the    *)
(* write of the decrement in the catch block, which a thread that comes     *)
(* from f() executes without the mutex.                                     *)
(***************************************************************************)
Waiting  == {"idle", "woken", "timed", "timedwoken"}
Runnable == {"new", "woken", "timedwoken", "running", "notifying", "ran"}
Ended    == {"done", "interrupted", "unwound"}
PcStates == {"off", "throwing"} \cup Waiting \cup Runnable \cup Ended

Started == {t \in Servicers : place[t] # "off"}

SchedulerInit ==
  /\ now = 0
  /\ taskqueue = {}
  /\ at = [k \in Tasks |-> 0]
  /\ place \in [Servicers -> {"off", "new"}]
  /\ cur = [t \in Servicers |-> NoTask]
  /\ nThreads = 0
  /\ stopRequested = FALSE
  /\ stopWhenEmpty = FALSE
  /\ notices = 0
  /\ noticeAll = FALSE
  /\ interrupted = FALSE
  /\ seen = [t \in Servicers |-> 0]
  /\ ran = {}

\* Mutant: a draining stop does not look at the queue.
ShouldStopAtOnce == stopRequested \/ stopWhenEmpty

ShouldStop == stopRequested \/ (stopWhenEmpty /\ taskqueue = {})

\* The entries that taskqueue.begin() may be.
First == {k \in taskqueue : \A j \in taskqueue : at[k] <= at[j]}

-----------------------------------------------------------------------------
(***************************************************************************)
(* The control of servicequeue() from the head of the outer while to the    *)
(* next wait or to its end, with the counter n as this section found it.    *)
(* The three loops come together here: whatever wait a thread comes from,   *)
(* without a timeout it leaves when shouldstop(), waits when the queue is   *)
(* empty, and otherwise waits for the time of the first task.               *)
(***************************************************************************)
Loop(t, n) ==
  /\ \/ /\ ShouldStop
        /\ place' = [place EXCEPT ![t] = "done"]
        /\ cur' = [cur EXCEPT ![t] = NoTask]
        /\ nThreads' = n - 1
     \/ /\ ~ShouldStop
        /\ taskqueue = {}
        /\ place' = [place EXCEPT ![t] = "idle"]
        /\ cur' = [cur EXCEPT ![t] = NoTask]
        /\ nThreads' = n
     \/ /\ ~ShouldStop
        /\ \E k \in First :
             /\ place' = [place EXCEPT ![t] = "timed"]
             /\ cur' = [cur EXCEPT ![t] = k]
        /\ nThreads' = n
  /\ UNCHANGED <<now, taskqueue, at, stopRequested, stopWhenEmpty, notices,
                 noticeAll, interrupted, seen, ran>>

\* Mutant: the thread is not counted on the way in.
EnterUncounted(t) == place[t] = "new" /\ Loop(t, nThreads)

EnterService(t) == place[t] = "new" /\ Loop(t, nThreads + 1)

\* wait() returned; a pending interruption would have thrown instead.
Wake(t) ==
  /\ place[t] = "woken"
  /\ ~interrupted
  /\ Loop(t, nThreads)

\* wait_until returns: on a notification, or because the time is there.
TimedReturn(t) ==
  /\ \/ place[t] = "timedwoken"
     \/ place[t] = "timed" /\ (cur[t] # NoTask => now >= at[cur[t]])
  /\ ~interrupted

\* Mutant: a notification is taken for a timeout.
AnyReturnTimesOut(t) == TRUE

\* boost computes the status as now() < t with t a reference to the key of
\* the multimap entry: if another thread has erased that entry meanwhile, what
\* is read there is anything.
MayTimeout(t) == cur[t] # NoTask => now >= at[cur[t]]
MayGoOn(t)    == cur[t] # NoTask => now < at[cur[t]]

WaitAgain(t) ==
  /\ TimedReturn(t)
  /\ MayGoOn(t) \/ ShouldStop \/ taskqueue = {}
  /\ Loop(t, nThreads)

\* Threads that wait for the time of k lose sight of its entry.
Erased(k) ==
  [u \in Servicers |-> IF cur[u] = k /\ place[u] \in {"timed", "timedwoken"} THEN NoTask ELSE cur[u]]

\* The first task, whichever that is by now, is erased and run.
Take(t) ==
  /\ TimedReturn(t)
  /\ MayTimeout(t)
  /\ ~ShouldStop
  /\ \E k \in First :
       /\ taskqueue' = taskqueue \ {k}
       /\ cur' = [Erased(k) EXCEPT ![t] = k]
       /\ ran' = ran \cup {k}
  /\ place' = [place EXCEPT ![t] = "running"]
  /\ UNCHANGED <<now, at, nThreads, stopRequested, stopWhenEmpty, notices,
                 noticeAll, interrupted, seen>>

Notified(s) ==
  CASE s = "idle" -> "woken" [] s = "timed" -> "timedwoken" [] OTHER -> s

Sleepers == {t \in Servicers : place[t] \in {"idle", "timed"}}

\* notify_one(), with the threads at p otherwise.
WakeOne(p) ==
  \/ \E t \in Sleepers : place' = [p EXCEPT ![t] = Notified(@)]
  \/ Sleepers = {} /\ place' = p

\* The insertion of schedule().
Insert(k, time) ==
  /\ taskqueue' = taskqueue \cup {k}
  /\ at' = [at EXCEPT ![k] = time]

\* The run of a task ends with schedulefromnow().
Reschedule(t) ==
  /\ place[t] = "running"
  /\ Follow[cur[t]] # NoTask
  /\ Insert(Follow[cur[t]], now + Delta)
  /\ place' = [place EXCEPT ![t] = "notifying"]
  /\ cur' = [cur EXCEPT ![t] = NoTask]
  /\ UNCHANGED <<now, nThreads, stopRequested, stopWhenEmpty, notices, noticeAll,
                 interrupted, seen, ran>>

NotifyNext(t) ==
  /\ place[t] = "notifying"
  /\ WakeOne([place EXCEPT ![t] = "ran"])
  /\ UNCHANGED <<now, taskqueue, at, cur, nThreads, stopRequested, stopWhenEmpty,
                 notices, noticeAll, interrupted, seen, ran>>

\* f() has returned: lock.lock() and the next iteration.
FinishTask(t) ==
  /\ \/ place[t] = "ran"
     \/ place[t] = "running" /\ Follow[cur[t]] = NoTask
  /\ Loop(t, nThreads)

Service(t) ==
  \/ EnterService(t) \/ Wake(t) \/ WaitAgain(t) \/ Take(t)
  \/ Reschedule(t) \/ NotifyNext(t) \/ FinishTask(t)

-----------------------------------------------------------------------------
\* boost::thread_interrupted leaves a wait with the mutex held.
InterruptedWait(t) ==
  /\ interrupted
  /\ place[t] \in Waiting
  /\ place' = [place EXCEPT ![t] = "interrupted"]
  /\ cur' = [cur EXCEPT ![t] = NoTask]
  /\ nThreads' = nThreads - 1
  /\ UNCHANGED <<now, taskqueue, at, stopRequested, stopWhenEmpty, notices,
                 noticeAll, interrupted, seen, ran>>

\* A task passes an interruption point: the exception leaves f() with the mutex
\* unlocked, and the catch block decrements the counter all the same.
Throw(t) ==
  /\ interrupted
  /\ place[t] = "running"
  /\ place' = [place EXCEPT ![t] = "throwing"]
  /\ seen' = [seen EXCEPT ![t] = nThreads]
  /\ UNCHANGED <<now, taskqueue, at, cur, nThreads, stopRequested, stopWhenEmpty,
                 notices, noticeAll, interrupted, ran>>

Unwind(t) ==
  /\ place[t] = "throwing"
  /\ place' = [place EXCEPT ![t] = "unwound"]
  /\ nThreads' = seen[t] - 1
  /\ cur' = [cur EXCEPT ![t] = NoTask]
  /\ seen' = [seen EXCEPT ![t] = 0]
  /\ UNCHANGED <<now, taskqueue, at, stopRequested, stopWhenEmpty, notices,
                 noticeAll, interrupted, ran>>

-----------------------------------------------------------------------------
\* Tasks that only another task schedules.
Followers == {Follow[k] : k \in {j \in Tasks : Follow[j] # j}}

\* Mutant: notify_one is forgotten.
ScheduleSilently(k, time) ==
  /\ ~stopRequested /\ ~stopWhenEmpty
  /\ k \notin ran \cup taskqueue \cup Followers
  /\ taskqueue' = taskqueue \cup {k}
  /\ at' = [at EXCEPT ![k] = time]
  /\ UNCHANGED <<now, place, cur, nThreads, stopRequested, stopWhenEmpty, notices,
                 noticeAll, interrupted, seen, ran>>

\* schedule() by the program, which does not go on scheduling after stop().
Schedule(k, time) ==
  /\ ~stopRequested /\ ~stopWhenEmpty
  /\ k \notin ran \cup taskqueue \cup Followers
  /\ Insert(k, time)
  /\ notices' = notices + 1
  /\ UNCHANGED <<now, place, cur, nThreads, stopRequested, stopWhenEmpty, noticeAll,
                 interrupted, seen, ran>>

\* stop(drain)
Stop(drain) ==
  /\ ~stopRequested /\ ~stopWhenEmpty
  /\ stopWhenEmpty' = drain
  /\ stopRequested' = ~drain
  /\ noticeAll' = TRUE
  /\ UNCHANGED <<now, taskqueue, at, place, cur, nThreads, notices, interrupted,
                 seen, ran>>

NotifyOne ==
  /\ notices > 0
  /\ notices' = notices - 1
  /\ WakeOne(place)
  /\ UNCHANGED <<now, taskqueue, at, cur, nThreads, stopRequested, stopWhenEmpty,
                 noticeAll, interrupted, seen, ran>>

\* Mutant: stop() wakes one thread only.
NotifyAllOne ==
  /\ noticeAll
  /\ noticeAll' = FALSE
  /\ WakeOne(place)
  /\ UNCHANGED <<now, taskqueue, at, cur, nThreads, stopRequested, stopWhenEmpty,
                 notices, interrupted, seen, ran>>

NotifyAll ==
  /\ noticeAll
  /\ noticeAll' = FALSE
  /\ place' = [t \in Servicers |-> Notified(place[t])]
  /\ UNCHANGED <<now, taskqueue, at, cur, nThreads, stopRequested, stopWhenEmpty,
                 notices, interrupted, seen, ran>>

\* A condition variable may wake a thread without a notification.
SpuriousReturn(t) ==
  /\ t \in Sleepers
  /\ place' = [place EXCEPT ![t] = Notified(@)]
  /\ UNCHANGED <<now, taskqueue, at, cur, nThreads, stopRequested, stopWhenEmpty,
                 notices, noticeAll, interrupted, seen, ran>>

\* threadgroup.interrupt_all() at shutdown.
InterruptAll ==
  /\ ~interrupted
  /\ interrupted' = TRUE
  /\ UNCHANGED <<now, taskqueue, at, place, cur, nThreads, stopRequested,
                 stopWhenEmpty, notices, noticeAll, seen, ran>>

\* Time passes.  Only differences of times matter, so at MaxTime the tasks are
\* moved instead of the clock; no task is left waiting longer than that.
Tick ==
  /\ \/ now < MaxTime /\ now' = now + 1 /\ UNCHANGED at
     \/ /\ now = MaxTime /\ UNCHANGED now
        /\ \A k \in taskqueue : at[k] > 0
        /\ at' = [k \in Tasks |-> IF k \in taskqueue THEN at[k] - 1 ELSE 0]
  /\ UNCHANGED <<taskqueue, place, cur, nThreads, stopRequested, stopWhenEmpty,
                 notices, noticeAll, interrupted, seen, ran>>

SchedulerNext ==
  \/ \E t \in Servicers :
       Service(t) \/ InterruptedWait(t) \/ Throw(t) \/ Unwind(t) \/ SpuriousReturn(t)
  \/ \E k \in Tasks : \E time \in Times[k] : Schedule(k, time)
  \/ \E drain \in BOOLEAN : Stop(drain)
  \/ NotifyOne \/ NotifyAll \/ InterruptAll \/ Tick

SchedulerSpec == SchedulerInit /\ [][SchedulerNext]_schedulerVars

\* Threads that can run do run, tasks return, notifications arrive, an
\* interruption is noticed at the next wait, and time passes.
FairSchedulerSpec ==
  /\ SchedulerSpec
  /\ \A t \in Servicers :
       WF_schedulerVars(Service(t) \/ InterruptedWait(t) \/ Unwind(t))
  /\ WF_schedulerVars(NotifyOne \/ NotifyAll)
  /\ WF_schedulerVars(Tick)

-----------------------------------------------------------------------------
SchedulerTypeOK ==
  /\ now \in Nat
  /\ taskqueue \in SUBSET Tasks
  /\ at \in [Tasks -> Nat]
  /\ place \in [Servicers -> PcStates]
  /\ cur \in [Servicers -> Tasks \cup {NoTask}]
  /\ nThreads \in Int
  /\ stopRequested \in BOOLEAN
  /\ stopWhenEmpty \in BOOLEAN
  /\ notices \in Nat
  /\ noticeAll \in BOOLEAN
  /\ interrupted \in BOOLEAN
  /\ seen \in [Servicers -> Int]
  /\ ran \in SUBSET Tasks

\* scheduler.h stop(): "or when there is no work left to be done (drain=true)":
\* when the last thread has left after a stop(true), every task has been run,
\* the ones that running tasks scheduled after the stop included.
DrainLeavesNothing ==
  /\ stopWhenEmpty
  /\ Started # {}
  /\ \A t \in Started : place[t] = "done"
  => taskqueue = {}

\* The assertion of ~cscheduler(), for every interleaving of threads that start,
\* stop and are interrupted: nthreadsservicingqueue is the number of threads in
\* servicequeue().  Only with several threads, one of them unwinding from a
\* task, the unlocked decrement of the catch block can make it wrong.
CounterExact ==
  \/ Cardinality(Started) > 1 /\ \E t \in Servicers : place[t] \in {"throwing", "unwound"}
  \/ nThreads = Cardinality({t \in Started : place[t] \notin {"new"} \cup Ended})

\* scheduler.h schedule(): "call func at/after time t".  With the one service
\* thread that init.cpp starts no task begins before its time, whatever is
\* scheduled while the thread waits for another task.
NeverEarlyAlone ==
  [][Cardinality(Started) = 1 => \A k \in taskqueue \ taskqueue' : at[k] <= now]_schedulerVars

\* Every scheduled task is taken from the queue and run in the end, and so is every
\* repetition of a task, unless the scheduler is stopped without draining or its
\* threads are interrupted.
TasksRun ==
  \A k \in Tasks :
    k \in taskqueue /\ Started # {} ~> k \notin taskqueue \/ stopRequested \/ interrupted

\* Tasks after which there is always another one, as with scheduleevery(); one of
\* them is queued or run.
Repeating == UNION {S \in SUBSET Tasks : \A k \in S : Follow[k] \in S}
Repeats ==
  \E k \in Repeating : k \in taskqueue \/ \E t \in Servicers : place[t] = "running" /\ cur[t] = k

\* After stop(false) and after interrupt_all() every service thread ends, so that
\* the join_all() of shutdown returns.  After stop(true) the threads end unless a
\* repeating task was scheduled: scheduleevery() never leaves the queue empty.
ThreadsEnd ==
  LET AllEnded == \A t \in Started : place[t] \in Ended
  IN  /\ stopRequested \/ interrupted ~> AllEnded
      /\ stopWhenEmpty ~> AllEnded \/ Repeats
=============================================================================
