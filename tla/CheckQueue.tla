----------------------------- MODULE CheckQueue -----------------------------
(***************************************************************************)
(* The script-check queue of checkqueue.h: one master (the thread inside   *)
(* connectblock, which holds cs_main) adds batches of checks and then      *)
(* joins the worker threads until every check is done.                     *)
(*                                                                         *)
(* The mutex is held from one lock to the next unlock or cond.wait, so one *)
(* action is one such critical section, together with the thread-local     *)
(* work that precedes it.  The queue is a set: the code's LIFO order is    *)
(* one of the choices that Grab allows ("the order of booleans doesn't     *)
(* matter").  fquit is left out: no code ever sets it.                     *)
(***************************************************************************)
EXTENDS Integers, FiniteSets

CONSTANTS
  Workers,    \* threads running ccheckqueue::thread()
  Master,     \* the thread that owns the ccheckqueuecontrol
  Checks,     \* the checks the master may add
  Bad,        \* the checks whose operator() returns false
  BatchSize   \* nbatchsize

ASSUME CheckQueueAssumption ==
  /\ Master \notin Workers
  /\ IsFiniteSet(Workers)
  /\ IsFiniteSet(Checks)
  /\ Bad \subseteq Checks
  /\ BatchSize \in Nat \ {0}

Threads == Workers \cup {Master}

VARIABLES
  pc,       \* where each thread is
  queue,    \* checks not yet taken
  batch,    \* vchecks, the local batch of each thread
  fOk,      \* the local fok of each thread, as read when it took its batch
  nIdle,    \* threads inside cond.wait
  nTotal,   \* threads inside loop()
  nTodo,    \* checks that have not completed
  fAllOk,   \* conjunction of the results so far
  added,    \* history: checks added under the current control object
  ret,      \* what the last wait() returned
  stopped   \* interrupt_all() has reached the master

vars == <<pc, queue, batch, fOk, nIdle, nTotal, nTodo, fAllOk, added, ret,
          stopped>>

(***************************************************************************)
(* A worker is "new" before its first iteration, "waiting" inside          *)
(* cond.wait, "woken" when it has to reacquire the mutex after a wait,     *)
(* "working" with a batch outside the mutex, "dead" when the thread was    *)
(* interrupted inside cond.wait.  The master is "out" when no control      *)
(* object exists, "adding" while connectblock runs, then like a worker;    *)
(* an interruption of its cond.wait unwinds into ~ccheckqueuecontrol,      *)
(* which is about to call wait() again ("unwinding").                      *)
(***************************************************************************)
WorkerStates == {"new", "waiting", "woken", "working", "dead"}
MasterStates == {"out", "adding", "waiting", "woken", "working", "unwinding"}

Init ==
  /\ pc = [t \in Threads |-> IF t = Master THEN "out" ELSE "new"]
  /\ queue = {}
  /\ batch = [t \in Threads |-> {}]
  /\ fOk = [t \in Threads |-> TRUE]
  /\ nIdle = 0
  /\ nTotal = 0
  /\ nTodo = 0
  /\ fAllOk = TRUE
  /\ added = {}
  /\ ret = TRUE
  /\ stopped = FALSE

\* max(1, min(nbatchsize, size / (ntotal + nidle + 1)))
NNow(size, total, idle) ==
  LET share == size \div (total + idle + 1)
  IN  IF share < 1 THEN 1 ELSE IF share > BatchSize THEN BatchSize ELSE share

(***************************************************************************)
(* The rest of a critical section of loop(), from "logically, the do loop  *)
(* starts here": p, total, idle, todo and allok are pc and the counters as *)
(* the first half of the section left them.                                *)
(***************************************************************************)
Grab(t, p, total, idle, todo, allok) ==
  /\ queue # {}
  /\ \E taken \in SUBSET queue :
       /\ Cardinality(taken) = NNow(Cardinality(queue), total, idle)
       /\ queue' = queue \ taken
       /\ batch' = [batch EXCEPT ![t] = taken]
  /\ fOk' = [fOk EXCEPT ![t] = allok]
  /\ pc' = [p EXCEPT ![t] = "working"]
  /\ nTotal' = total
  /\ nIdle' = idle
  /\ nTodo' = todo
  /\ fAllOk' = allok
  /\ UNCHANGED <<added, ret, stopped>>

\* Mutant: fallok is not reset for the next block.
ReturnNoReset(t, p, total, idle, todo, allok) ==
  /\ queue = {}
  /\ t = Master
  /\ todo = 0
  /\ nTotal' = total - 1
  /\ nIdle' = idle
  /\ nTodo' = todo
  /\ ret' = allok
  /\ fAllOk' = allok
  /\ batch' = [batch EXCEPT ![t] = {}]
  /\ pc' = [p EXCEPT ![t] = "out"]
  /\ UNCHANGED <<queue, fOk, added, stopped>>

\* Mutant: the master leaves once the queue is empty, whatever ntodo says.
ReturnEarly(t, p, total, idle, todo, allok) ==
  /\ queue = {}
  /\ t = Master
  /\ nTotal' = total - 1
  /\ nIdle' = idle
  /\ nTodo' = todo
  /\ ret' = allok
  /\ fAllOk' = TRUE
  /\ batch' = [batch EXCEPT ![t] = {}]
  /\ pc' = [p EXCEPT ![t] = "out"]
  /\ UNCHANGED <<queue, fOk, added, stopped>>

Return(t, p, total, idle, todo, allok) ==
  /\ queue = {}
  /\ t = Master
  /\ todo = 0
  /\ nTotal' = total - 1
  /\ nIdle' = idle
  /\ nTodo' = todo
  /\ ret' = allok
  /\ fAllOk' = TRUE
  /\ batch' = [batch EXCEPT ![t] = {}]
  /\ pc' = [p EXCEPT ![t] = "out"]
  /\ UNCHANGED <<queue, fOk, added, stopped>>

Wait(t, p, total, idle, todo, allok) ==
  /\ queue = {}
  /\ t # Master \/ todo # 0
  /\ nIdle' = idle + 1
  /\ nTotal' = total
  /\ nTodo' = todo
  /\ fAllOk' = allok
  /\ batch' = [batch EXCEPT ![t] = {}]
  /\ pc' = [p EXCEPT ![t] = "waiting"]
  /\ UNCHANGED <<queue, fOk, added, ret, stopped>>

LoopTop(t, p, total, idle, todo, allok) ==
  \/ Grab(t, p, total, idle, todo, allok)
  \/ Return(t, p, total, idle, todo, allok)
  \/ Wait(t, p, total, idle, todo, allok)

\* The first iteration: a worker thread starts, or the master calls wait(),
\* itself or through the destructor of its control object.
Enter(t) ==
  /\ pc[t] \in {"new", "adding", "unwinding"}
  /\ LoopTop(t, pc, nTotal + 1, nIdle, nTodo, fAllOk)

\* Mutant: the last worker does not notify condmaster.
NotifyNobody == pc

\* notify_one on condmaster, which only the master waits on.
NotifyMaster == [pc EXCEPT ![Master] = IF @ = "waiting" THEN "woken" ELSE @]

\* Mutant: fallok is assigned fok instead of being combined with it.
FinishOverwrites(t) ==
  /\ pc[t] = "working"
  /\ LET ok   == fOk[t] /\ batch[t] \cap Bad = {}
         todo == nTodo - Cardinality(batch[t])
         p    == IF todo = 0 /\ t # Master THEN NotifyMaster ELSE pc
     IN  LoopTop(t, p, nTotal, nIdle, todo, ok)

\* Run the batch (nothing is run once fok is false), then clean up and go on.
Finish(t) ==
  /\ pc[t] = "working"
  /\ LET ok   == fOk[t] /\ batch[t] \cap Bad = {}
         todo == nTodo - Cardinality(batch[t])
         p    == IF todo = 0 /\ t # Master THEN NotifyMaster ELSE pc
     IN  LoopTop(t, p, nTotal, nIdle, todo, fAllOk /\ ok)

\* cond.wait returns with the mutex held.
Resume(t) ==
  /\ pc[t] = "woken"
  /\ LoopTop(t, pc, nTotal, nIdle - 1, nTodo, fAllOk)

\* Condition variables may wake a thread without a notification.
SpuriousWake(t) ==
  /\ pc[t] = "waiting"
  /\ pc' = [pc EXCEPT ![t] = "woken"]
  /\ UNCHANGED <<queue, batch, fOk, nIdle, nTotal, nTodo, fAllOk, added, ret,
                 stopped>>

\* boost::thread_interrupted leaves loop() from cond.wait at shutdown: no
\* counter is adjusted on the way out.
Interrupt(t) ==
  /\ pc[t] \in {"waiting", "woken"}
  /\ t = Master => ~stopped
  /\ pc' = [pc EXCEPT ![t] = IF t = Master THEN "unwinding" ELSE "dead"]
  /\ stopped' = (stopped \/ t = Master)
  /\ UNCHANGED <<queue, batch, fOk, nIdle, nTotal, nTodo, fAllOk, added, ret>>

\* ccheckqueuecontrol's constructor; its assertion is the property
\* ControlFindsQueueIdle.
Begin ==
  /\ pc[Master] = "out"
  /\ pc' = [pc EXCEPT ![Master] = "adding"]
  /\ added' = {}
  /\ UNCHANGED <<queue, batch, fOk, nIdle, nTotal, nTodo, fAllOk, ret, stopped>>

\* add(): one check wakes one worker, several wake all of them.
Add(new) ==
  /\ pc[Master] = "adding"
  /\ queue' = queue \cup new
  /\ added' = added \cup new
  /\ nTodo' = nTodo + Cardinality(new)
  /\ LET idle == {w \in Workers : pc[w] = "waiting"}
     IN  \/ /\ Cardinality(new) = 1
            /\ idle # {}
            /\ \E w \in idle : pc' = [pc EXCEPT ![w] = "woken"]
         \/ /\ Cardinality(new) = 1
            /\ idle = {}
            /\ pc' = pc
         \/ /\ Cardinality(new) > 1
            /\ pc' = [t \in Threads |-> IF t \in idle THEN "woken" ELSE pc[t]]
  /\ UNCHANGED <<batch, fOk, nIdle, nTotal, fAllOk, ret, stopped>>

Step(t) == Enter(t) \/ Finish(t) \/ Resume(t)

Next ==
  \/ \E t \in Threads : Step(t) \/ SpuriousWake(t) \/ Interrupt(t)
  \/ Begin
  \/ \E new \in SUBSET (Checks \ added) : Add(new)

Spec == Init /\ [][Next]_vars

\* Every runnable thread gets the mutex in the end, and connectblock always
\* reaches control.wait() or the destructor that calls it.
FairSpec == Spec /\ \A t \in Threads : WF_vars(Step(t))

-----------------------------------------------------------------------------
\* Threads are in a state of their role, and no counter of the queue goes below
\* zero, with the counts that interruptions leave behind.
TypeOK ==
  /\ pc \in [Threads -> WorkerStates \cup MasterStates]
  /\ pc[Master] \in MasterStates
  /\ \A w \in Workers : pc[w] \in WorkerStates
  /\ queue \in SUBSET Checks
  /\ batch \in [Threads -> SUBSET Checks]
  /\ fOk \in [Threads -> BOOLEAN]
  /\ nIdle \in Nat
  /\ nTotal \in Nat
  /\ nTodo \in Nat
  /\ fAllOk \in BOOLEAN
  /\ added \in SUBSET Checks
  /\ ret \in BOOLEAN
  /\ stopped \in BOOLEAN

\* checkqueue.h ccheckqueuecontrol(): "passed queue is supposed to be unused":
\* whenever no control object exists, isidle() is true, whatever the workers
\* are doing and however many of them were interrupted.
ControlFindsQueueIdle ==
  pc[Master] = "out" => nTotal = nIdle /\ nTodo = 0 /\ fAllOk

\* checkqueue.h wait(): "wait until execution finishes, and return whether all
\* evaluations were successful": once the master is out again no check is
\* queued or in a worker's batch, and the result is that of all checks added.
WaitIsSound ==
  pc[Master] = "out" =>
    /\ queue = {}
    /\ \A t \in Threads : batch[t] = {}
    /\ ret = (added \cap Bad = {})

\* A failure is never forgotten before the master has collected it: while a
\* control object exists fallok never goes back to true.
FailureSticks ==
  [][~fAllOk /\ fAllOk' => pc'[Master] = "out"]_vars

\* The master never sleeps when nobody is left to wake it: if it waits, some
\* worker still has a batch whose completion will bring ntodo to 0.
MasterWaitsForSomeone ==
  pc[Master] = "waiting" => \E w \in Workers : batch[w] # {}

\* connectblock always gets its answer back, also when workers are
\* interrupted while it runs.
MasterReturns == (pc[Master] = "adding") ~> (pc[Master] = "out")

\* ccheckqueue seen from connectblock: the threads, batches and counters
\* implement a collector that answers for all the checks it was given.
Abstract == INSTANCE CheckResult WITH open <- pc[Master] # "out"
ImplementsCheckResult == Abstract!Spec
=============================================================================
