---------------------------- MODULE ThreadsProof ----------------------------
(***************************************************************************)
(* Proofs about the two components in which threads share work under a     *)
(* mutex of their own: CheckQueue, for any number of workers and checks,   *)
(* and Scheduler, for any number of service threads and tasks.             *)
(*                                                                         *)
(* The inductive invariant of CheckQueue, Inv, ties the counters to what   *)
(* they count.  A critical section of loop() has two halves: the first     *)
(* retires what the thread did before (Enter, Finish, Resume), the second  *)
(* decides what it does next (LoopTop).  Mid is the invariant between the  *)
(* two halves.  ServiceInv is the inductive invariant of Scheduler.        *)
(***************************************************************************)
EXTENDS CheckQueue, Scheduler, FiniteSetTheorems, TLAPS

States == WorkerStates \cup MasterStates

\* The checks that are queued or in the batch of a thread of S.
Held(S) == {c \in Checks : c \in queue \/ \E u \in S : c \in batch[u]}

Busy(p) == {u \in Threads : p[u] = "working"}
Asleep(p) == {u \in Threads : p[u] \in {"waiting", "woken"}}

Roles(p) ==
  /\ p \in [Threads -> States]
  /\ p[Master] \in MasterStates
  /\ \A w \in Workers : p[w] \in WorkerStates

Disjoint ==
  /\ \A u \in Threads : queue \cap batch[u] = {}
  /\ \A u, v \in Threads : u # v => batch[u] \cap batch[v] = {}

\* The answer that the completed checks justify, for the threads of S.
Verdict(S, ok) == ok <=> (added \ Held(S)) \cap Bad = {}

Inv ==
  /\ TypeOK
  /\ Disjoint
  /\ \A u \in Threads : pc[u] = "working" <=> batch[u] # {}
  /\ nTodo = Cardinality(Held(Threads))
  /\ Held(Threads) \subseteq added
  /\ pc[Master] = "out" =>
       Held(Threads) = {} /\ fAllOk /\ (ret <=> added \cap Bad = {})
  /\ pc[Master] # "out" => Verdict(Threads, fAllOk)
  /\ \A u \in Threads : pc[u] = "working" /\ ~fOk[u] => ~fAllOk
  /\ nTotal = nIdle + Cardinality(Busy(pc))
  /\ nIdle >= Cardinality(Asleep(pc))
  /\ pc[Master] = "waiting" => queue = {} /\ nTodo # 0

Mid(t, p, total, idle, todo, allok) ==
  /\ TypeOK
  /\ Disjoint
  /\ Roles(p)
  /\ total \in Nat /\ idle \in Nat /\ todo \in Nat /\ allok \in BOOLEAN
  /\ t = Master => p[Master] # "out"
  /\ \A u \in Threads \ {t} : p[u] = "working" <=> batch[u] # {}
  /\ todo = Cardinality(Held(Threads \ {t}))
  /\ Held(Threads \ {t}) \subseteq added
  /\ p[Master] = "out" =>
       Held(Threads \ {t}) = {} /\ allok /\ (ret <=> added \cap Bad = {})
  /\ p[Master] # "out" => Verdict(Threads \ {t}, allok)
  /\ \A u \in Threads \ {t} : p[u] = "working" /\ ~fOk[u] => ~allok
  /\ total = idle + Cardinality(Busy(p) \ {t}) + 1
  /\ idle >= Cardinality(Asleep(p) \ {t})
  /\ p[Master] = "waiting" /\ t # Master => queue = {} /\ todo # 0

\* Subsets of the checks and of the threads are finite, so that the counters
\* have something to count.
LEMMA Finiteness ==
  /\ IsFiniteSet(Threads)
  /\ \A S : S \subseteq Checks => IsFiniteSet(S) /\ Cardinality(S) \in Nat
  /\ \A S : S \subseteq Threads => IsFiniteSet(S) /\ Cardinality(S) \in Nat
<1>1. IsFiniteSet(Threads)
  BY CheckQueueAssumption, FS_AddElement DEF Threads
<1>2. QED
  BY <1>1, CheckQueueAssumption, FS_Subset, FS_CardinalityType

\* One element more than the set without it.
LEMMA CountAdd ==
  ASSUME NEW S, NEW x, IsFiniteSet(S \ {x})
  PROVE  Cardinality((S \ {x}) \cup {x}) = Cardinality(S \ {x}) + 1
<1> DEFINE R == S \ {x}
<1>1. x \notin R
  OBVIOUS
<1>2. IsFiniteSet(R)
  OBVIOUS
<1> HIDE DEF R
<1>3. Cardinality(R \cup {x}) = Cardinality(R) + 1
  BY <1>1, <1>2, FS_AddElement
<1>4. QED
  BY <1>3 DEF R

\* A set loses as many elements as the part taken out of it has.
LEMMA CountSplit ==
  ASSUME NEW S, IsFiniteSet(S), NEW T, T \subseteq S
  PROVE  /\ Cardinality(S) = Cardinality(S \ T) + Cardinality(T)
         /\ Cardinality(S \ T) \in Nat
         /\ Cardinality(T) \in Nat
<1>1. IsFiniteSet(T) /\ IsFiniteSet(S \ T)
  BY FS_Subset
<1>2. Cardinality((S \ T) \cup T)
        = Cardinality(S \ T) + Cardinality(T) - Cardinality((S \ T) \cap T)
  BY <1>1, FS_Union
<1>3. (S \ T) \cup T = S /\ (S \ T) \cap T = {}
  OBVIOUS
<1>4. Cardinality((S \ T) \cap T) = 0
  BY <1>3, FS_EmptySet
<1>5. Cardinality(S \ T) \in Nat /\ Cardinality(T) \in Nat
  BY <1>1, FS_CardinalityType
<1>6. Cardinality(S) = Cardinality(S \ T) + Cardinality(T) - 0
  BY <1>2, <1>3, <1>4
<1>7. QED
  BY <1>5, <1>6

\* At start-up no thread has registered and nothing is queued: the inductive
\* invariant holds.
LEMMA InitInv == Init => Inv
<1> SUFFICES ASSUME Init PROVE Inv
  OBVIOUS
<1>1. TypeOK
  BY CheckQueueAssumption DEF Init, TypeOK, WorkerStates, MasterStates, Threads
<1>2. Held(Threads) = {} /\ Busy(pc) = {} /\ Asleep(pc) = {}
  BY DEF Init, Held, Busy, Asleep, Threads
<1>3. Cardinality(Held(Threads)) = 0 /\ Cardinality(Busy(pc)) = 0
      /\ Cardinality(Asleep(pc)) = 0
  BY <1>2, FS_EmptySet
<1>4. Master \in Threads /\ pc[Master] = "out"
  BY DEF Init, Threads
<1>5. QED
  BY <1>1, <1>2, <1>3, <1>4 DEF Init, Inv, Disjoint, Threads

\* The second half of a critical section re-establishes the invariant.
LEMMA GrabInv ==
  ASSUME NEW t \in Threads, NEW p, NEW total, NEW idle, NEW todo, NEW allok,
         Mid(t, p, total, idle, todo, allok),
         Grab(t, p, total, idle, todo, allok)
  PROVE  Inv'
<1>1. PICK taken \in SUBSET queue :
        /\ Cardinality(taken) = NNow(Cardinality(queue), total, idle)
        /\ queue' = queue \ taken
        /\ batch' = [batch EXCEPT ![t] = taken]
  BY DEF Grab
<1>2. NNow(Cardinality(queue), total, idle) \in Nat \ {0}
  <2>1. Cardinality(queue) \in Nat /\ total \in Nat /\ idle \in Nat
    BY Finiteness DEF Mid, TypeOK
  <2>2. (Cardinality(queue) \div (total + idle + 1)) \in Int
    BY <2>1
  <2>3. QED
    BY <2>2, CheckQueueAssumption DEF NNow
<1>3. taken # {}
  BY <1>1, <1>2, FS_EmptySet
<1>4. Master \in Threads /\ t \in Threads
  BY DEF Threads
<1>5. TypeOK'
  BY <1>1, <1>4 DEF Mid, Roles, Grab, TypeOK, WorkerStates, MasterStates, States, Threads
<1>6. Disjoint'
  BY <1>1 DEF Mid, Disjoint, TypeOK
<1>7. Held(Threads)' = Held(Threads \ {t})
  BY <1>1 DEF Mid, Held, TypeOK
<1>8. /\ Busy(pc)' = (Busy(p) \ {t}) \cup {t}
      /\ Asleep(pc)' = Asleep(p) \ {t}
  BY DEF Mid, Grab, Busy, Asleep, Roles
<1>9. nTotal' = nIdle' + Cardinality(Busy(pc)') /\ nIdle' >= Cardinality(Asleep(pc)')
  <2>1. IsFiniteSet(Busy(p) \ {t}) /\ Cardinality(Busy(p) \ {t}) \in Nat
    BY Finiteness DEF Busy
  <2>2. Cardinality((Busy(p) \ {t}) \cup {t}) = Cardinality(Busy(p) \ {t}) + 1
    BY <2>1, CountAdd
  <2>3. /\ total = idle + Cardinality(Busy(p) \ {t}) + 1 /\ idle \in Nat
        /\ idle >= Cardinality(Asleep(p) \ {t})
    BY DEF Mid
  <2>4. nTotal' = total /\ nIdle' = idle
    BY DEF Grab
  <2>5. QED
    BY <1>8, <2>1, <2>2, <2>3, <2>4
<1>10. \A u \in Threads : pc'[u] = "working" <=> batch'[u] # {}
  BY <1>1, <1>3 DEF Mid, Grab, Roles, TypeOK
<1>11. pc'[Master] = p[Master] \/ pc'[Master] = "working"
  BY <1>4 DEF Grab, Mid, Roles
<1>12. \A u \in Threads : pc'[u] = "working" /\ ~fOk'[u] => ~fAllOk'
  BY DEF Mid, Grab, Roles, TypeOK
<1>13. pc'[Master] = "out" => t # Master /\ p[Master] = "out"
  BY <1>4 DEF Grab, Mid, Roles
<1>14. pc'[Master] = "waiting" => queue' = {} /\ nTodo' # 0
  BY <1>4, <1>1 DEF Grab, Mid, Roles
<1>15. pc'[Master] # "out" => p[Master] # "out"
  BY <1>4 DEF Grab, Mid, Roles
<1>16. nTodo' = Cardinality(Held(Threads)') /\ Held(Threads)' \subseteq added'
  BY <1>7 DEF Grab, Mid
<1>17. pc'[Master] = "out" =>
         Held(Threads)' = {} /\ fAllOk' /\ (ret' <=> added' \cap Bad = {})
  BY <1>13, <1>7 DEF Grab, Mid
<1>18. pc'[Master] # "out" => Verdict(Threads, fAllOk)'
  BY <1>15, <1>7 DEF Grab, Mid, Verdict
<1>19. QED
  BY <1>5, <1>6, <1>9, <1>10, <1>12, <1>14, <1>16, <1>17, <1>18 DEF Inv

\* When loop() returns to the master (nothing queued, ntodo 0) the counters and
\* the recorded verdict are consistent again and fallok is reset.
LEMMA ReturnInv ==
  ASSUME NEW t \in Threads, NEW p, NEW total, NEW idle, NEW todo, NEW allok,
         Mid(t, p, total, idle, todo, allok),
         Return(t, p, total, idle, todo, allok)
  PROVE  Inv'
<1>1. t = Master /\ queue = {} /\ queue' = {} /\ batch' = [batch EXCEPT ![t] = {}]
      /\ todo = 0 /\ p[Master] # "out"
  BY DEF Return, Mid
<1>2. Held(Threads \ {t}) = {}
  <2>1. Held(Threads \ {t}) \subseteq Checks
    BY DEF Held
  <2>2. QED
    BY <1>1, <2>1, Finiteness, FS_EmptySet DEF Mid
<1>3. Held(Threads)' = {}
  BY <1>1, <1>2 DEF Held, Mid, TypeOK
<1>4. /\ Busy(pc)' = Busy(p) \ {t}
      /\ Asleep(pc)' = Asleep(p) \ {t}
  BY DEF Mid, Return, Busy, Asleep, Roles
<1>5. /\ nTotal' = nIdle' + Cardinality(Busy(pc)')
      /\ nIdle' >= Cardinality(Asleep(pc)')
      /\ nTotal' \in Nat
  <2>1. Cardinality(Busy(p) \ {t}) \in Nat
    BY Finiteness DEF Busy
  <2>2. /\ total = idle + Cardinality(Busy(p) \ {t}) + 1 /\ idle \in Nat
        /\ idle >= Cardinality(Asleep(p) \ {t})
    BY DEF Mid
  <2>3. nTotal' = total - 1 /\ nIdle' = idle
    BY DEF Return
  <2>4. QED
    BY <2>1, <2>2, <2>3, <1>4
<1>6. TypeOK' /\ Disjoint'
  <2>1. Roles(pc)'
    BY <1>1, CheckQueueAssumption
       DEF Mid, Roles, Return, WorkerStates, MasterStates, States, Threads
  <2>2. TypeOK'
    BY <1>1, <1>5, <2>1 DEF Mid, Return, TypeOK, Roles, States
  <2>3. Disjoint'
    BY <1>1 DEF Mid, TypeOK, Disjoint
  <2>4. QED
    BY <2>2, <2>3
<1>7. \A u \in Threads : pc'[u] = "working" <=> batch'[u] # {}
  BY <1>1 DEF Mid, Return, Roles, TypeOK
<1>8. ret' <=> added' \cap Bad = {}
  BY <1>1, <1>2 DEF Mid, Return, Verdict
<1>9. pc'[Master] = "out" /\ fAllOk' /\ nTodo' = 0
  BY <1>1 DEF Return, Mid, Roles, Threads
<1>10. Cardinality(Held(Threads)') = 0
  BY <1>3, FS_EmptySet
<1>11. \A u \in Threads : batch'[u] = {}
  BY <1>3, <1>6 DEF Held, TypeOK
<1>12. QED
  BY <1>3, <1>5, <1>6, <1>7, <1>8, <1>9, <1>10, <1>11 DEF Inv

\* When a thread goes to sleep in cond.wait, nidle counts it and, if it is the
\* master, somebody else still holds a batch.
LEMMA WaitInv ==
  ASSUME NEW t \in Threads, NEW p, NEW total, NEW idle, NEW todo, NEW allok,
         Mid(t, p, total, idle, todo, allok),
         Wait(t, p, total, idle, todo, allok)
  PROVE  Inv'
<1>1. queue = {} /\ queue' = {} /\ batch' = [batch EXCEPT ![t] = {}]
  BY DEF Wait
<1>2. Master \in Threads
  BY DEF Threads
<1>3. TypeOK' /\ Disjoint'
  BY <1>1 DEF Mid, Roles, Wait, TypeOK, Disjoint, WorkerStates, MasterStates, States, Threads
<1>4. Held(Threads)' = Held(Threads \ {t})
  BY <1>1 DEF Held, Mid, TypeOK
<1>5. /\ Busy(pc)' = Busy(p) \ {t}
      /\ Asleep(pc)' = (Asleep(p) \ {t}) \cup {t}
  BY DEF Mid, Wait, Busy, Asleep, Roles
<1>6. nTotal' = nIdle' + Cardinality(Busy(pc)') /\ nIdle' >= Cardinality(Asleep(pc)')
  <2>1. /\ Cardinality(Busy(p) \ {t}) \in Nat
        /\ IsFiniteSet(Asleep(p) \ {t}) /\ Cardinality(Asleep(p) \ {t}) \in Nat
    BY Finiteness DEF Busy, Asleep
  <2>2. Cardinality((Asleep(p) \ {t}) \cup {t}) = Cardinality(Asleep(p) \ {t}) + 1
    BY <2>1, CountAdd
  <2>3. /\ total = idle + Cardinality(Busy(p) \ {t}) + 1 /\ idle \in Nat
        /\ idle >= Cardinality(Asleep(p) \ {t})
    BY DEF Mid
  <2>4. nTotal' = total /\ nIdle' = idle + 1
    BY DEF Wait
  <2>5. QED
    BY <1>5, <2>1, <2>2, <2>3, <2>4
<1>7. \A u \in Threads : pc'[u] = "working" <=> batch'[u] # {}
  BY <1>1 DEF Mid, Wait, Roles, TypeOK
<1>8. \A u \in Threads : pc'[u] = "working" /\ ~fOk'[u] => ~fAllOk'
  BY DEF Mid, Wait, Roles, TypeOK
<1>9. pc'[Master] = "waiting" => queue' = {} /\ nTodo' # 0
  BY <1>2, <1>1 DEF Wait, Mid, Roles
<1>10. /\ pc'[Master] = "out" => p[Master] = "out"
       /\ pc'[Master] # "out" => p[Master] # "out"
  BY <1>2 DEF Wait, Mid, Roles
<1>11. nTodo' = Cardinality(Held(Threads)') /\ Held(Threads)' \subseteq added'
  BY <1>4 DEF Wait, Mid
<1>12. pc'[Master] = "out" =>
         Held(Threads)' = {} /\ fAllOk' /\ (ret' <=> added' \cap Bad = {})
  BY <1>10, <1>4 DEF Wait, Mid
<1>13. pc'[Master] # "out" => Verdict(Threads, fAllOk)'
  BY <1>10, <1>4 DEF Wait, Mid, Verdict
<1>14. QED
  BY <1>3, <1>6, <1>7, <1>8, <1>9, <1>11, <1>12, <1>13 DEF Inv

\* The second half of a critical section of loop(), whichever way it ends, leads
\* from Mid back to the invariant.
LEMMA LoopTopInv ==
  ASSUME NEW t \in Threads, NEW p, NEW total, NEW idle, NEW todo, NEW allok,
         Mid(t, p, total, idle, todo, allok),
         LoopTop(t, p, total, idle, todo, allok)
  PROVE  Inv'
BY GrabInv, ReturnInv, WaitInv DEF LoopTop

\* The first half of a critical section leads from Inv to Mid.
LEMMA EnterMid ==
  ASSUME NEW t \in Threads, Inv, pc[t] \in {"new", "adding", "unwinding"}
  PROVE  Mid(t, pc, nTotal + 1, nIdle, nTodo, fAllOk)
<1>1. Master \in Threads
  BY DEF Threads
<1>2. batch[t] = {} /\ (t = Master => pc[Master] # "out")
  BY DEF Inv
<1>3. Held(Threads \ {t}) = Held(Threads)
  BY <1>2 DEF Held
<1>4. Busy(pc) \ {t} = Busy(pc) /\ Asleep(pc) \ {t} = Asleep(pc)
  BY DEF Busy, Asleep
<1>5. nTotal + 1 = nIdle + Cardinality(Busy(pc) \ {t}) + 1
  <2>1. Cardinality(Busy(pc)) \in Nat
    BY Finiteness DEF Busy
  <2>2. QED
    BY <1>4, <2>1 DEF Inv, TypeOK
<1>6. Roles(pc) /\ nTotal + 1 \in Nat
  BY DEF Inv, TypeOK, Roles, States
<1>7. QED
  BY <1>1, <1>2, <1>3, <1>4, <1>5, <1>6 DEF Inv, Mid, Verdict, TypeOK

\* A thread that comes back from cond.wait and lowers nidle is in the middle of a
\* critical section.
LEMMA ResumeMid ==
  ASSUME NEW t \in Threads, Inv, pc[t] = "woken"
  PROVE  Mid(t, pc, nTotal, nIdle - 1, nTodo, fAllOk)
<1>1. Master \in Threads
  BY DEF Threads
<1>2. batch[t] = {} /\ (t = Master => pc[Master] # "out")
  BY DEF Inv
<1>3. Held(Threads \ {t}) = Held(Threads)
  BY <1>2 DEF Held
<1>4. Busy(pc) \ {t} = Busy(pc) /\ Asleep(pc) = (Asleep(pc) \ {t}) \cup {t}
  BY DEF Busy, Asleep
<1>5. /\ nTotal = (nIdle - 1) + Cardinality(Busy(pc) \ {t}) + 1
      /\ nIdle - 1 >= Cardinality(Asleep(pc) \ {t})
      /\ nIdle - 1 \in Nat
  <2>1. /\ Cardinality(Busy(pc)) \in Nat
        /\ IsFiniteSet(Asleep(pc) \ {t}) /\ Cardinality(Asleep(pc) \ {t}) \in Nat
    BY Finiteness DEF Busy, Asleep
  <2>2. Cardinality((Asleep(pc) \ {t}) \cup {t}) = Cardinality(Asleep(pc) \ {t}) + 1
    BY <2>1, CountAdd
  <2>3. /\ nTotal = nIdle + Cardinality(Busy(pc))
        /\ nIdle >= Cardinality(Asleep(pc)) /\ nIdle \in Nat
    BY DEF Inv, TypeOK
  <2>4. Cardinality(Asleep(pc)) = Cardinality(Asleep(pc) \ {t}) + 1
    BY <1>4, <2>2, Zenon
  <2>5. Cardinality(Busy(pc) \ {t}) = Cardinality(Busy(pc))
    BY <1>4, Zenon
  <2>6. QED
    BY <2>1, <2>3, <2>4, <2>5
<1>6. Roles(pc)
  BY DEF Inv, TypeOK, Roles, States
<1>7. QED
  BY <1>1, <1>2, <1>3, <1>4, <1>5, <1>6 DEF Inv, Mid, Verdict, TypeOK

\* A thread that takes the lock again after its batch, lowers ntodo, merges its
\* verdict and wakes the master at 0 is in the middle of a critical section.
LEMMA FinishMid ==
  ASSUME NEW t \in Threads, Inv, pc[t] = "working",
         NEW ok, ok = (fOk[t] /\ batch[t] \cap Bad = {}),
         NEW todo, todo = nTodo - Cardinality(batch[t]),
         NEW p, p = IF todo = 0 /\ t # Master THEN NotifyMaster ELSE pc
  PROVE  Mid(t, p, nTotal, nIdle, todo, fAllOk /\ ok)
<1>1. Master \in Threads /\ batch[t] # {} /\ batch[t] \subseteq Checks
  BY DEF Threads, Inv, TypeOK
<1>2. Held(Threads \ {t}) = Held(Threads) \ batch[t] /\ batch[t] \subseteq Held(Threads)
  BY <1>1 DEF Held, Inv, Disjoint, TypeOK
<1>3. todo = Cardinality(Held(Threads \ {t})) /\ todo \in Nat
  <2>1. IsFiniteSet(Held(Threads))
    BY Finiteness DEF Held
  <2>2. nTodo = Cardinality(Held(Threads) \ batch[t]) + Cardinality(batch[t])
    BY <2>1, <1>2, CountSplit DEF Inv
  <2>3. Cardinality(Held(Threads) \ batch[t]) \in Nat /\ Cardinality(batch[t]) \in Nat
    BY <2>1, <1>2, CountSplit
  <2>4. Cardinality(Held(Threads \ {t})) = Cardinality(Held(Threads) \ batch[t])
    BY <1>2, Zenon
  <2>5. QED
    BY <2>2, <2>3, <2>4
<1>4. pc[Master] # "out"
  BY <1>1, <1>2 DEF Inv
<1>5. /\ Roles(pc)
      /\ pc \in [Threads -> States]
  BY DEF Inv, TypeOK, Roles, States
<1>6. /\ \A u \in Threads : u # Master => p[u] = pc[u]
      /\ p[Master] = IF todo = 0 /\ t # Master /\ pc[Master] = "waiting"
                     THEN "woken" ELSE pc[Master]
      /\ p \in [Threads -> States]
  BY <1>1, <1>5 DEF NotifyMaster, States, WorkerStates
<1>7. Roles(p)
  BY <1>5, <1>6, CheckQueueAssumption DEF Roles, MasterStates, Threads
<1>8. Busy(p) = Busy(pc) /\ Asleep(p) = Asleep(pc) /\ t \in Busy(pc) /\ t \notin Asleep(pc)
  BY <1>6 DEF Busy, Asleep
<1>9. /\ nTotal = nIdle + Cardinality(Busy(p) \ {t}) + 1
      /\ nIdle >= Cardinality(Asleep(p) \ {t})
  <2>1. IsFiniteSet(Busy(pc) \ {t}) /\ Cardinality(Busy(pc) \ {t}) \in Nat
    BY Finiteness DEF Busy
  <2>2. Cardinality((Busy(pc) \ {t}) \cup {t}) = Cardinality(Busy(pc) \ {t}) + 1
    BY <2>1, CountAdd
  <2>3. (Busy(pc) \ {t}) \cup {t} = Busy(pc) /\ Asleep(p) \ {t} = Asleep(pc)
    BY <1>8
  <2>4. /\ nTotal = nIdle + Cardinality(Busy(pc))
        /\ nIdle >= Cardinality(Asleep(pc)) /\ nIdle \in Nat
    BY DEF Inv, TypeOK
  <2>5. /\ Cardinality(Busy(pc)) = Cardinality(Busy(pc) \ {t}) + 1
        /\ Cardinality(Busy(p) \ {t}) = Cardinality(Busy(pc) \ {t})
        /\ Cardinality(Asleep(p) \ {t}) = Cardinality(Asleep(pc))
    BY <1>8, <2>2, <2>3, Zenon
  <2>6. QED
    BY <2>1, <2>4, <2>5
<1>10. Held(Threads \ {t}) \subseteq added /\ batch[t] \subseteq added
  BY <1>2 DEF Inv
<1>11. Verdict(Threads \ {t}, fAllOk /\ ok)
  <2>1. added \ Held(Threads \ {t}) = (added \ Held(Threads)) \cup batch[t]
    BY <1>2, <1>10
  <2>2. ~fOk[t] => ~fAllOk
    BY DEF Inv
  <2>3. fAllOk <=> (added \ Held(Threads)) \cap Bad = {}
    BY <1>4 DEF Inv, Verdict
  <2>4. QED
    BY <2>1, <2>2, <2>3 DEF Verdict
<1>12. \A u \in Threads \ {t} : p[u] = "working" <=> batch[u] # {}
  BY <1>1, <1>6 DEF Inv
<1>13. \A u \in Threads \ {t} : p[u] = "working" /\ ~fOk[u] => ~(fAllOk /\ ok)
  BY <1>1, <1>6 DEF Inv
<1>14. p[Master] = "waiting" /\ t # Master => queue = {} /\ todo # 0
  BY <1>1, <1>6 DEF Inv
<1>15. p[Master] # "out" /\ (fAllOk /\ ok) \in BOOLEAN
  BY <1>4, <1>6
<1>16. TypeOK /\ Disjoint /\ nTotal \in Nat /\ nIdle \in Nat
  BY DEF Inv, TypeOK
<1>17. QED
  BY <1>3, <1>7, <1>9, <1>10, <1>11, <1>12, <1>13, <1>14, <1>15, <1>16 DEF Mid

\* Every action preserves the invariant.
LEMMA NextInv == Inv /\ [Next]_vars => Inv'
<1> SUFFICES ASSUME Inv, [Next]_vars PROVE Inv'
  OBVIOUS
<1> Master \in Threads
  BY DEF Threads
<1>1. ASSUME NEW t \in Threads, Enter(t) PROVE Inv'
  BY <1>1, EnterMid, LoopTopInv DEF Enter
<1>2. ASSUME NEW t \in Threads, Finish(t) PROVE Inv'
  <2> DEFINE ok   == fOk[t] /\ batch[t] \cap Bad = {}
             todo == nTodo - Cardinality(batch[t])
             p    == IF todo = 0 /\ t # Master THEN NotifyMaster ELSE pc
  <2>1. pc[t] = "working" /\ LoopTop(t, p, nTotal, nIdle, todo, fAllOk /\ ok)
    BY <1>2 DEF Finish
  <2>2. ok = (fOk[t] /\ batch[t] \cap Bad = {})
    OBVIOUS
  <2>3. todo = nTodo - Cardinality(batch[t])
    OBVIOUS
  <2>4. p = IF todo = 0 /\ t # Master THEN NotifyMaster ELSE pc
    OBVIOUS
  <2> HIDE DEF ok, todo, p
  <2>5. Mid(t, p, nTotal, nIdle, todo, fAllOk /\ ok)
    BY <2>1, <2>2, <2>3, <2>4, FinishMid
  <2>6. QED
    BY <2>1, <2>5, LoopTopInv
<1>3. ASSUME NEW t \in Threads, Resume(t) PROVE Inv'
  BY <1>3, ResumeMid, LoopTopInv DEF Resume
<1>4. ASSUME NEW t \in Threads, SpuriousWake(t) PROVE Inv'
  <2>1. TypeOK'
    BY <1>4, CheckQueueAssumption
       DEF Inv, TypeOK, SpuriousWake, WorkerStates, MasterStates, Threads
  <2>2. Busy(pc)' = Busy(pc) /\ Asleep(pc)' = Asleep(pc)
    BY <1>4 DEF Inv, TypeOK, SpuriousWake, Busy, Asleep
  <2>3. Held(Threads)' = Held(Threads) /\ Disjoint'
    BY <1>4 DEF Inv, SpuriousWake, Held, Disjoint
  <2>4. /\ \A u \in Threads : pc'[u] = "working" <=> pc[u] = "working"
        /\ pc'[Master] = "out" <=> pc[Master] = "out"
        /\ pc'[Master] = "waiting" => pc[Master] = "waiting"
    BY <1>4 DEF Inv, TypeOK, SpuriousWake
  <2>5. QED
    BY <1>4, <2>1, <2>2, <2>3, <2>4 DEF Inv, SpuriousWake, Verdict
<1>5. ASSUME NEW t \in Threads, Interrupt(t) PROVE Inv'
  <2>1. TypeOK'
    BY <1>5, CheckQueueAssumption
       DEF Inv, TypeOK, Interrupt, WorkerStates, MasterStates, Threads
  <2>2. Busy(pc)' = Busy(pc) /\ Asleep(pc)' \subseteq Asleep(pc)
    BY <1>5 DEF Inv, TypeOK, Interrupt, Busy, Asleep
  <2>3. nIdle' >= Cardinality(Asleep(pc)') /\ nTotal' = nIdle' + Cardinality(Busy(pc)')
    <3>1. IsFiniteSet(Asleep(pc)) /\ Cardinality(Asleep(pc)) \in Nat
      BY Finiteness DEF Asleep
    <3>2. Cardinality(Asleep(pc)') <= Cardinality(Asleep(pc)) /\ Cardinality(Asleep(pc)') \in Nat
      BY <2>2, <3>1, FS_Subset, FS_CardinalityType
    <3>3. Cardinality(Busy(pc)') = Cardinality(Busy(pc))
      BY <2>2, Zenon
    <3>4. nIdle >= Cardinality(Asleep(pc)) /\ nIdle \in Nat /\ nIdle' = nIdle
          /\ nTotal' = nTotal /\ nTotal = nIdle + Cardinality(Busy(pc))
      BY <1>5 DEF Inv, TypeOK, Interrupt
    <3>5. QED
      BY <3>1, <3>2, <3>3, <3>4
  <2>4. Held(Threads)' = Held(Threads) /\ Disjoint'
    BY <1>5 DEF Inv, Interrupt, Held, Disjoint
  <2>5. /\ \A u \in Threads : pc'[u] = "working" <=> pc[u] = "working"
        /\ pc'[Master] = "out" <=> pc[Master] = "out"
        /\ pc'[Master] = "waiting" => pc[Master] = "waiting"
    BY <1>5 DEF Inv, TypeOK, Interrupt
  <2>6. QED
    BY <1>5, <2>1, <2>3, <2>4, <2>5 DEF Inv, Interrupt, Verdict
<1>6. ASSUME Begin PROVE Inv'
  <2>1. TypeOK'
    BY <1>6, CheckQueueAssumption
       DEF Inv, TypeOK, Begin, WorkerStates, MasterStates, Threads
  <2>2. Busy(pc)' = Busy(pc) /\ Asleep(pc)' = Asleep(pc)
    BY <1>6 DEF Inv, TypeOK, Begin, Busy, Asleep
  <2>3. Held(Threads)' = Held(Threads) /\ Disjoint' /\ Held(Threads) = {}
    BY <1>6 DEF Inv, Begin, Held, Disjoint
  <2>4. /\ \A u \in Threads : pc'[u] = "working" <=> pc[u] = "working"
        /\ pc'[Master] = "adding"
    BY <1>6 DEF Inv, TypeOK, Begin
  <2>5. added' = {} /\ fAllOk' /\ fAllOk
    BY <1>6 DEF Begin, Inv
  <2>6. Verdict(Threads, fAllOk)'
    BY <2>5 DEF Verdict
  <2>7. QED
    BY <1>6, <2>1, <2>2, <2>3, <2>4, <2>5, <2>6 DEF Inv, Begin
<1>7. ASSUME NEW new \in SUBSET (Checks \ added), Add(new) PROVE Inv'
  <2>1. /\ \A u \in Threads : \/ pc'[u] = pc[u]
                              \/ u # Master /\ pc[u] = "waiting" /\ pc'[u] = "woken"
        /\ pc' \in [Threads -> States]
        /\ pc'[Master] = "adding" /\ pc[Master] = "adding"
    BY <1>7, CheckQueueAssumption
       DEF Add, Inv, TypeOK, Threads, States, WorkerStates
  <2>2. IsFiniteSet(new) /\ Cardinality(new) \in Nat
    BY Finiteness
  <2>3. TypeOK'
    BY <1>7, <2>1, <2>2, CheckQueueAssumption
       DEF Inv, TypeOK, Add, Threads, States, WorkerStates, MasterStates
  <2>4. Busy(pc)' = Busy(pc) /\ Asleep(pc)' = Asleep(pc)
    BY <2>1 DEF Busy, Asleep
  <2>5. /\ Held(Threads)' = Held(Threads) \cup new
        /\ Held(Threads)' \ new = Held(Threads)
        /\ Disjoint'
    BY <1>7 DEF Inv, Add, Held, Disjoint, TypeOK
  <2>6. nTodo' = Cardinality(Held(Threads)')
    <3>1. IsFiniteSet(Held(Threads)') /\ new \subseteq Held(Threads)'
      BY <2>5, Finiteness DEF Held
    <3>2. Cardinality(Held(Threads)')
            = Cardinality(Held(Threads)' \ new) + Cardinality(new)
      BY <3>1, CountSplit
    <3>3. Cardinality(Held(Threads)' \ new) = Cardinality(Held(Threads))
      BY <2>5, Zenon
    <3>4. QED
      BY <1>7, <3>2, <3>3 DEF Inv, Add
  <2>7. \A u \in Threads : pc'[u] = "working" <=> batch'[u] # {}
    BY <1>7, <2>1 DEF Inv, Add
  <2>8. \A u \in Threads : pc'[u] = "working" /\ ~fOk'[u] => ~fAllOk'
    BY <1>7, <2>1 DEF Inv, Add
  <2>9. Verdict(Threads, fAllOk)'
    <3>1. added' \ Held(Threads)' = added \ Held(Threads)
      BY <1>7, <2>5 DEF Add
    <3>2. QED
      BY <1>7, <3>1, <2>1 DEF Inv, Verdict, Add
  <2>10. Held(Threads)' \subseteq added'
    BY <1>7, <2>5 DEF Inv, Add
  <2>11. nTotal' = nIdle' + Cardinality(Busy(pc)') /\ nIdle' >= Cardinality(Asleep(pc)')
    BY <1>7, <2>4 DEF Inv, Add
  <2>12. QED
    BY <2>1, <2>3, <2>5, <2>6, <2>7, <2>8, <2>9, <2>10, <2>11 DEF Inv
<1>8. CASE UNCHANGED vars
  BY <1>8 DEF vars, Inv, TypeOK, Disjoint, Held, Busy, Asleep, Verdict
<1>9. QED
  BY <1>1, <1>2, <1>3, <1>4, <1>5, <1>6, <1>7, <1>8 DEF Next, Step

\* The inductive invariant holds in every reachable state of the queue: the
\* result all the theorems below are read off from.
THEOREM Invariance == Spec => []Inv
BY InitInv, NextInv, PTL DEF Spec

\* The counters and thread states of ccheckqueue stay in their types: nidle,
\* ntotal and ntodo never go below zero (ntodo is unsigned in the code).
THEOREM TypeCorrect == Spec => []TypeOK
<1>1. Inv => TypeOK
  BY DEF Inv
<1>2. QED
  BY <1>1, Invariance, PTL

\* The assertion of ccheckqueuecontrol's constructor cannot fail, for any
\* number of workers and any number of them interrupted.
THEOREM QueueIdleAtControl == Spec => []ControlFindsQueueIdle
<1>1. Inv => ControlFindsQueueIdle
  <2> SUFFICES ASSUME Inv, pc[Master] = "out"
               PROVE  nTotal = nIdle /\ nTodo = 0 /\ fAllOk
    BY DEF ControlFindsQueueIdle
  <2>1. Held(Threads) = {} /\ fAllOk
    BY DEF Inv
  <2>2. Busy(pc) = {}
    BY <2>1 DEF Inv, Busy, Held, TypeOK
  <2>3. Cardinality(Busy(pc)) = 0 /\ Cardinality(Held(Threads)) = 0
    BY <2>1, <2>2, FS_EmptySet
  <2>4. nTotal = nIdle + Cardinality(Busy(pc)) /\ nIdle \in Nat
        /\ nTodo = Cardinality(Held(Threads))
    BY DEF Inv, TypeOK
  <2>5. QED
    BY <2>1, <2>3, <2>4
<1>2. QED
  BY <1>1, Invariance, PTL

\* wait() returns only when every check has run, and its result is the
\* conjunction of all of them.
THEOREM WaitSound == Spec => []WaitIsSound
<1>1. Inv => WaitIsSound
  BY DEF Inv, WaitIsSound, Held, TypeOK
<1>2. QED
  BY <1>1, Invariance, PTL

\* The master sleeps on condmaster only while a worker holds a batch, so the
\* notification in loop() is still to come.
THEOREM NoLostMasterWakeup == Spec => []MasterWaitsForSomeone
<1>1. Inv => MasterWaitsForSomeone
  <2> SUFFICES ASSUME Inv, pc[Master] = "waiting"
               PROVE  \E w \in Workers : batch[w] # {}
    BY DEF MasterWaitsForSomeone
  <2>1. queue = {} /\ Cardinality(Held(Threads)) # 0
    BY DEF Inv
  <2>2. PICK c \in Held(Threads) : TRUE
    BY <2>1, FS_EmptySet
  <2>3. PICK u \in Threads : c \in batch[u]
    BY <2>1, <2>2 DEF Held
  <2>4. u # Master
    BY <2>3 DEF Inv
  <2>5. QED
    BY <2>3, <2>4 DEF Threads
<1>2. QED
  BY <1>1, Invariance, PTL

\* While a control object exists, fallok never goes from false to true.
THEOREM FailureIsNeverForgotten == Spec => FailureSticks
<1>1. Inv /\ [Next]_vars => [~fAllOk /\ fAllOk' => pc'[Master] = "out"]_vars
  <2> SUFFICES ASSUME Inv, Next, ~fAllOk, fAllOk' PROVE pc'[Master] = "out"
    OBVIOUS
  <2> Master \in Threads
    BY DEF Threads
  <2>1. ASSUME NEW t \in Threads, NEW p, NEW total, NEW idle, NEW todo,
               NEW allok, ~allok, p \in [Threads -> States],
               LoopTop(t, p, total, idle, todo, allok)
        PROVE  pc'[Master] = "out"
    BY <2>1 DEF LoopTop, Grab, Return, Wait
  <2>2. pc \in [Threads -> States] /\ NotifyMaster \in [Threads -> States]
    BY DEF Inv, TypeOK, States, NotifyMaster, WorkerStates
  <2>3. ASSUME NEW t \in Threads, Enter(t) PROVE pc'[Master] = "out"
    BY <2>1, <2>2, <2>3 DEF Enter
  <2>4. ASSUME NEW t \in Threads, Resume(t) PROVE pc'[Master] = "out"
    BY <2>1, <2>2, <2>4 DEF Resume
  <2>5. ASSUME NEW t \in Threads, Finish(t) PROVE pc'[Master] = "out"
    BY <2>1, <2>2, <2>5 DEF Finish
  <2>6. QED
    BY <2>3, <2>4, <2>5 DEF Next, Step, SpuriousWake, Interrupt, Begin, Add
<1>2. QED
  BY <1>1, Invariance, PTL DEF Spec, FailureSticks

\* The queue, its threads and its counters implement CheckResult.
THEOREM Refinement == Spec => ImplementsCheckResult
<1>1. Init => Abstract!Init
  BY DEF Init, Abstract!Init, Threads
<1>2. Inv /\ Inv' /\ [Next]_vars => [Abstract!Next]_(Abstract!vars)
  <2> SUFFICES ASSUME Inv, Inv', [Next]_vars
               PROVE  Abstract!Next \/ UNCHANGED Abstract!vars
    OBVIOUS
  <2> USE DEF Abstract!vars
  <2> Master \in Threads
    BY DEF Threads
  <2>1. ASSUME NEW t \in Threads, NEW p, NEW total, NEW idle, NEW todo, NEW allok,
               Mid(t, p, total, idle, todo, allok),
               pc[Master] = "out" <=> p[Master] = "out",
               LoopTop(t, p, total, idle, todo, allok)
        PROVE  Abstract!Next \/ UNCHANGED Abstract!vars
    <3>1. CASE Return(t, p, total, idle, todo, allok)
      <4>1. pc[Master] # "out" /\ pc'[Master] = "out" /\ added' = added
        BY <2>1, <3>1 DEF Return, Mid, Roles
      <4>2. ret' = (added \cap Bad = {})
        BY <4>1 DEF Inv, TypeOK
      <4>3. QED
        BY <4>1, <4>2 DEF Abstract!Next, Abstract!Finish
    <3>2. CASE Grab(t, p, total, idle, todo, allok)
               \/ Wait(t, p, total, idle, todo, allok)
      <4>1. pc'[Master] = "out" <=> p[Master] = "out"
        BY <2>1, <3>2 DEF Grab, Wait, Mid, Roles
      <4>2. added' = added /\ ret' = ret
        BY <3>2 DEF Grab, Wait
      <4>3. QED
        BY <2>1, <4>1, <4>2
    <3>3. QED
      BY <2>1, <3>1, <3>2 DEF LoopTop
  <2>2. ASSUME NEW t \in Threads, Enter(t)
        PROVE  Abstract!Next \/ UNCHANGED Abstract!vars
    BY <2>1, <2>2, EnterMid DEF Enter
  <2>3. ASSUME NEW t \in Threads, Resume(t)
        PROVE  Abstract!Next \/ UNCHANGED Abstract!vars
    BY <2>1, <2>3, ResumeMid DEF Resume
  <2>4. ASSUME NEW t \in Threads, Finish(t)
        PROVE  Abstract!Next \/ UNCHANGED Abstract!vars
    <3> DEFINE ok   == fOk[t] /\ batch[t] \cap Bad = {}
               todo == nTodo - Cardinality(batch[t])
               p    == IF todo = 0 /\ t # Master THEN NotifyMaster ELSE pc
    <3>1. pc[t] = "working" /\ LoopTop(t, p, nTotal, nIdle, todo, fAllOk /\ ok)
      BY <2>4 DEF Finish
    <3>2. ok = (fOk[t] /\ batch[t] \cap Bad = {})
      OBVIOUS
    <3>3. todo = nTodo - Cardinality(batch[t])
      OBVIOUS
    <3>4. p = IF todo = 0 /\ t # Master THEN NotifyMaster ELSE pc
      OBVIOUS
    <3>5. pc[Master] = "out" <=> p[Master] = "out"
      BY DEF NotifyMaster, Inv, TypeOK
    <3> HIDE DEF ok, todo, p
    <3>6. Mid(t, p, nTotal, nIdle, todo, fAllOk /\ ok)
      BY <3>1, <3>2, <3>3, <3>4, FinishMid
    <3>7. QED
      BY <2>1, <3>1, <3>5, <3>6
  <2>5. ASSUME NEW t \in Threads, SpuriousWake(t) \/ Interrupt(t)
        PROVE  UNCHANGED Abstract!vars
    BY <2>5 DEF SpuriousWake, Interrupt, Inv, TypeOK
  <2>6. CASE Begin
    BY <2>6 DEF Begin, Abstract!Next, Abstract!Begin, Inv, TypeOK
  <2>7. ASSUME NEW new \in SUBSET (Checks \ added), Add(new) PROVE Abstract!Next
    <3>1. pc[Master] = "adding" /\ pc'[Master] = "adding"
      BY <2>7, CheckQueueAssumption DEF Add, Inv, TypeOK
    <3>2. QED
      BY <2>7, <3>1 DEF Add, Abstract!Next, Abstract!Add
  <2>8. CASE UNCHANGED vars
    BY <2>8 DEF vars
  <2>9. QED
    BY <2>2, <2>3, <2>4, <2>5, <2>6, <2>7, <2>8 DEF Next, Step
<1>3. QED
  BY <1>1, <1>2, Invariance, PTL DEF Spec, Abstract!Spec, ImplementsCheckResult

-----------------------------------------------------------------------------
(***************************************************************************)
(* The task scheduler: servicequeue() in any number of threads.            *)
(***************************************************************************)
\* A thread that runs has a task in hand, and a thread is done only after a stop(),
\* which is one of two kinds.
HandInv ==
  /\ \A t \in Servicers : place[t] = "running" => cur[t] \in Tasks
  /\ ~(stopRequested /\ stopWhenEmpty)
  /\ \A t \in Servicers : place[t] = "done" => stopRequested \/ stopWhenEmpty

\* There is at most one service thread.
Alone == \A t, u \in Started : t = u

\* The task for whose time a lone thread waits stays in the queue.
AloneInv ==
  Alone => \A t \in Servicers : place[t] \in {"timed", "timedwoken"} => cur[t] \in taskqueue

\* The threads in servicequeue(), and the counter: as long as no thread decremented
\* it without the mutex it is right, and a lone thread does no harm.
Inside == {t \in Servicers : place[t] \notin {"off", "new"} \cup Ended}
Unwinding == \E t \in Servicers : place[t] \in {"throwing", "unwound"}
CountInv ==
  /\ ~Unwinding \/ Alone => nThreads = Cardinality(Inside)
  /\ Alone => \A t \in Servicers : place[t] = "throwing" => seen[t] = nThreads

ServiceInv == SchedulerTypeOK /\ HandInv /\ DrainLeavesNothing /\ AloneInv /\ CountInv

-----------------------------------------------------------------------------
\* A thread goes to another place: the others stay, and so do the threads that the
\* program started.
LEMMA Moved ==
  ASSUME SchedulerTypeOK, NEW t \in Servicers, NEW s \in PcStates, place' = [place EXCEPT ![t] = s]
  PROVE  /\ place' \in [Servicers -> PcStates] /\ place'[t] = s
         /\ \A u \in Servicers \ {t} : place'[u] = place[u]
BY DEF SchedulerTypeOK

\* When no thread is started or left behind, a lone thread stays alone.
LEMMA StillAlone ==
  ASSUME \A u \in Servicers : place[u] = "off" <=> place'[u] = "off"
  PROVE  Started' = Started /\ (Alone' <=> Alone)
BY DEF Started, Alone

\* A thread that enters or leaves changes the count by one.
LEMMA CountMoved ==
  ASSUME SchedulerTypeOK, NEW t \in Servicers, NEW s \in PcStates, place' = [place EXCEPT ![t] = s]
  PROVE  LET out == {"off", "new"} \cup Ended
             n == Cardinality(Inside)
         IN  /\ n \in Nat
             /\ place[t] \in out /\ s \notin out => Cardinality(Inside') = n + 1
             /\ place[t] \notin out /\ s \in out => Cardinality(Inside') = n - 1
             /\ (place[t] \in out <=> s \in out) => Cardinality(Inside') = n
<1> DEFINE out == {"off", "new"} \cup Ended
<1>1. IsFiniteSet(Inside) /\ Cardinality(Inside) \in Nat
  <2>1. Inside \in SUBSET Servicers
    BY DEF Inside
  <2>2. QED
    BY <2>1, FS_Subset, FS_CardinalityType, SchedulerAssumption
<1>2. place'[t] = s /\ \A u \in Servicers \ {t} : place'[u] = place[u]
  BY Moved
<1>3. ASSUME place[t] \in out, s \notin out PROVE Cardinality(Inside') = Cardinality(Inside) + 1
  <2>1. Inside' = Inside \cup {t} /\ t \notin Inside
    BY <1>2, <1>3 DEF Inside
  <2>2. QED
    BY <1>1, <2>1, FS_AddElement
<1>4. ASSUME place[t] \notin out, s \in out PROVE Cardinality(Inside') = Cardinality(Inside) - 1
  <2>1. Inside' = Inside \ {t} /\ t \in Inside
    BY <1>2, <1>4 DEF Inside
  <2>2. QED
    BY <1>1, <2>1, FS_RemoveElement
<1>5. ASSUME place[t] \in out <=> s \in out PROVE Inside' = Inside
  BY <1>2, <1>5 DEF Inside
<1>6. QED
  BY <1>1, <1>3, <1>4, <1>5

-----------------------------------------------------------------------------
\* Types, the task in hand and the end of a draining stop.
DrainInv == SchedulerTypeOK /\ HandInv /\ DrainLeavesNothing

\* All the states a thread can be in, one by one.
LEMMA PcFact ==
  PcStates = {"off", "throwing", "idle", "woken", "timed", "timedwoken", "new", "running",
              "notifying", "ran", "done", "interrupted", "unwound"}
BY DEF PcStates, Waiting, Runnable, Ended

\* One round of servicequeue().
LEMMA LoopDrain ==
  ASSUME DrainInv, NEW t \in Servicers, place[t] # "off", NEW n \in Int, Loop(t, n)
  PROVE  DrainInv'
<1>1. /\ UNCHANGED <<now, taskqueue, at, stopRequested, stopWhenEmpty, notices,
                     noticeAll, interrupted, seen, ran>>
      /\ nThreads' \in Int
  BY DEF Loop
<1>2. PICK s \in {"done", "idle", "timed"}, k \in Tasks \cup {NoTask} :
        /\ place' = [place EXCEPT ![t] = s] /\ cur' = [cur EXCEPT ![t] = k]
        /\ s = "done" => ShouldStop
        /\ s = "timed" => k \in Tasks
  <2>1. First \subseteq Tasks
    BY DEF First, DrainInv, SchedulerTypeOK
  <2>2. QED
    BY <2>1 DEF Loop
<1>3. /\ place' \in [Servicers -> PcStates] /\ place'[t] = s
      /\ \A u \in Servicers \ {t} : place'[u] = place[u]
  BY <1>2, PcFact, Moved DEF DrainInv
<1>4. /\ cur' \in [Servicers -> Tasks \cup {NoTask}] /\ cur'[t] = k
      /\ \A u \in Servicers \ {t} : cur'[u] = cur[u]
  BY <1>2 DEF DrainInv, SchedulerTypeOK
<1>5. SchedulerTypeOK'
  BY <1>1, <1>3, <1>4 DEF DrainInv, SchedulerTypeOK
<1>6. HandInv'
  BY <1>1, <1>2, <1>3, <1>4 DEF DrainInv, HandInv, ShouldStop
<1>7. DrainLeavesNothing'
  <2>1. SUFFICES ASSUME stopWhenEmpty', \A u \in Started' : place'[u] = "done" PROVE taskqueue' = {}
    BY DEF DrainLeavesNothing
  <2>2. t \in Started'
    BY <1>2, <1>3 DEF Started
  <2>3. ShouldStop
    BY <1>2, <1>3, <2>1, <2>2
  <2>4. QED
    BY <1>1, <2>1, <2>3 DEF ShouldStop, DrainInv, HandInv
<1>8. QED
  BY <1>5, <1>6, <1>7 DEF DrainInv

\* A thread goes on or ends without touching the queue.
LEMMA MoveDrain ==
  ASSUME DrainInv, NEW t \in Servicers, NEW s \in PcStates \ {"done"}, place[t] # "done",
         place[t] # "off", s # "off",
         place' = [place EXCEPT ![t] = s],
         cur' = cur \/ cur' = [cur EXCEPT ![t] = NoTask], s # "running",
         nThreads' \in Int, seen' \in [Servicers -> Int], notices' \in Nat,
         UNCHANGED <<now, taskqueue, at, stopRequested, stopWhenEmpty, noticeAll,
                     interrupted, ran>>
  PROVE  DrainInv'
<1>1. /\ place' \in [Servicers -> PcStates] /\ place'[t] = s
      /\ \A u \in Servicers \ {t} : place'[u] = place[u]
  BY Moved DEF DrainInv
<1>2. /\ cur' \in [Servicers -> Tasks \cup {NoTask}]
      /\ \A u \in Servicers \ {t} : cur'[u] = cur[u]
  BY DEF DrainInv, SchedulerTypeOK
<1>3. SchedulerTypeOK'
  BY <1>1, <1>2 DEF DrainInv, SchedulerTypeOK
<1>4. HandInv'
  BY <1>1, <1>2 DEF DrainInv, HandInv
<1>5. DrainLeavesNothing'
  <2>1. t \in Started' /\ place'[t] # "done"
    BY <1>1 DEF Started
  <2>2. QED
    BY <2>1 DEF DrainLeavesNothing
<1>6. QED
  BY <1>3, <1>4, <1>5 DEF DrainInv

\* What a notification does to the threads: it wakes some, and one that notified goes on.
WokenStep ==
  /\ place' \in [Servicers -> PcStates]
  /\ \A u \in Servicers : \/ place'[u] = place[u]
                          \/ place[u] = "idle" /\ place'[u] = "woken"
                          \/ place[u] = "timed" /\ place'[u] = "timedwoken"
                          \/ place[u] = "notifying" /\ place'[u] = "ran"

\* The three forms of a notification.
LEMMA NotifiedFact ==
  ASSUME SchedulerTypeOK,
         \/ \E t \in Sleepers : place' = [place EXCEPT ![t] = Notified(@)]
         \/ place' = [t \in Servicers |-> Notified(place[t])]
         \/ place' = place
  PROVE  WokenStep
<1>1. CASE \E t \in Sleepers : place' = [place EXCEPT ![t] = Notified(@)]
  <2>1. PICK t \in Sleepers : place' = [place EXCEPT ![t] = Notified(@)]
    BY <1>1
  <2>2. QED
    BY <2>1, PcFact DEF Sleepers, Notified, SchedulerTypeOK, WokenStep
<1>2. CASE place' = [t \in Servicers |-> Notified(place[t])]
  BY <1>2, PcFact DEF Notified, SchedulerTypeOK, WokenStep
<1>3. CASE place' = place
  BY <1>3 DEF SchedulerTypeOK, WokenStep
<1>4. QED
  BY <1>1, <1>2, <1>3

\* The notification by a thread whose task has scheduled another one.
LEMMA NotifyNextFact ==
  ASSUME SchedulerTypeOK, NEW t \in Servicers, NotifyNext(t)
  PROVE  WokenStep
<1> DEFINE p == [place EXCEPT ![t] = "ran"]
<1>1. /\ p \in [Servicers -> PcStates] /\ p[t] = "ran" /\ place[t] = "notifying"
      /\ \A u \in Servicers \ {t} : p[u] = place[u]
  BY PcFact DEF SchedulerTypeOK, NotifyNext
<1>2. WakeOne(p)
  BY DEF NotifyNext
<1> HIDE DEF p
<1>3. CASE \E v \in Sleepers : place' = [p EXCEPT ![v] = Notified(@)]
  <2>1. PICK v \in Sleepers : place' = [p EXCEPT ![v] = Notified(@)]
    BY <1>3
  <2>2. v \in Servicers /\ v # t /\ p[v] \in {"idle", "timed"} /\ p[v] = place[v]
    BY <1>1 DEF Sleepers
  <2>3. QED
    BY <1>1, <2>1, <2>2, PcFact DEF Notified, WokenStep
<1>4. CASE place' = p
  BY <1>1, <1>4 DEF WokenStep
<1>5. QED
  BY <1>2, <1>3, <1>4 DEF WakeOne

\* A notification touches neither queue nor tasks.
LEMMA WokenDrain ==
  ASSUME DrainInv, WokenStep, notices' \in Nat, noticeAll' \in BOOLEAN,
         UNCHANGED <<now, taskqueue, at, cur, nThreads, stopRequested, stopWhenEmpty,
                     interrupted, seen, ran>>
  PROVE  DrainInv'
<1>1. \A t \in Servicers :
        /\ place'[t] = "done" <=> place[t] = "done"
        /\ place'[t] = "off" <=> place[t] = "off"
        /\ place'[t] = "running" <=> place[t] = "running"
  BY DEF WokenStep
<1>2. SchedulerTypeOK'
  BY DEF DrainInv, SchedulerTypeOK, WokenStep
<1>3. HandInv'
  BY <1>1 DEF DrainInv, HandInv
<1>4. DrainLeavesNothing'
  BY <1>1 DEF DrainInv, DrainLeavesNothing, Started
<1>5. QED
  BY <1>2, <1>3, <1>4 DEF DrainInv

\* Every step keeps types, the task in hand, and the promise of stop(drain).
LEMMA NextDrain == ASSUME DrainInv, [SchedulerNext]_schedulerVars PROVE DrainInv'
<1>t. SchedulerTypeOK
  BY DEF DrainInv
<1>1. ASSUME NEW t \in Servicers, EnterService(t) PROVE DrainInv'
  <2>1. place[t] # "off" /\ nThreads + 1 \in Int /\ Loop(t, nThreads + 1)
    BY <1>1, <1>t DEF EnterService, SchedulerTypeOK
  <2>2. QED
    BY <2>1, LoopDrain
<1>2. ASSUME NEW t \in Servicers, Wake(t) \/ WaitAgain(t) \/ FinishTask(t) PROVE DrainInv'
  <2>1. place[t] # "off" /\ nThreads \in Int /\ Loop(t, nThreads)
    BY <1>2, <1>t DEF Wake, WaitAgain, TimedReturn, FinishTask, SchedulerTypeOK
  <2>2. QED
    BY <2>1, LoopDrain
<1>3. ASSUME NEW t \in Servicers, Take(t) PROVE DrainInv'
  <2>1. PICK k \in First :
          /\ taskqueue' = taskqueue \ {k} /\ cur' = [Erased(k) EXCEPT ![t] = k]
          /\ ran' = ran \cup {k} /\ place' = [place EXCEPT ![t] = "running"]
          /\ UNCHANGED <<now, at, nThreads, stopRequested, stopWhenEmpty, notices,
                         noticeAll, interrupted, seen>>
    BY <1>3 DEF Take
  <2>2. k \in Tasks
    BY <1>t DEF First, SchedulerTypeOK
  <2>3. /\ place' \in [Servicers -> PcStates] /\ place'[t] = "running"
        /\ \A u \in Servicers \ {t} : place'[u] = place[u]
    BY <1>t, <2>1, PcFact, Moved
  <2>e. /\ Erased(k) \in [Servicers -> Tasks \cup {NoTask}]
        /\ \A u \in Servicers : place[u] = "running" => Erased(k)[u] = cur[u]
    BY <1>t, <2>2 DEF SchedulerTypeOK, Erased
  <2>4. /\ cur' \in [Servicers -> Tasks \cup {NoTask}] /\ cur'[t] = k
        /\ \A u \in Servicers \ {t} : place[u] = "running" => cur'[u] = cur[u]
    BY <2>1, <2>2, <2>e
  <2>5. SchedulerTypeOK'
    BY <1>t, <2>1, <2>2, <2>3, <2>4 DEF SchedulerTypeOK
  <2>6. HandInv'
    BY <2>1, <2>2, <2>3, <2>4 DEF DrainInv, HandInv
  <2>7. DrainLeavesNothing'
    <3>1. t \in Started' /\ place'[t] # "done"
      BY <2>3 DEF Started
    <3>2. QED
      BY <3>1 DEF DrainLeavesNothing
  <2>8. QED
    BY <2>5, <2>6, <2>7 DEF DrainInv
<1>4. ASSUME NEW t \in Servicers, Reschedule(t) PROVE DrainInv'
  <2> DEFINE k == Follow[cur[t]]
  <2>1. cur[t] \in Tasks /\ k \in Tasks
    BY <1>4, SchedulerAssumption DEF DrainInv, HandInv, Reschedule
  <2>2. /\ taskqueue' = taskqueue \cup {k} /\ at' = [at EXCEPT ![k] = now + Delta]
        /\ cur' = [cur EXCEPT ![t] = NoTask] /\ place' = [place EXCEPT ![t] = "notifying"]
        /\ UNCHANGED <<now, nThreads, stopRequested, stopWhenEmpty, notices, noticeAll,
                       interrupted, seen, ran>>
    BY <1>4 DEF Reschedule, Insert
  <2> HIDE DEF k
  <2>3. /\ place' \in [Servicers -> PcStates] /\ place'[t] = "notifying"
        /\ \A u \in Servicers \ {t} : place'[u] = place[u]
    BY <1>t, <2>2, PcFact, Moved
  <2>c. /\ cur' \in [Servicers -> Tasks \cup {NoTask}]
        /\ \A u \in Servicers \ {t} : cur'[u] = cur[u]
    BY <1>t, <2>2 DEF SchedulerTypeOK
  <2>4. SchedulerTypeOK'
    BY <1>t, <2>1, <2>2, <2>3, <2>c, SchedulerAssumption DEF SchedulerTypeOK
  <2>5. HandInv'
    BY <2>2, <2>3, <2>c DEF DrainInv, HandInv
  <2>6. DrainLeavesNothing'
    <3>1. t \in Started' /\ place'[t] # "done"
      BY <2>3 DEF Started
    <3>2. QED
      BY <3>1 DEF DrainLeavesNothing
  <2>7. QED
    BY <2>4, <2>5, <2>6 DEF DrainInv
<1>5. ASSUME NEW t \in Servicers, InterruptedWait(t) PROVE DrainInv'
  <2>1. place[t] \in PcStates \ {"done", "off"} /\ "interrupted" \in PcStates
    BY <1>5, PcFact DEF InterruptedWait, Waiting
  <2>2. /\ place' = [place EXCEPT ![t] = "interrupted"] /\ cur' = [cur EXCEPT ![t] = NoTask]
        /\ nThreads' \in Int /\ seen' \in [Servicers -> Int] /\ notices' \in Nat
        /\ UNCHANGED <<now, taskqueue, at, stopRequested, stopWhenEmpty, noticeAll,
                       interrupted, ran>>
    BY <1>5, <1>t DEF InterruptedWait, SchedulerTypeOK
  <2>3. QED
    BY <2>1, <2>2, MoveDrain
<1>6. ASSUME NEW t \in Servicers, Throw(t) PROVE DrainInv'
  BY <1>6, <1>t, PcFact, MoveDrain DEF Throw, SchedulerTypeOK
<1>7. ASSUME NEW t \in Servicers, Unwind(t) PROVE DrainInv'
  <2>1. /\ place[t] = "throwing" /\ place' = [place EXCEPT ![t] = "unwound"]
        /\ cur' = [cur EXCEPT ![t] = NoTask]
        /\ nThreads' \in Int /\ seen' \in [Servicers -> Int] /\ notices' \in Nat
        /\ UNCHANGED <<now, taskqueue, at, stopRequested, stopWhenEmpty, noticeAll,
                       interrupted, ran>>
    BY <1>7, <1>t DEF Unwind, SchedulerTypeOK
  <2>2. QED
    BY <2>1, PcFact, MoveDrain
<1>8. ASSUME NEW t \in Servicers, SpuriousReturn(t) PROVE DrainInv'
  BY <1>8, <1>t, NotifiedFact, WokenDrain DEF SpuriousReturn, SchedulerTypeOK
<1>9. CASE NotifyOne
  <2>1. WokenStep /\ notices' \in Nat
    BY <1>9, <1>t, NotifiedFact DEF NotifyOne, WakeOne, WokenStep, SchedulerTypeOK
  <2>2. QED
    BY <1>9, <1>t, <2>1, WokenDrain DEF NotifyOne, SchedulerTypeOK
<1>10. CASE NotifyAll
  BY <1>10, <1>t, NotifiedFact, WokenDrain DEF NotifyAll, SchedulerTypeOK
<1>m. ASSUME NEW t \in Servicers, NotifyNext(t) PROVE DrainInv'
  BY <1>m, <1>t, NotifyNextFact, WokenDrain DEF NotifyNext, SchedulerTypeOK
<1>11. ASSUME NEW k \in Tasks, NEW time \in Times[k], Schedule(k, time) PROVE DrainInv'
  <2>1. time \in Nat
    BY SchedulerAssumption
  <2>2. SchedulerTypeOK'
    BY <1>11, <1>t, <2>1 DEF Schedule, Insert, SchedulerTypeOK
  <2>3. HandInv' /\ ~stopWhenEmpty'
    BY <1>11 DEF Schedule, DrainInv, HandInv
  <2>4. QED
    BY <2>2, <2>3 DEF DrainInv, DrainLeavesNothing
<1>12. ASSUME NEW drain \in BOOLEAN, Stop(drain) PROVE DrainInv'
  <2>1. /\ ~stopRequested /\ ~stopWhenEmpty /\ stopWhenEmpty' = drain /\ stopRequested' = ~drain
        /\ noticeAll' = TRUE
        /\ UNCHANGED <<now, taskqueue, at, place, cur, nThreads, notices, interrupted, seen, ran>>
    BY <1>12 DEF Stop
  <2>2. SchedulerTypeOK'
    BY <1>t, <2>1 DEF SchedulerTypeOK
  <2>3. \A t \in Servicers : place[t] # "done"
    BY <2>1 DEF DrainInv, HandInv
  <2>4. HandInv'
    BY <2>1, <2>3 DEF DrainInv, HandInv
  <2>5. DrainLeavesNothing'
    BY <2>1, <2>3 DEF DrainLeavesNothing, Started
  <2>6. QED
    BY <2>2, <2>4, <2>5 DEF DrainInv
<1>13. CASE InterruptAll \/ Tick \/ UNCHANGED schedulerVars
  <2>1. /\ UNCHANGED <<taskqueue, place, cur, nThreads, stopRequested,
                       stopWhenEmpty, notices, noticeAll, seen, ran>>
        /\ now' \in Nat /\ interrupted' \in BOOLEAN /\ at' \in [Tasks -> Nat]
    <3>1. CASE InterruptAll
      BY <3>1, <1>t DEF InterruptAll, SchedulerTypeOK
    <3>2. CASE Tick
      <4>1. now' \in Nat
        BY <3>2, <1>t DEF Tick, SchedulerTypeOK
      <4>2. at' \in [Tasks -> Nat]
        BY <3>2, <1>t DEF Tick, SchedulerTypeOK
      <4>3. QED
        BY <3>2, <1>t, <4>1, <4>2 DEF Tick, SchedulerTypeOK
    <3>3. CASE UNCHANGED schedulerVars
      BY <3>3, <1>t DEF schedulerVars, SchedulerTypeOK
    <3>4. QED
      BY <1>13, <3>1, <3>2, <3>3
  <2>2. QED
    BY <1>t, <2>1 DEF DrainInv, SchedulerTypeOK, HandInv, DrainLeavesNothing, Started
<1>14. QED
  BY <1>1, <1>2, <1>3, <1>4, <1>5, <1>6, <1>7, <1>8, <1>9, <1>10, <1>11, <1>12, <1>13, <1>m
     DEF SchedulerNext, Service

-----------------------------------------------------------------------------
Out == {"off", "new"} \cup Ended

\* What a critical section of servicequeue() does to the thread itself.
LEMMA LoopFact ==
  ASSUME DrainInv, NEW t \in Servicers, NEW n \in Int, Loop(t, n)
  PROVE  \E s \in {"done", "idle", "timed"} : \E k \in Tasks \cup {NoTask} :
           /\ place' = [place EXCEPT ![t] = s] /\ cur' = [cur EXCEPT ![t] = k]
           /\ s = "timed" => k \in taskqueue
           /\ nThreads' = IF s = "done" THEN n - 1 ELSE n
<1>1. First \subseteq taskqueue /\ First \subseteq Tasks
  BY DEF First, DrainInv, SchedulerTypeOK
<1>2. CASE ShouldStop
  BY <1>2 DEF Loop
<1>3. CASE ~ShouldStop
  BY <1>1, <1>3 DEF Loop
<1>4. QED
  BY <1>2, <1>3

\* A step that leaves every thread inside or outside, starts no unwinding, and lets
\* the counter alone.
LEMMA CountKept ==
  ASSUME CountInv, UNCHANGED <<nThreads, seen>>,
         \A u \in Servicers :
           /\ place[u] = "off" <=> place'[u] = "off"
           /\ place[u] \in Out <=> place'[u] \in Out
           /\ place[u] \in {"throwing", "unwound"} <=> place'[u] \in {"throwing", "unwound"}
           /\ place'[u] = "throwing" => place[u] = "throwing"
  PROVE  CountInv'
<1>1. Alone' <=> Alone
  BY StillAlone
<1>2. Unwinding' <=> Unwinding
  BY DEF Unwinding
<1>3. Inside' = Inside
  BY DEF Inside, Out
<1>4. QED
  BY <1>1, <1>2, <1>3 DEF CountInv

\* One round of servicequeue(), for a thread that was counted before or is now.
LEMMA LoopCount ==
  ASSUME DrainInv, CountInv, NEW t \in Servicers, NEW n \in Int, Loop(t, n),
         \/ place[t] = "new" /\ n = nThreads + 1
         \/ place[t] \in {"woken", "timed", "timedwoken", "running", "ran"} /\ n = nThreads
  PROVE  CountInv'
<1>t. SchedulerTypeOK
  BY DEF DrainInv
<1>1. PICK s \in {"done", "idle", "timed"} :
        place' = [place EXCEPT ![t] = s] /\ nThreads' = IF s = "done" THEN n - 1 ELSE n
  BY LoopFact
<1>2. s \in PcStates /\ seen' = seen
  BY <1>1, PcFact DEF Loop
<1>3. place'[t] = s /\ \A u \in Servicers \ {t} : place'[u] = place[u]
  BY <1>t, <1>1, <1>2, Moved
<1>4. Alone' <=> Alone
  <2>1. \A u \in Servicers : place[u] = "off" <=> place'[u] = "off"
    BY <1>1, <1>3
  <2>2. QED
    BY <2>1, StillAlone
<1>5. Unwinding' <=> Unwinding
  BY <1>1, <1>3 DEF Unwinding
<1>6. nThreads = Cardinality(Inside) => nThreads' = Cardinality(Inside')
  <2>1. /\ Cardinality(Inside) \in Nat
        /\ place[t] \in Out /\ s \notin Out => Cardinality(Inside') = Cardinality(Inside) + 1
        /\ place[t] \notin Out /\ s \in Out => Cardinality(Inside') = Cardinality(Inside) - 1
        /\ (place[t] \in Out <=> s \in Out) => Cardinality(Inside') = Cardinality(Inside)
    BY <1>t, <1>1, <1>2, CountMoved DEF Out
  <2>2. CASE place[t] = "new" /\ n = nThreads + 1
    <3>1. place[t] \in Out /\ (s \in Out <=> s = "done")
      BY <1>1, <2>2 DEF Out, Ended
    <3>2. QED
      BY <1>1, <2>1, <2>2, <3>1
  <2>3. CASE place[t] \in {"woken", "timed", "timedwoken", "running", "ran"} /\ n = nThreads
    <3>1. place[t] \notin Out /\ (s \in Out <=> s = "done")
      BY <1>1, <2>3 DEF Out, Ended
    <3>2. QED
      BY <1>1, <2>1, <2>3, <3>1
  <2>4. QED
    BY <2>2, <2>3
<1>7. ASSUME Alone', NEW u \in Servicers, place'[u] = "throwing" PROVE FALSE
  <2>1. u # t /\ t \in Started /\ u \in Started
    BY <1>1, <1>3, <1>7 DEF Started
  <2>2. QED
    BY <1>4, <1>7, <2>1 DEF Alone
<1>8. QED
  BY <1>4, <1>5, <1>6, <1>7 DEF CountInv

\* A thread that leaves with its decrement.
LEMMA LeaveCount ==
  ASSUME SchedulerTypeOK, CountInv, NEW t \in Servicers, place[t] \notin Out, NEW s \in Ended,
         place' = [place EXCEPT ![t] = s],
         s = "unwound" => place[t] = "throwing" /\ nThreads' = seen[t] - 1,
         s # "unwound" => place[t] # "throwing" /\ nThreads' = nThreads - 1 /\ seen' = seen
  PROVE  CountInv'
<1>1. s \in PcStates \ {"off"} /\ s \in Out /\ place[t] \notin {"off", "unwound"}
  BY PcFact DEF Ended, Out
<1>2. place'[t] = s /\ \A u \in Servicers \ {t} : place'[u] = place[u]
  BY <1>1, Moved
<1>3. Alone' <=> Alone
  <2>1. \A u \in Servicers : place[u] = "off" <=> place'[u] = "off"
    BY <1>1, <1>2
  <2>2. QED
    BY <2>1, StillAlone
<1>4. Unwinding => Unwinding'
  BY <1>1, <1>2 DEF Unwinding
<1>5. Cardinality(Inside) \in Nat /\ Cardinality(Inside') = Cardinality(Inside) - 1
  BY <1>1, CountMoved DEF Out
<1>6. ASSUME ~Unwinding' \/ Alone' PROVE nThreads' = Cardinality(Inside')
  <2>1. nThreads = Cardinality(Inside)
    BY <1>3, <1>4, <1>6 DEF CountInv
  <2>2. CASE s = "unwound"
    <3>1. Alone
      BY <1>2, <1>3, <1>6, <2>2 DEF Unwinding
    <3>2. seen[t] = nThreads
      BY <2>2, <3>1 DEF CountInv
    <3>3. QED
      BY <1>5, <2>1, <2>2, <3>2
  <2>3. CASE s # "unwound"
    BY <1>5, <2>1, <2>3
  <2>4. QED
    BY <2>2, <2>3
<1>7. ASSUME Alone', NEW u \in Servicers, place'[u] = "throwing" PROVE FALSE
  <2>1. u # t /\ t \in Started /\ u \in Started
    BY <1>1, <1>2, <1>7 DEF Started, Ended
  <2>2. QED
    BY <1>3, <1>7, <2>1 DEF Alone
<1>8. QED
  BY <1>6, <1>7 DEF CountInv

\* Every step keeps the counter right, or a second thread unwinds.
LEMMA NextCount == ASSUME DrainInv, CountInv, [SchedulerNext]_schedulerVars PROVE CountInv'
<1>t. SchedulerTypeOK
  BY DEF DrainInv
<1>1. ASSUME NEW t \in Servicers, EnterService(t) PROVE CountInv'
  <2>1. nThreads + 1 \in Int
    BY <1>t DEF SchedulerTypeOK
  <2>2. QED
    BY <1>1, <2>1, LoopCount DEF EnterService
<1>2. ASSUME NEW t \in Servicers, Wake(t) \/ WaitAgain(t) \/ FinishTask(t) PROVE CountInv'
  <2>1. /\ place[t] \in {"woken", "timed", "timedwoken", "running", "ran"}
        /\ nThreads \in Int /\ Loop(t, nThreads)
    BY <1>2, <1>t DEF Wake, WaitAgain, TimedReturn, FinishTask, SchedulerTypeOK
  <2>2. QED
    BY <2>1, LoopCount
<1>m. ASSUME NEW t \in Servicers, NEW s \in {"running", "notifying"}, place' = [place EXCEPT ![t] = s],
             place[t] \in {"timed", "timedwoken", "running"}, UNCHANGED <<nThreads, seen>>
      PROVE  CountInv'
  <2>1. place'[t] = s /\ \A u \in Servicers \ {t} : place'[u] = place[u]
    BY <1>t, <1>m, PcFact, Moved
  <2>2. QED
    BY <1>m, <2>1, CountKept DEF Out, Ended
<1>3. ASSUME NEW t \in Servicers, Take(t) \/ Reschedule(t) PROVE CountInv'
  BY <1>3, <1>m DEF Take, TimedReturn, Reschedule
<1>4. ASSUME NEW t \in Servicers, InterruptedWait(t) PROVE CountInv'
  <2>1. place[t] \notin Out /\ "interrupted" \in Ended /\ place[t] # "throwing"
    BY <1>4 DEF InterruptedWait, Waiting, Out, Ended
  <2>2. QED
    BY <1>4, <1>t, <2>1, LeaveCount DEF InterruptedWait
<1>5. ASSUME NEW t \in Servicers, Unwind(t) PROVE CountInv'
  <2>1. place[t] \notin Out /\ "unwound" \in Ended
    BY <1>5 DEF Unwind, Out, Ended
  <2>2. QED
    BY <1>5, <1>t, <2>1, LeaveCount DEF Unwind
<1>6. ASSUME NEW t \in Servicers, Throw(t) PROVE CountInv'
  <2>1. /\ place[t] = "running" /\ place' = [place EXCEPT ![t] = "throwing"]
        /\ seen' = [seen EXCEPT ![t] = nThreads] /\ nThreads' = nThreads
    BY <1>6 DEF Throw
  <2>2. place'[t] = "throwing" /\ \A u \in Servicers \ {t} : place'[u] = place[u]
    BY <1>t, <2>1, PcFact, Moved
  <2>3. seen'[t] = nThreads /\ \A u \in Servicers \ {t} : seen'[u] = seen[u]
    BY <1>t, <2>1 DEF SchedulerTypeOK
  <2>4. Alone' <=> Alone
    <3>1. \A u \in Servicers : place[u] = "off" <=> place'[u] = "off"
      BY <2>1, <2>2
    <3>2. QED
      BY <3>1, StillAlone
  <2>5. Inside' = Inside
    BY <2>1, <2>2 DEF Inside, Ended
  <2>6. Unwinding'
    BY <2>2 DEF Unwinding
  <2>7. QED
    BY <2>1, <2>2, <2>3, <2>4, <2>5, <2>6 DEF CountInv
<1>7. ASSUME WokenStep, UNCHANGED <<nThreads, seen>> PROVE CountInv'
  BY <1>7, CountKept DEF WokenStep, Out, Ended
<1>8. ASSUME UNCHANGED <<place, nThreads, seen>> PROVE CountInv'
  BY <1>8, CountKept
<1>9. ASSUME NEW t \in Servicers, SpuriousReturn(t) \/ NotifyNext(t) PROVE CountInv'
  BY <1>7, <1>9, <1>t, NotifiedFact, NotifyNextFact DEF SpuriousReturn, NotifyNext
<1>10. CASE NotifyOne
  BY <1>7, <1>10, <1>t, NotifiedFact DEF NotifyOne, WakeOne
<1>11. CASE NotifyAll
  BY <1>7, <1>11, <1>t, NotifiedFact DEF NotifyAll
<1>12. ASSUME NEW k \in Tasks, NEW time \in Times[k], Schedule(k, time) PROVE CountInv'
  BY <1>8, <1>12 DEF Schedule
<1>13. ASSUME NEW drain \in BOOLEAN, Stop(drain) PROVE CountInv'
  BY <1>8, <1>13 DEF Stop
<1>14. CASE InterruptAll \/ Tick \/ UNCHANGED schedulerVars
  BY <1>8, <1>14 DEF InterruptAll, Tick, schedulerVars
<1>15. QED
  BY <1>1, <1>2, <1>3, <1>4, <1>5, <1>6, <1>9, <1>10, <1>11, <1>12, <1>13, <1>14
     DEF SchedulerNext, Service

-----------------------------------------------------------------------------
\* No step but the lone thread's own takes its task away.
LEMMA NextAlone == ASSUME DrainInv, AloneInv, [SchedulerNext]_schedulerVars PROVE AloneInv'
<1>t. SchedulerTypeOK
  BY DEF DrainInv
<1>l. ASSUME NEW t \in Servicers, place[t] # "off", NEW n \in Int, Loop(t, n) PROVE AloneInv'
  <2>1. PICK s \in {"done", "idle", "timed"}, k \in Tasks \cup {NoTask} :
          /\ place' = [place EXCEPT ![t] = s] /\ cur' = [cur EXCEPT ![t] = k]
          /\ s = "timed" => k \in taskqueue
    BY <1>l, LoopFact
  <2>2. place'[t] = s /\ \A u \in Servicers \ {t} : place'[u] = place[u]
    BY <1>t, <2>1, PcFact, Moved
  <2>3. cur'[t] = k /\ \A u \in Servicers \ {t} : cur'[u] = cur[u]
    BY <1>t, <2>1 DEF SchedulerTypeOK
  <2>4. taskqueue' = taskqueue
    BY <1>l DEF Loop
  <2>5. Alone' <=> Alone
    <3>1. \A u \in Servicers : place[u] = "off" <=> place'[u] = "off"
      BY <1>l, <2>1, <2>2
    <3>2. QED
      BY <3>1, StillAlone
  <2>6. QED
    BY <2>1, <2>2, <2>3, <2>4, <2>5 DEF AloneInv
<1>1. ASSUME NEW t \in Servicers, EnterService(t) PROVE AloneInv'
  <2>1. nThreads + 1 \in Int
    BY <1>t DEF SchedulerTypeOK
  <2>2. QED
    BY <1>1, <1>l, <2>1 DEF EnterService
<1>2. ASSUME NEW t \in Servicers, Wake(t) \/ WaitAgain(t) \/ FinishTask(t) PROVE AloneInv'
  <2>1. place[t] # "off" /\ nThreads \in Int /\ Loop(t, nThreads)
    BY <1>2, <1>t DEF Wake, WaitAgain, TimedReturn, FinishTask, SchedulerTypeOK
  <2>2. QED
    BY <1>l, <2>1
<1>3. ASSUME NEW t \in Servicers, Take(t) PROVE AloneInv'
  <2>1. place[t] # "off" /\ place' = [place EXCEPT ![t] = "running"]
    BY <1>3 DEF Take, TimedReturn
  <2>2. place'[t] = "running" /\ \A u \in Servicers \ {t} : place'[u] = place[u]
    BY <1>t, <2>1, PcFact, Moved
  <2>3. SUFFICES ASSUME Alone', NEW u \in Servicers, place'[u] \in {"timed", "timedwoken"}
                 PROVE  FALSE
    BY DEF AloneInv
  <2>4. u # t /\ u \in Started' /\ t \in Started'
    BY <2>2, <2>3 DEF Started
  <2>5. QED
    BY <2>3, <2>4 DEF Alone
<1>k. ASSUME \A u \in Servicers :
               /\ place[u] = "off" <=> place'[u] = "off"
               /\ place'[u] \in {"timed", "timedwoken"} =>
                    place[u] \in {"timed", "timedwoken"} /\ cur'[u] = cur[u],
             taskqueue \subseteq taskqueue'
      PROVE  AloneInv'
  <2>1. Alone' <=> Alone
    BY <1>k, StillAlone
  <2>2. QED
    BY <1>k, <2>1 DEF AloneInv
<1>4. ASSUME NEW t \in Servicers, Reschedule(t) \/ Throw(t) PROVE AloneInv'
  <2>1. /\ \E s \in {"notifying", "throwing"} : place' = [place EXCEPT ![t] = s]
        /\ place[t] = "running" /\ taskqueue \subseteq taskqueue'
        /\ cur' = cur \/ cur' = [cur EXCEPT ![t] = NoTask]
    BY <1>4 DEF Reschedule, Insert, Throw
  <2>2. /\ place'[t] \in {"notifying", "throwing"}
        /\ \A u \in Servicers \ {t} : place'[u] = place[u] /\ cur'[u] = cur[u]
    BY <1>t, <2>1 DEF SchedulerTypeOK
  <2>3. QED
    BY <1>k, <2>1, <2>2
<1>5. ASSUME NEW t \in Servicers, InterruptedWait(t) \/ Unwind(t) PROVE AloneInv'
  <2>1. /\ \E s \in {"interrupted", "unwound"} : place' = [place EXCEPT ![t] = s]
        /\ place[t] # "off" /\ cur' = [cur EXCEPT ![t] = NoTask] /\ taskqueue' = taskqueue
    BY <1>5 DEF InterruptedWait, Unwind, Waiting
  <2>2. /\ place'[t] \in {"interrupted", "unwound"}
        /\ \A u \in Servicers \ {t} : place'[u] = place[u] /\ cur'[u] = cur[u]
    BY <1>t, <2>1 DEF SchedulerTypeOK
  <2>3. QED
    BY <1>k, <2>1, <2>2
<1>6. ASSUME WokenStep, UNCHANGED <<cur, taskqueue>> PROVE AloneInv'
  BY <1>6, <1>k DEF WokenStep
<1>7. ASSUME UNCHANGED <<place, cur>>, taskqueue \subseteq taskqueue' PROVE AloneInv'
  BY <1>7, <1>k
<1>8. ASSUME NEW t \in Servicers, SpuriousReturn(t) \/ NotifyNext(t) PROVE AloneInv'
  BY <1>6, <1>8, <1>t, NotifiedFact, NotifyNextFact DEF SpuriousReturn, NotifyNext
<1>9. CASE NotifyOne
  BY <1>6, <1>9, <1>t, NotifiedFact DEF NotifyOne, WakeOne
<1>10. CASE NotifyAll
  BY <1>6, <1>10, <1>t, NotifiedFact DEF NotifyAll
<1>11. ASSUME NEW k \in Tasks, NEW time \in Times[k], Schedule(k, time) PROVE AloneInv'
  BY <1>7, <1>11 DEF Schedule, Insert
<1>12. ASSUME NEW drain \in BOOLEAN, Stop(drain) PROVE AloneInv'
  BY <1>7, <1>12 DEF Stop
<1>13. CASE InterruptAll \/ Tick \/ UNCHANGED schedulerVars
  BY <1>7, <1>13 DEF InterruptAll, Tick, schedulerVars
<1>14. QED
  BY <1>1, <1>2, <1>3, <1>4, <1>5, <1>8, <1>9, <1>10, <1>11, <1>12, <1>13 DEF SchedulerNext, Service

-----------------------------------------------------------------------------
\* The scheduler before its threads have started.
LEMMA InitService == SchedulerInit => ServiceInv
<1> SUFFICES ASSUME SchedulerInit PROVE ServiceInv
  OBVIOUS
<1>1. \A t \in Servicers : place[t] \in {"off", "new"}
  BY DEF SchedulerInit
<1>2. SchedulerTypeOK
  <2>1. place \in [Servicers -> PcStates]
    BY PcFact DEF SchedulerInit
  <2>2. /\ at \in [Tasks -> Nat] /\ cur \in [Servicers -> Tasks \cup {NoTask}]
        /\ seen \in [Servicers -> Int] /\ nThreads \in Int
    BY DEF SchedulerInit
  <2>3. QED
    BY <2>1, <2>2 DEF SchedulerInit, SchedulerTypeOK
<1>3. HandInv /\ AloneInv
  BY <1>1 DEF SchedulerInit, HandInv, AloneInv
<1>4. DrainLeavesNothing
  BY DEF SchedulerInit, DrainLeavesNothing
<1>5. CountInv
  <2>1. Inside = {}
    BY <1>1 DEF Inside
  <2>2. QED
    BY <1>1, <2>1, FS_EmptySet DEF SchedulerInit, CountInv
<1>6. QED
  BY <1>2, <1>3, <1>4, <1>5 DEF ServiceInv

\* The invariant holds for any number of threads and tasks.
THEOREM ServiceInvariance == SchedulerSpec => []ServiceInv
<1>1. ServiceInv /\ [SchedulerNext]_schedulerVars => ServiceInv'
  <2> SUFFICES ASSUME ServiceInv, [SchedulerNext]_schedulerVars PROVE ServiceInv'
    OBVIOUS
  <2>1. DrainInv
    BY DEF ServiceInv, DrainInv
  <2>2. DrainInv' /\ AloneInv' /\ CountInv'
    BY <2>1, NextDrain, NextAlone, NextCount DEF ServiceInv
  <2>3. QED
    BY <2>2 DEF ServiceInv, DrainInv
<1>2. QED
  BY <1>1, InitService, PTL DEF SchedulerSpec

\* At most one thread.
LEMMA AloneFact == ~(Cardinality(Started) > 1) => Alone
<1>1. IsFiniteSet(Started) /\ Cardinality(Started) \in Nat
  <2>1. Started \in SUBSET Servicers
    BY DEF Started
  <2>2. QED
    BY <2>1, FS_Subset, FS_CardinalityType, SchedulerAssumption
<1>2. ASSUME ~(Cardinality(Started) > 1) PROVE Alone
  <2>1. CASE Cardinality(Started) = 0
    <3>1. Started = {}
      BY <1>1, <2>1, FS_EmptySet
    <3>2. QED
      BY <3>1 DEF Alone
  <2>2. CASE Cardinality(Started) = 1
    <3>1. \E x : Started = {x}
      BY <1>1, <2>2, FS_Singleton
    <3>2. QED
      BY <3>1 DEF Alone
  <2>3. QED
    BY <1>1, <1>2, <2>1, <2>2
<1>3. QED
  BY <1>2

\* scheduler.h on stop(drain = true), for any number of service threads: when the
\* last one has left, nothing is queued, not even what running tasks scheduled
\* after the stop.
THEOREM DrainAlwaysLeavesNothing == SchedulerSpec => []DrainLeavesNothing
<1>1. ServiceInv => DrainLeavesNothing
  BY DEF ServiceInv
<1>2. QED
  BY <1>1, ServiceInvariance, PTL

\* The assertion of ~cscheduler() rests on this: nthreadsservicingqueue counts the
\* threads in servicequeue(), unless one of several threads has unwound from a task.
THEOREM CounterAlwaysExact == SchedulerSpec => []CounterExact
<1>1. ServiceInv => CounterExact
  <2> SUFFICES ASSUME ServiceInv,
                      ~(/\ Cardinality(Started) > 1
                        /\ \E t \in Servicers : place[t] \in {"throwing", "unwound"})
               PROVE  nThreads = Cardinality({t \in Started : place[t] \notin {"new"} \cup Ended})
    BY DEF CounterExact
  <2>1. ~Unwinding \/ Alone
    BY AloneFact DEF Unwinding
  <2>2. {t \in Started : place[t] \notin {"new"} \cup Ended} = Inside
    BY DEF Started, Inside
  <2>3. QED
    BY <2>1, <2>2 DEF ServiceInv, CountInv
<1>2. QED
  BY <1>1, ServiceInvariance, PTL

\* scheduler.h: "call func at/after time t".  The one service thread that init.cpp
\* starts begins no task before its time.
THEOREM AloneNeverEarly == SchedulerSpec => NeverEarlyAlone
<1>1. ServiceInv /\ [SchedulerNext]_schedulerVars =>
        [Cardinality(Started) = 1 => \A k \in taskqueue \ taskqueue' : at[k] <= now]_schedulerVars
  <2> SUFFICES ASSUME ServiceInv, SchedulerNext, Cardinality(Started) = 1,
                      NEW k \in taskqueue, k \notin taskqueue'
               PROVE  at[k] <= now
    BY Zenon
  <2>1. PICK t \in Servicers : Take(t)
    <3>1. ASSUME taskqueue \subseteq taskqueue' PROVE FALSE
      BY <3>1
    <3>2. CASE \E t \in Servicers : Service(t)
      BY <3>1, <3>2 DEF Service, EnterService, Wake, WaitAgain, FinishTask, Reschedule, Insert,
                        NotifyNext, Loop
    <3>3. CASE ~\E t \in Servicers : Service(t)
      BY <3>1, <3>3 DEF SchedulerNext, InterruptedWait, Throw, Unwind, SpuriousReturn,
                        Schedule, Insert, Stop, NotifyOne, NotifyAll, InterruptAll, Tick
    <3>4. QED
      BY <3>2, <3>3
  <2>2. k \in First
    BY <2>1 DEF Take
  <2>3. place[t] \in {"timed", "timedwoken"} /\ MayTimeout(t)
    BY <2>1 DEF Take, TimedReturn
  <2>4. Alone
    BY AloneFact
  <2>5. cur[t] \in taskqueue
    BY <2>3, <2>4 DEF ServiceInv, AloneInv
  <2>n. cur[t] # NoTask
    BY <2>5, SchedulerAssumption DEF ServiceInv, SchedulerTypeOK
  <2>6. now >= at[cur[t]] /\ at[k] <= at[cur[t]]
    BY <2>2, <2>3, <2>5, <2>n DEF MayTimeout, First
  <2>7. now \in Nat /\ at[k] \in Nat /\ at[cur[t]] \in Nat
    BY <2>2, <2>5 DEF ServiceInv, SchedulerTypeOK, First
  <2>8. QED
    BY <2>6, <2>7
<1>2. QED
  BY <1>1, ServiceInvariance, PTL DEF SchedulerSpec, NeverEarlyAlone
=============================================================================
