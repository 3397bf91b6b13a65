------------------------------ MODULE PoolProofs ------------------------------
(***************************************************************************)
(* The thread pool never sleeps on queued work, for any number of workers, *)
(* of other threads and of operations, as long as the count of sleeping    *)
(* threads does not wrap around.                                           *)
(***************************************************************************)
EXTENDS ThreadPool, FiniteSetTheorems, TLAPS

\* The count of sleeping threads has room for one more.  Nothing in the code
\* bounds it: a worker that withdraws its announcement sets its own event, and
\* announces itself once more when the event ends its next sleep.  A count that
\* wrapped around to zero would hide every sleeping worker.
CountFits == sleepCount + 1 < W

\* The places of a worker and of a client.
WakerPCs == {"hint", "claim", "scan", "wakeSet"}
WorkerPCs ==
    WakerPCs \cup
    {"pop", "global", "steal", "run", "spin", "look", "announce", "count", "checkGlobal",
     "pushBack", "checkOthers", "stopCheck", "asleep", "exited",
     "clear", "clearSelf", "clearOthers", "clearSet"}
ClientPCs == WakerPCs \cup {"client", "wakeAll", "wakeAllSet", "joining", "joined"}

PoolTypes ==
    /\ stop \in BOOLEAN /\ globalQ \in Nat /\ localQ \in [Workers -> Nat]
    /\ isSleep \in [Workers -> BOOLEAN] /\ event \in [Workers -> BOOLEAN]
    /\ sleepCount \in Nat
    /\ pc \in [Threads -> WorkerPCs \cup ClientPCs]
    /\ \A i \in Workers : pc[i] \in WorkerPCs
    /\ \A p \in Clients : pc[p] \in ClientPCs
    /\ from \in [Workers -> {"normal", "spin", "intent"}]
    /\ idx \in [Threads -> 1..N + 1] /\ num \in [Threads -> Nat]

\* A thread begins every scan at the first worker, and sets the event of one.
IndexInv ==
    \A p \in Threads :
        /\ pc[p] \notin {"steal", "checkOthers", "scan", "wakeSet", "clearOthers",
                          "clearSet", "wakeAll", "wakeAllSet"} => idx[p] = 1
        /\ pc[p] \in {"wakeSet", "clearSet", "wakeAllSet"} => idx[p] \in Workers

\* Only its owner adds to a local queue, and it empties it before it looks
\* elsewhere.
LocalInv ==
    \A i \in Workers : localQ[i] > 0 => pc[i] \in WakerPCs \cup {"run", "pop"}

\* While the pool is destroyed only its workers wake others, and it does not
\* sleep as a whole with work: it did not when it was stopped, and no worker has
\* begun to sleep since.
StopInv ==
    /\ stop => \A p \in Clients : pc[p] \notin WakerPCs
    /\ stop => (WorkQueued => \E i \in Workers : ~Blocked(i))
    /\ \A p \in Threads :
           pc[p] \in {"exited", "wakeAll", "wakeAllSet", "joining", "joined"} => stop

\* A worker that has counted itself as sleeping and not withdrawn that.
Settled(i) ==
    \/ pc[i] \in {"checkGlobal", "pushBack", "checkOthers", "stopCheck", "asleep"}
    \/ pc[i] \in {"global", "steal"} /\ from[i] = "intent"

\* Whoever takes the flag of a worker sets its event.
FlagInv ==
    \A i \in Workers :
        (Settled(i) \/ pc[i] = "count") /\ ~isSleep[i] /\ ~event[i] =>
            \E q \in Threads :
                pc[q] \in {"wakeSet", "clearSet", "wakeAllSet"} /\ idx[q] = i

\* When all workers are flagged as sleeping, the one that was counted last
\* still is, or the thread that claimed it has flags before it.
CountInv ==
    (\A i \in Workers : Settled(i) /\ isSleep[i]) =>
        sleepCount > 0 \/ \E p \in Threads : pc[p] = "scan" /\ idx[p] \in Workers

\* A worker that will look into the global queue before it sleeps.
WillLook(i) ==
    \/ event[i]
    \/ /\ pc[i] \notin {"checkOthers", "stopCheck", "asleep", "exited"}
       /\ ~(pc[i] = "steal" /\ from[i] = "intent")

\* Work in the global queue of a pool that is not stopped has a thread that wakes
\* a worker for it, or a worker that will see it.
LookInv ==
    ~stop /\ globalQ > 0 =>
                   \/ \E p \in Threads : pc[p] \in WakerPCs
                   \/ \E i \in Workers : WillLook(i)

PoolInv ==
    PoolTypes /\ IndexInv /\ LocalInv /\ StopInv /\ FlagInv /\ CountInv /\ LookInv

-----------------------------------------------------------------------------

\* The smaller of two numbers.
LEMMA MinOfTwo ==
    ASSUME NEW a \in Nat, NEW b \in Nat
    PROVE  /\ Min({a, b}) \in Nat
           /\ Min({a, b}) <= a /\ Min({a, b}) <= b
           /\ Min({a, b}) = a \/ Min({a, b}) = b
<1>1. \E x \in {a, b} : \A y \in {a, b} : x <= y
  <2>1. CASE a <= b
    BY <2>1
  <2>2. CASE b <= a
    BY <2>2
  <2> QED BY <2>1, <2>2
<1>2. Min({a, b}) \in {a, b} /\ \A y \in {a, b} : Min({a, b}) <= y
  BY <1>1 DEF Min
<1> QED BY <1>2

\* The approximate amount of work is a number, and not zero when the global
\* queue holds an operation.
LEMMA WorkIsCounted ==
    ASSUME PoolTypes
    PROVE  ApproxTotalWork \in Nat /\ (globalQ > 0 => ApproxTotalWork > 0)
<1> DEFINE S == {i \in Workers : localQ[i] > 0}
<1>1. IsFiniteSet(Workers)
  BY PoolAssumption, FS_Interval DEF Workers
<1>2. Cardinality(S) \in Nat
  BY <1>1, FS_Subset, FS_CardinalityType
<1> QED BY <1>2 DEF ApproxTotalWork, PoolTypes

\* A thread is a worker or a client, and not both.
LEMMA ThreadKinds ==
    /\ \A i \in Workers : i \in Threads
    /\ \A p \in Clients : p \in Threads
    /\ \A p \in Threads : p \in Workers \/ p \in Clients
    /\ \A p \in Clients : p \notin Workers
BY PoolAssumption DEF Threads

\* The loop variables.
LEMMA WorkerNumbers ==
    /\ 1 \in 1..N + 1 /\ 1 \in Workers
    /\ \A i \in Workers : i \in 1..N + 1 /\ i + 1 \in 1..N + 1
    /\ \A k \in 1..N + 1 : k \in Nat
BY PoolAssumption DEF Workers

\* The inductive invariant part by part, one step per action.  First the types:
\* taking a flag leaves m_is_sleep a function to BOOLEAN.
LEMMA TypesStep ==
    ASSUME PoolInv, [Next]_vars
    PROVE  PoolTypes'
<1> USE ThreadKinds, WorkerNumbers DEF
       Goto, Set, queues, sleepers, locals, PoolInv, PoolTypes, WakerPCs,
       WorkerPCs, ClientPCs
<1>1. ASSUME NEW i \in Workers, PopLocal(i) PROVE PoolTypes'
  BY <1>1 DEF PopLocal
<1>2. ASSUME NEW i \in Workers, PopGlobal(i) PROVE PoolTypes'
  BY <1>2 DEF PopGlobal, Found
<1>3. ASSUME NEW i \in Workers, Steal(i) PROVE PoolTypes'
  BY <1>3 DEF Steal, Found, NotFound
<1>4. ASSUME NEW i \in Workers, FinishOp(i) PROVE PoolTypes'
  BY <1>4 DEF FinishOp
<1>5. ASSUME NEW i \in Workers, SpinStop(i) PROVE PoolTypes'
  BY <1>5 DEF SpinStop
<1>6. ASSUME NEW i \in Workers, SpinEnd(i) PROVE PoolTypes'
  BY <1>6 DEF SpinEnd
<1>6a. ASSUME NEW i \in Workers, SpinAgain(i) PROVE PoolTypes'
  BY <1>6a DEF SpinAgain
<1>7. ASSUME NEW i \in Workers, MarkAsleep(i) PROVE PoolTypes'
  BY <1>7 DEF MarkAsleep
<1>8. ASSUME NEW i \in Workers, CountSleeper(i) PROVE PoolTypes'
  BY <1>8, PoolAssumption DEF CountSleeper
<1>9. ASSUME NEW i \in Workers, CheckGlobal(i) PROVE PoolTypes'
  BY <1>9 DEF CheckGlobal
<1>10. ASSUME NEW i \in Workers, PushBack(i) PROVE PoolTypes'
  BY <1>10 DEF PushBack
<1>11. ASSUME NEW i \in Workers, CheckOthers(i) PROVE PoolTypes'
  BY <1>11 DEF CheckOthers
<1>12. ASSUME NEW i \in Workers, StopCheck(i) PROVE PoolTypes'
  BY <1>12 DEF StopCheck
<1>13. ASSUME NEW i \in Workers, WakeUp(i) PROVE PoolTypes'
  BY <1>13 DEF WakeUp
<1>14. ASSUME NEW i \in Workers, ClearClaim(i) PROVE PoolTypes'
  BY <1>14 DEF ClearClaim
<1>15. ASSUME NEW i \in Workers, ClearSelf(i) PROVE PoolTypes'
  <2>1. CASE isSleep[i]
    <3>1. isSleep' = [isSleep EXCEPT ![i] = FALSE]
      BY <1>15, <2>1 DEF ClearSelf
    <3>2. isSleep' \in [Workers -> BOOLEAN]
      BY <3>1, Zenon DEF PoolTypes
    <3>3. /\ pc' = [pc EXCEPT ![i] = "clearSet"]
          /\ idx' = [idx EXCEPT ![i] = i]
          /\ UNCHANGED <<stop, globalQ, localQ, event, sleepCount, from, num>>
      BY <1>15, <2>1 DEF ClearSelf
    <3> QED BY <1>15, <3>2, <3>3
  <2>2. CASE ~isSleep[i]
    BY <1>15, <2>2 DEF ClearSelf
  <2> QED BY <2>1, <2>2
<1>16. ASSUME NEW i \in Workers, ClearOthers(i) PROVE PoolTypes'
  <2>1. CASE idx[i] \notin Workers
    BY <1>16, <2>1 DEF ClearOthers
  <2>2. CASE idx[i] \in Workers /\ idx[i] # i /\ isSleep[idx[i]]
    <3>1. isSleep' = [isSleep EXCEPT ![idx[i]] = FALSE]
      BY <1>16, <2>2 DEF ClearOthers
    <3>2. isSleep' \in [Workers -> BOOLEAN]
      BY <3>1, Zenon DEF PoolTypes
    <3>3. /\ pc' = [pc EXCEPT ![i] = "clearSet"]
          /\ idx' = idx
          /\ UNCHANGED <<stop, globalQ, localQ, event, sleepCount, from, num>>
      BY <1>16, <2>2 DEF ClearOthers
    <3> QED BY <1>16, <3>2, <3>3
  <2>3. CASE idx[i] \in Workers /\ ~(idx[i] # i /\ isSleep[idx[i]])
    BY <1>16, <2>3 DEF ClearOthers
  <2> QED BY <2>1, <2>2, <2>3
<1>17. ASSUME NEW i \in Workers, ClearSet(i) PROVE PoolTypes'
  BY <1>17 DEF ClearSet
<1>18. ASSUME NEW i \in Workers, SpinLook(i) PROVE PoolTypes'
  BY <1>18 DEF SpinLook
<1>19. ASSUME NEW i \in Workers, ScheduleOnWorker(i) PROVE PoolTypes'
  BY <1>19 DEF ScheduleOnWorker
<1>20. ASSUME NEW p \in Threads, WakeHint(p) PROVE PoolTypes'
  <2>1. CASE Min({ApproxTotalWork, sleepCount}) = 0
    <3>1. /\ pc' = [pc EXCEPT ![p] = Return(p)] /\ num' = num
          /\ UNCHANGED <<stop, globalQ, localQ, sleepers, from, idx>>
      BY <1>20, <2>1 DEF WakeHint
    <3> QED BY <1>20, <3>1 DEF Return
  <2>2. CASE Min({ApproxTotalWork, sleepCount}) # 0
    <3> DEFINE n == Min({ApproxTotalWork, sleepCount})
    <3>1. n \in Nat
      BY MinOfTwo, WorkIsCounted
    <3> HIDE DEF n
    <3> QED BY <1>20, <2>2, <3>1 DEF WakeHint, n
  <2> QED BY <2>1, <2>2
<1>21. ASSUME NEW p \in Threads, WakeNone(p) PROVE PoolTypes'
  BY <1>21 DEF WakeNone, Return
<1>22. ASSUME NEW p \in Threads, WakeRetry(p) PROVE PoolTypes'
  BY <1>22 DEF WakeRetry
<1>23. ASSUME NEW p \in Threads, WakeClaim(p) PROVE PoolTypes'
  BY <1>23, MinOfTwo DEF WakeClaim
<1>24. ASSUME NEW p \in Threads, WakeScan(p) PROVE PoolTypes'
  <2>1. CASE idx[p] \notin Workers /\ (stop \/ sleepCount = 0)
    BY <1>24, <2>1 DEF WakeScan, Return
  <2>2. CASE idx[p] \notin Workers /\ ~(stop \/ sleepCount = 0)
    BY <1>24, <2>2 DEF WakeScan, Return
  <2>3. CASE idx[p] \in Workers /\ isSleep[idx[p]]
    <3>1. isSleep' = [isSleep EXCEPT ![idx[p]] = FALSE]
      BY <1>24, <2>3 DEF WakeScan
    <3>2. isSleep' \in [Workers -> BOOLEAN]
      BY <3>1, Zenon DEF PoolTypes
    <3>3. /\ pc' = [pc EXCEPT ![p] = "wakeSet"]
          /\ idx' = idx
          /\ UNCHANGED <<stop, globalQ, localQ, event, sleepCount, from, num>>
      BY <1>24, <2>3 DEF WakeScan
    <3> QED BY <1>24, <3>2, <3>3
  <2>4. CASE idx[p] \in Workers /\ ~isSleep[idx[p]]
    BY <1>24, <2>4 DEF WakeScan, Return
  <2> QED BY <2>1, <2>2, <2>3, <2>4
<1>25. ASSUME NEW p \in Threads, WakeSet(p) PROVE PoolTypes'
  BY <1>25 DEF WakeSet, Return, IndexInv
<1>26. ASSUME NEW p \in Clients, ScheduleOnClient(p) PROVE PoolTypes'
  BY <1>26 DEF ScheduleOnClient
<1>27. ASSUME NEW p \in Clients, Shutdown(p) PROVE PoolTypes'
  BY <1>27 DEF Shutdown
<1>28. ASSUME NEW p \in Clients, ShutdownScan(p) PROVE PoolTypes'
  <2>1. CASE idx[p] \notin Workers
    BY <1>28, <2>1 DEF ShutdownScan
  <2>2. CASE idx[p] \in Workers /\ isSleep[idx[p]]
    <3>1. isSleep' = [isSleep EXCEPT ![idx[p]] = FALSE]
      BY <1>28, <2>2 DEF ShutdownScan
    <3>2. isSleep' \in [Workers -> BOOLEAN]
      BY <3>1, Zenon DEF PoolTypes
    <3>3. /\ pc' = [pc EXCEPT ![p] = "wakeAllSet"]
          /\ idx' = idx
          /\ UNCHANGED <<stop, globalQ, localQ, event, sleepCount, from, num>>
      BY <1>28, <2>2 DEF ShutdownScan
    <3> QED BY <1>28, <3>2, <3>3
  <2>3. CASE idx[p] \in Workers /\ ~isSleep[idx[p]]
    BY <1>28, <2>3 DEF ShutdownScan
  <2> QED BY <2>1, <2>2, <2>3
<1>29. ASSUME NEW p \in Clients, ShutdownSet(p) PROVE PoolTypes'
  BY <1>29 DEF ShutdownSet, IndexInv
<1>30. ASSUME NEW p \in Clients, Join(p) PROVE PoolTypes'
  BY <1>30 DEF Join
<1>31. ASSUME UNCHANGED vars PROVE PoolTypes'
  BY <1>31 DEF vars
<1> QED
  BY <1>1, <1>2, <1>3, <1>4, <1>5, <1>6, <1>6a, <1>7, <1>8, <1>9, <1>10, <1>11,
      <1>12, <1>13, <1>14, <1>15, <1>16, <1>17, <1>18, <1>19, <1>20, <1>21,
      <1>22, <1>23, <1>24, <1>25, <1>26, <1>27, <1>28, <1>29, <1>30, <1>31 DEF
      Next, Worker, Client, WakeThreads

\* Scans start at the first worker again: WakeClaim relies on it in CountStep.
LEMMA IndexStep ==
    ASSUME PoolInv, [Next]_vars
    PROVE  IndexInv'
<1> USE ThreadKinds, WorkerNumbers DEF
       Goto, Set, queues, sleepers, locals, PoolInv, PoolTypes, IndexInv
<1>1. ASSUME NEW i \in Workers, PopLocal(i) PROVE IndexInv'
  BY <1>1 DEF PopLocal
<1>2. ASSUME NEW i \in Workers, PopGlobal(i) PROVE IndexInv'
  BY <1>2 DEF PopGlobal, Found
<1>3. ASSUME NEW i \in Workers, Steal(i) PROVE IndexInv'
  BY <1>3 DEF Steal, Found, NotFound
<1>4. ASSUME NEW i \in Workers, FinishOp(i) PROVE IndexInv'
  BY <1>4 DEF FinishOp
<1>5. ASSUME NEW i \in Workers, SpinStop(i) PROVE IndexInv'
  BY <1>5 DEF SpinStop
<1>6. ASSUME NEW i \in Workers, SpinEnd(i) PROVE IndexInv'
  BY <1>6 DEF SpinEnd
<1>6a. ASSUME NEW i \in Workers, SpinAgain(i) PROVE IndexInv'
  BY <1>6a DEF SpinAgain
<1>7. ASSUME NEW i \in Workers, MarkAsleep(i) PROVE IndexInv'
  BY <1>7 DEF MarkAsleep
<1>8. ASSUME NEW i \in Workers, CountSleeper(i) PROVE IndexInv'
  BY <1>8 DEF CountSleeper
<1>9. ASSUME NEW i \in Workers, CheckGlobal(i) PROVE IndexInv'
  BY <1>9 DEF CheckGlobal
<1>10. ASSUME NEW i \in Workers, PushBack(i) PROVE IndexInv'
  BY <1>10 DEF PushBack
<1>11. ASSUME NEW i \in Workers, CheckOthers(i) PROVE IndexInv'
  BY <1>11 DEF CheckOthers
<1>12. ASSUME NEW i \in Workers, StopCheck(i) PROVE IndexInv'
  BY <1>12 DEF StopCheck
<1>13. ASSUME NEW i \in Workers, WakeUp(i) PROVE IndexInv'
  BY <1>13 DEF WakeUp
<1>14. ASSUME NEW i \in Workers, ClearClaim(i) PROVE IndexInv'
  BY <1>14 DEF ClearClaim
<1>15. ASSUME NEW i \in Workers, ClearSelf(i) PROVE IndexInv'
  BY <1>15 DEF ClearSelf
<1>16. ASSUME NEW i \in Workers, ClearOthers(i) PROVE IndexInv'
  BY <1>16 DEF ClearOthers
<1>17. ASSUME NEW i \in Workers, ClearSet(i) PROVE IndexInv'
  BY <1>17 DEF ClearSet
<1>18. ASSUME NEW i \in Workers, SpinLook(i) PROVE IndexInv'
  BY <1>18 DEF SpinLook
<1>19. ASSUME NEW i \in Workers, ScheduleOnWorker(i) PROVE IndexInv'
  BY <1>19 DEF ScheduleOnWorker
<1>20. ASSUME NEW p \in Threads, WakeHint(p) PROVE IndexInv'
  BY <1>20 DEF WakeHint, Return
<1>21. ASSUME NEW p \in Threads, WakeNone(p) PROVE IndexInv'
  BY <1>21 DEF WakeNone, Return
<1>22. ASSUME NEW p \in Threads, WakeRetry(p) PROVE IndexInv'
  BY <1>22 DEF WakeRetry
<1>23. ASSUME NEW p \in Threads, WakeClaim(p) PROVE IndexInv'
  BY <1>23 DEF WakeClaim
<1>24. ASSUME NEW p \in Threads, WakeScan(p) PROVE IndexInv'
  BY <1>24 DEF WakeScan, Return
<1>25. ASSUME NEW p \in Threads, WakeSet(p) PROVE IndexInv'
  BY <1>25 DEF WakeSet, Return
<1>26. ASSUME NEW p \in Clients, ScheduleOnClient(p) PROVE IndexInv'
  BY <1>26 DEF ScheduleOnClient
<1>27. ASSUME NEW p \in Clients, Shutdown(p) PROVE IndexInv'
  BY <1>27 DEF Shutdown
<1>28. ASSUME NEW p \in Clients, ShutdownScan(p) PROVE IndexInv'
  BY <1>28 DEF ShutdownScan
<1>29. ASSUME NEW p \in Clients, ShutdownSet(p) PROVE IndexInv'
  BY <1>29 DEF ShutdownSet
<1>30. ASSUME NEW p \in Clients, Join(p) PROVE IndexInv'
  BY <1>30 DEF Join
<1>31. ASSUME UNCHANGED vars PROVE IndexInv'
  BY <1>31 DEF vars
<1> QED
  BY <1>1, <1>2, <1>3, <1>4, <1>5, <1>6, <1>6a, <1>7, <1>8, <1>9, <1>10, <1>11,
      <1>12, <1>13, <1>14, <1>15, <1>16, <1>17, <1>18, <1>19, <1>20, <1>21,
      <1>22, <1>23, <1>24, <1>25, <1>26, <1>27, <1>28, <1>29, <1>30, <1>31 DEF
      Next, Worker, Client, WakeThreads

\* A worker that finds its own queue empty goes elsewhere with the queue empty.
LEMMA LocalStep ==
    ASSUME PoolInv, [Next]_vars
    PROVE  LocalInv'
<1> USE ThreadKinds DEF
       Goto, Set, queues, sleepers, locals, PoolInv, PoolTypes, LocalInv,
       WakerPCs
<1>1. ASSUME NEW i \in Workers, PopLocal(i) PROVE LocalInv'
  BY <1>1 DEF PopLocal
<1>2. ASSUME NEW i \in Workers, PopGlobal(i) PROVE LocalInv'
  BY <1>2 DEF PopGlobal, Found
<1>3. ASSUME NEW i \in Workers, Steal(i) PROVE LocalInv'
  BY <1>3 DEF Steal, Found, NotFound
<1>4. ASSUME NEW i \in Workers, FinishOp(i) PROVE LocalInv'
  BY <1>4 DEF FinishOp
<1>5. ASSUME NEW i \in Workers, SpinStop(i) PROVE LocalInv'
  BY <1>5 DEF SpinStop
<1>6. ASSUME NEW i \in Workers, SpinEnd(i) PROVE LocalInv'
  BY <1>6 DEF SpinEnd
<1>6a. ASSUME NEW i \in Workers, SpinAgain(i) PROVE LocalInv'
  BY <1>6a DEF SpinAgain
<1>7. ASSUME NEW i \in Workers, MarkAsleep(i) PROVE LocalInv'
  BY <1>7 DEF MarkAsleep
<1>8. ASSUME NEW i \in Workers, CountSleeper(i) PROVE LocalInv'
  BY <1>8 DEF CountSleeper
<1>9. ASSUME NEW i \in Workers, CheckGlobal(i) PROVE LocalInv'
  BY <1>9 DEF CheckGlobal
<1>10. ASSUME NEW i \in Workers, PushBack(i) PROVE LocalInv'
  BY <1>10 DEF PushBack
<1>11. ASSUME NEW i \in Workers, CheckOthers(i) PROVE LocalInv'
  BY <1>11 DEF CheckOthers
<1>12. ASSUME NEW i \in Workers, StopCheck(i) PROVE LocalInv'
  BY <1>12 DEF StopCheck
<1>13. ASSUME NEW i \in Workers, WakeUp(i) PROVE LocalInv'
  BY <1>13 DEF WakeUp
<1>14. ASSUME NEW i \in Workers, ClearClaim(i) PROVE LocalInv'
  BY <1>14 DEF ClearClaim
<1>15. ASSUME NEW i \in Workers, ClearSelf(i) PROVE LocalInv'
  BY <1>15 DEF ClearSelf
<1>16. ASSUME NEW i \in Workers, ClearOthers(i) PROVE LocalInv'
  BY <1>16 DEF ClearOthers
<1>17. ASSUME NEW i \in Workers, ClearSet(i) PROVE LocalInv'
  BY <1>17 DEF ClearSet
<1>18. ASSUME NEW i \in Workers, SpinLook(i) PROVE LocalInv'
  BY <1>18 DEF SpinLook
<1>19. ASSUME NEW i \in Workers, ScheduleOnWorker(i) PROVE LocalInv'
  BY <1>19 DEF ScheduleOnWorker
<1>20. ASSUME NEW p \in Threads, WakeHint(p) PROVE LocalInv'
  BY <1>20 DEF WakeHint, Return
<1>21. ASSUME NEW p \in Threads, WakeNone(p) PROVE LocalInv'
  BY <1>21 DEF WakeNone, Return
<1>22. ASSUME NEW p \in Threads, WakeRetry(p) PROVE LocalInv'
  BY <1>22 DEF WakeRetry
<1>23. ASSUME NEW p \in Threads, WakeClaim(p) PROVE LocalInv'
  BY <1>23 DEF WakeClaim
<1>24. ASSUME NEW p \in Threads, WakeScan(p) PROVE LocalInv'
  BY <1>24 DEF WakeScan, Return
<1>25. ASSUME NEW p \in Threads, WakeSet(p) PROVE LocalInv'
  BY <1>25 DEF WakeSet, Return
<1>26. ASSUME NEW p \in Clients, ScheduleOnClient(p) PROVE LocalInv'
  BY <1>26 DEF ScheduleOnClient
<1>27. ASSUME NEW p \in Clients, Shutdown(p) PROVE LocalInv'
  BY <1>27 DEF Shutdown
<1>28. ASSUME NEW p \in Clients, ShutdownScan(p) PROVE LocalInv'
  BY <1>28 DEF ShutdownScan
<1>29. ASSUME NEW p \in Clients, ShutdownSet(p) PROVE LocalInv'
  BY <1>29 DEF ShutdownSet
<1>30. ASSUME NEW p \in Clients, Join(p) PROVE LocalInv'
  BY <1>30 DEF Join
<1>31. ASSUME UNCHANGED vars PROVE LocalInv'
  BY <1>31 DEF vars
<1> QED
  BY <1>1, <1>2, <1>3, <1>4, <1>5, <1>6, <1>6a, <1>7, <1>8, <1>9, <1>10, <1>11,
      <1>12, <1>13, <1>14, <1>15, <1>16, <1>17, <1>18, <1>19, <1>20, <1>21,
      <1>22, <1>23, <1>24, <1>25, <1>26, <1>27, <1>28, <1>29, <1>30, <1>31 DEF
      Next, Worker, Client, WakeThreads

\* The invariant answers the question of the run: when every worker is blocked
\* the pool is not stopped and the local queues are empty, so the work is in the
\* global queue, and nobody but a thread that wakes workers can be about to look
\* there.
LEMMA PoolSleepsRight == PoolInv => NoSleepOnWork
<1> SUFFICES ASSUME PoolInv, WorkQueued, \A i \in Workers : Blocked(i)
             PROVE  \E p \in Threads : pc[p] \in WakerPCs
  BY DEF NoSleepOnWork, WakerPCs
<1>1. ~stop
  BY DEF PoolInv, StopInv
<1>2. ~LocalWork
  BY DEF LocalWork, Blocked, PoolInv, LocalInv, WakerPCs
<1>3. \A i \in Workers : ~WillLook(i)
  BY DEF Blocked, WillLook
<1> QED BY <1>1, <1>2, <1>3 DEF WorkQueued, PoolInv, LookInv

\* A pool is stopped when no client wakes workers and by NoSleepOnWork some worker
\* is up if there is work; then no client schedules, and no worker begins to sleep.
LEMMA StopStep ==
    ASSUME PoolInv, [Next]_vars
    PROVE  StopInv'
<1> USE ThreadKinds DEF
       Goto, Set, queues, sleepers, locals, PoolInv, PoolTypes, StopInv,
       WorkQueued, LocalWork, Blocked, WakerPCs
<1>1. ASSUME NEW i \in Workers, PopLocal(i) PROVE StopInv'
  BY <1>1 DEF PopLocal
<1>2. ASSUME NEW i \in Workers, PopGlobal(i) PROVE StopInv'
  BY <1>2 DEF PopGlobal, Found
<1>3. ASSUME NEW i \in Workers, Steal(i) PROVE StopInv'
  BY <1>3 DEF Steal, Found, NotFound
<1>4. ASSUME NEW i \in Workers, FinishOp(i) PROVE StopInv'
  BY <1>4 DEF FinishOp
<1>5. ASSUME NEW i \in Workers, SpinStop(i) PROVE StopInv'
  BY <1>5 DEF SpinStop
<1>6. ASSUME NEW i \in Workers, SpinEnd(i) PROVE StopInv'
  BY <1>6 DEF SpinEnd
<1>6a. ASSUME NEW i \in Workers, SpinAgain(i) PROVE StopInv'
  BY <1>6a DEF SpinAgain
<1>7. ASSUME NEW i \in Workers, MarkAsleep(i) PROVE StopInv'
  BY <1>7 DEF MarkAsleep
<1>8. ASSUME NEW i \in Workers, CountSleeper(i) PROVE StopInv'
  BY <1>8 DEF CountSleeper
<1>9. ASSUME NEW i \in Workers, CheckGlobal(i) PROVE StopInv'
  BY <1>9 DEF CheckGlobal
<1>10. ASSUME NEW i \in Workers, PushBack(i) PROVE StopInv'
  BY <1>10 DEF PushBack
<1>11. ASSUME NEW i \in Workers, CheckOthers(i) PROVE StopInv'
  BY <1>11 DEF CheckOthers
<1>12. ASSUME NEW i \in Workers, StopCheck(i) PROVE StopInv'
  BY <1>12 DEF StopCheck
<1>13. ASSUME NEW i \in Workers, WakeUp(i) PROVE StopInv'
  BY <1>13 DEF WakeUp
<1>14. ASSUME NEW i \in Workers, ClearClaim(i) PROVE StopInv'
  BY <1>14 DEF ClearClaim
<1>15. ASSUME NEW i \in Workers, ClearSelf(i) PROVE StopInv'
  BY <1>15 DEF ClearSelf
<1>16. ASSUME NEW i \in Workers, ClearOthers(i) PROVE StopInv'
  BY <1>16 DEF ClearOthers
<1>17. ASSUME NEW i \in Workers, ClearSet(i) PROVE StopInv'
  BY <1>17 DEF ClearSet
<1>18. ASSUME NEW i \in Workers, SpinLook(i) PROVE StopInv'
  BY <1>18 DEF SpinLook
<1>19. ASSUME NEW i \in Workers, ScheduleOnWorker(i) PROVE StopInv'
  BY <1>19 DEF ScheduleOnWorker
<1>20. ASSUME NEW p \in Threads, WakeHint(p) PROVE StopInv'
  BY <1>20 DEF WakeHint, Return
<1>21. ASSUME NEW p \in Threads, WakeNone(p) PROVE StopInv'
  BY <1>21 DEF WakeNone, Return
<1>22. ASSUME NEW p \in Threads, WakeRetry(p) PROVE StopInv'
  BY <1>22 DEF WakeRetry
<1>23. ASSUME NEW p \in Threads, WakeClaim(p) PROVE StopInv'
  BY <1>23 DEF WakeClaim
<1>24. ASSUME NEW p \in Threads, WakeScan(p) PROVE StopInv'
  BY <1>24 DEF WakeScan, Return
<1>25. ASSUME NEW p \in Threads, WakeSet(p) PROVE StopInv'
  BY <1>25 DEF WakeSet, Return
<1>26. ASSUME NEW p \in Clients, ScheduleOnClient(p) PROVE StopInv'
  BY <1>26 DEF ScheduleOnClient
<1>27. ASSUME NEW p \in Clients, Shutdown(p) PROVE StopInv'
  <2>1. \A q \in Clients : pc'[q] \notin WakerPCs
    BY <1>27 DEF Shutdown
  <2>2. ASSUME WorkQueued' PROVE \E i \in Workers : ~Blocked(i)'
    <3>1. WorkQueued /\ UNCHANGED event
      BY <1>27, <2>2 DEF Shutdown
    <3>2. PICK i \in Workers : ~Blocked(i)
      <4> SUFFICES ASSUME \A i \in Workers : Blocked(i) PROVE FALSE
        OBVIOUS
      <4>1. PICK q \in Threads : pc[q] \in WakerPCs
        BY <3>1, PoolSleepsRight DEF NoSleepOnWork
      <4> QED BY <1>27, <4>1 DEF Shutdown
    <3>3. pc'[i] = pc[i]
      BY <1>27, <3>2 DEF Shutdown
    <3> QED BY <3>1, <3>2, <3>3
  <2>3. stop' = TRUE
    BY <1>27 DEF Shutdown
  <2> QED BY <2>1, <2>2, <2>3
<1>28. ASSUME NEW p \in Clients, ShutdownScan(p) PROVE StopInv'
  BY <1>28 DEF ShutdownScan
<1>29. ASSUME NEW p \in Clients, ShutdownSet(p) PROVE StopInv'
  BY <1>29 DEF ShutdownSet
<1>30. ASSUME NEW p \in Clients, Join(p) PROVE StopInv'
  BY <1>30 DEF Join
<1>31. ASSUME UNCHANGED vars PROVE StopInv'
  BY <1>31 DEF vars
<1> QED
  BY <1>1, <1>2, <1>3, <1>4, <1>5, <1>6, <1>6a, <1>7, <1>8, <1>9, <1>10, <1>11,
      <1>12, <1>13, <1>14, <1>15, <1>16, <1>17, <1>18, <1>19, <1>20, <1>21,
      <1>22, <1>23, <1>24, <1>25, <1>26, <1>27, <1>28, <1>29, <1>30, <1>31 DEF
      Next, Worker, Client, WakeThreads

\* Only MarkAsleep makes a worker count itself, with its flag raised; who takes
\* a flag is at setting the event of that worker until it has set it.
LEMMA FlagStep ==
    ASSUME PoolInv, [Next]_vars
    PROVE  FlagInv'
<1> USE ThreadKinds DEF
       Goto, Set, queues, sleepers, locals, PoolInv, PoolTypes, FlagInv,
       Settled
<1>1. ASSUME NEW i \in Workers, PopLocal(i) PROVE FlagInv'
  BY <1>1 DEF PopLocal
<1>2. ASSUME NEW i \in Workers, PopGlobal(i) PROVE FlagInv'
  BY <1>2 DEF PopGlobal, Found
<1>3. ASSUME NEW i \in Workers, Steal(i) PROVE FlagInv'
  BY <1>3 DEF Steal, Found, NotFound
<1>4. ASSUME NEW i \in Workers, FinishOp(i) PROVE FlagInv'
  BY <1>4 DEF FinishOp
<1>5. ASSUME NEW i \in Workers, SpinStop(i) PROVE FlagInv'
  BY <1>5 DEF SpinStop
<1>6. ASSUME NEW i \in Workers, SpinEnd(i) PROVE FlagInv'
  BY <1>6 DEF SpinEnd
<1>6a. ASSUME NEW i \in Workers, SpinAgain(i) PROVE FlagInv'
  BY <1>6a DEF SpinAgain
<1>7. ASSUME NEW i \in Workers, MarkAsleep(i) PROVE FlagInv'
  BY <1>7 DEF MarkAsleep
<1>8. ASSUME NEW i \in Workers, CountSleeper(i) PROVE FlagInv'
  BY <1>8 DEF CountSleeper
<1>9. ASSUME NEW i \in Workers, CheckGlobal(i) PROVE FlagInv'
  BY <1>9 DEF CheckGlobal
<1>10. ASSUME NEW i \in Workers, PushBack(i) PROVE FlagInv'
  BY <1>10 DEF PushBack
<1>11. ASSUME NEW i \in Workers, CheckOthers(i) PROVE FlagInv'
  BY <1>11 DEF CheckOthers
<1>12. ASSUME NEW i \in Workers, StopCheck(i) PROVE FlagInv'
  BY <1>12 DEF StopCheck
<1>13. ASSUME NEW i \in Workers, WakeUp(i) PROVE FlagInv'
  BY <1>13 DEF WakeUp
<1>14. ASSUME NEW i \in Workers, ClearClaim(i) PROVE FlagInv'
  BY <1>14 DEF ClearClaim
<1>15. ASSUME NEW i \in Workers, ClearSelf(i) PROVE FlagInv'
  BY <1>15 DEF ClearSelf
<1>16. ASSUME NEW i \in Workers, ClearOthers(i) PROVE FlagInv'
  BY <1>16 DEF ClearOthers
<1>17. ASSUME NEW i \in Workers, ClearSet(i) PROVE FlagInv'
  BY <1>17 DEF ClearSet
<1>18. ASSUME NEW i \in Workers, SpinLook(i) PROVE FlagInv'
  BY <1>18 DEF SpinLook
<1>19. ASSUME NEW i \in Workers, ScheduleOnWorker(i) PROVE FlagInv'
  BY <1>19 DEF ScheduleOnWorker
<1>20. ASSUME NEW p \in Threads, WakeHint(p) PROVE FlagInv'
  BY <1>20 DEF WakeHint, Return
<1>21. ASSUME NEW p \in Threads, WakeNone(p) PROVE FlagInv'
  BY <1>21 DEF WakeNone, Return
<1>22. ASSUME NEW p \in Threads, WakeRetry(p) PROVE FlagInv'
  BY <1>22 DEF WakeRetry
<1>23. ASSUME NEW p \in Threads, WakeClaim(p) PROVE FlagInv'
  BY <1>23 DEF WakeClaim
<1>24. ASSUME NEW p \in Threads, WakeScan(p) PROVE FlagInv'
  BY <1>24 DEF WakeScan, Return
<1>25. ASSUME NEW p \in Threads, WakeSet(p) PROVE FlagInv'
  BY <1>25 DEF WakeSet, Return
<1>26. ASSUME NEW p \in Clients, ScheduleOnClient(p) PROVE FlagInv'
  BY <1>26 DEF ScheduleOnClient
<1>27. ASSUME NEW p \in Clients, Shutdown(p) PROVE FlagInv'
  BY <1>27 DEF Shutdown
<1>28. ASSUME NEW p \in Clients, ShutdownScan(p) PROVE FlagInv'
  BY <1>28 DEF ShutdownScan
<1>29. ASSUME NEW p \in Clients, ShutdownSet(p) PROVE FlagInv'
  BY <1>29 DEF ShutdownSet
<1>30. ASSUME NEW p \in Clients, Join(p) PROVE FlagInv'
  BY <1>30 DEF Join
<1>31. ASSUME UNCHANGED vars PROVE FlagInv'
  BY <1>31 DEF vars
<1> QED
  BY <1>1, <1>2, <1>3, <1>4, <1>5, <1>6, <1>6a, <1>7, <1>8, <1>9, <1>10, <1>11,
      <1>12, <1>13, <1>14, <1>15, <1>16, <1>17, <1>18, <1>19, <1>20, <1>21,
      <1>22, <1>23, <1>24, <1>25, <1>26, <1>27, <1>28, <1>29, <1>30, <1>31 DEF
      Next, Worker, Client, WakeThreads

\* CountSleeper is the last step that can make all workers settled, and it
\* leaves the count above zero if that does not wrap around.  WakeClaim may take
\* the count back to zero, and then begins a scan over all flags; the scan
\* stands at a worker until it takes a flag or meets one that is taken.
LEMMA CountStep ==
    ASSUME PoolInv, CountFits, [Next]_vars
    PROVE  CountInv'
<1> USE ThreadKinds DEF
       Goto, Set, queues, sleepers, locals, PoolInv, PoolTypes, CountInv,
       Settled
<1>1. ASSUME NEW i \in Workers, PopLocal(i) PROVE CountInv'
  BY <1>1 DEF PopLocal
<1>2. ASSUME NEW i \in Workers, PopGlobal(i) PROVE CountInv'
  BY <1>2 DEF PopGlobal, Found
<1>3. ASSUME NEW i \in Workers, Steal(i) PROVE CountInv'
  BY <1>3 DEF Steal, Found, NotFound
<1>4. ASSUME NEW i \in Workers, FinishOp(i) PROVE CountInv'
  BY <1>4 DEF FinishOp
<1>5. ASSUME NEW i \in Workers, SpinStop(i) PROVE CountInv'
  BY <1>5 DEF SpinStop
<1>6. ASSUME NEW i \in Workers, SpinEnd(i) PROVE CountInv'
  BY <1>6 DEF SpinEnd
<1>6a. ASSUME NEW i \in Workers, SpinAgain(i) PROVE CountInv'
  BY <1>6a DEF SpinAgain
<1>7. ASSUME NEW i \in Workers, MarkAsleep(i) PROVE CountInv'
  BY <1>7 DEF MarkAsleep
<1>8. ASSUME NEW i \in Workers, CountSleeper(i) PROVE CountInv'
  BY <1>8, PoolAssumption DEF CountSleeper, CountFits
<1>9. ASSUME NEW i \in Workers, CheckGlobal(i) PROVE CountInv'
  BY <1>9 DEF CheckGlobal
<1>10. ASSUME NEW i \in Workers, PushBack(i) PROVE CountInv'
  BY <1>10 DEF PushBack
<1>11. ASSUME NEW i \in Workers, CheckOthers(i) PROVE CountInv'
  BY <1>11 DEF CheckOthers
<1>12. ASSUME NEW i \in Workers, StopCheck(i) PROVE CountInv'
  BY <1>12 DEF StopCheck
<1>13. ASSUME NEW i \in Workers, WakeUp(i) PROVE CountInv'
  BY <1>13 DEF WakeUp
<1>14. ASSUME NEW i \in Workers, ClearClaim(i) PROVE CountInv'
  BY <1>14 DEF ClearClaim
<1>15. ASSUME NEW i \in Workers, ClearSelf(i) PROVE CountInv'
  BY <1>15 DEF ClearSelf
<1>16. ASSUME NEW i \in Workers, ClearOthers(i) PROVE CountInv'
  BY <1>16 DEF ClearOthers
<1>17. ASSUME NEW i \in Workers, ClearSet(i) PROVE CountInv'
  BY <1>17 DEF ClearSet
<1>18. ASSUME NEW i \in Workers, SpinLook(i) PROVE CountInv'
  BY <1>18 DEF SpinLook
<1>19. ASSUME NEW i \in Workers, ScheduleOnWorker(i) PROVE CountInv'
  BY <1>19 DEF ScheduleOnWorker
<1>20. ASSUME NEW p \in Threads, WakeHint(p) PROVE CountInv'
  BY <1>20 DEF WakeHint, Return
<1>21. ASSUME NEW p \in Threads, WakeNone(p) PROVE CountInv'
  BY <1>21 DEF WakeNone, Return
<1>22. ASSUME NEW p \in Threads, WakeRetry(p) PROVE CountInv'
  BY <1>22 DEF WakeRetry
<1>23. ASSUME NEW p \in Threads, WakeClaim(p) PROVE CountInv'
  BY <1>23, WorkerNumbers DEF WakeClaim, IndexInv
<1>24. ASSUME NEW p \in Threads, WakeScan(p) PROVE CountInv'
  BY <1>24 DEF WakeScan, Return
<1>25. ASSUME NEW p \in Threads, WakeSet(p) PROVE CountInv'
  BY <1>25 DEF WakeSet, Return
<1>26. ASSUME NEW p \in Clients, ScheduleOnClient(p) PROVE CountInv'
  BY <1>26 DEF ScheduleOnClient
<1>27. ASSUME NEW p \in Clients, Shutdown(p) PROVE CountInv'
  BY <1>27 DEF Shutdown
<1>28. ASSUME NEW p \in Clients, ShutdownScan(p) PROVE CountInv'
  BY <1>28 DEF ShutdownScan
<1>29. ASSUME NEW p \in Clients, ShutdownSet(p) PROVE CountInv'
  BY <1>29 DEF ShutdownSet
<1>30. ASSUME NEW p \in Clients, Join(p) PROVE CountInv'
  BY <1>30 DEF Join
<1>31. ASSUME UNCHANGED vars PROVE CountInv'
  BY <1>31 DEF vars
<1> QED
  BY <1>1, <1>2, <1>3, <1>4, <1>5, <1>6, <1>6a, <1>7, <1>8, <1>9, <1>10, <1>11,
      <1>12, <1>13, <1>14, <1>15, <1>16, <1>17, <1>18, <1>19, <1>20, <1>21,
      <1>22, <1>23, <1>24, <1>25, <1>26, <1>27, <1>28, <1>29, <1>30, <1>31 DEF
      Next, Worker, Client, WakeThreads

\* When the global queue holds an operation and no sleeping thread is left to
\* claim, a thread is about to set an event or a worker is about to look.
LEMMA SomebodyLooks ==
    ASSUME PoolInv, ~stop, globalQ > 0, sleepCount = 0
    PROVE  \/ \E p \in Threads :
                 pc[p] = "wakeSet" \/ (pc[p] = "scan" /\ idx[p] \in Workers)
           \/ \E i \in Workers : WillLook(i)
<1>1. CASE \A i \in Workers : Settled(i) /\ isSleep[i]
  BY <1>1 DEF PoolInv, CountInv
<1>2. ASSUME NEW i \in Workers, ~Settled(i)
      PROVE  WillLook(i)
  BY <1>2, ThreadKinds DEF Settled, WillLook, PoolInv, StopInv
<1>3. ASSUME NEW i \in Workers, Settled(i), ~isSleep[i], ~event[i]
      PROVE  \/ \E p \in Threads : pc[p] = "wakeSet"
             \/ \E j \in Workers : WillLook(j)
  <2>1. PICK q \in Threads :
            pc[q] \in {"wakeSet", "clearSet", "wakeAllSet"} /\ idx[q] = i
    BY <1>3 DEF PoolInv, FlagInv
  <2>2. CASE pc[q] = "clearSet"
    <3>1. q \in Workers
      BY <2>2, ThreadKinds DEF PoolInv, PoolTypes, ClientPCs, WakerPCs
    <3> QED BY <2>2, <3>1 DEF WillLook
  <2>3. CASE pc[q] = "wakeAllSet"
    BY <2>3 DEF PoolInv, StopInv
  <2> QED BY <2>1, <2>2, <2>3
<1>4. \A i \in Workers : event[i] => WillLook(i)
  BY DEF WillLook
<1>5. CASE \E i \in Workers : ~(Settled(i) /\ isSleep[i])
  <2>1. PICK i \in Workers : ~Settled(i) \/ ~isSleep[i]
    BY <1>5
  <2>2. CASE ~Settled(i)
    BY <1>2, <2>2
  <2>3. CASE event[i]
    BY <1>4, <2>3
  <2>4. CASE Settled(i) /\ ~isSleep[i] /\ ~event[i]
    BY <1>3, <2>4
  <2> QED BY <2>1, <2>2, <2>3, <2>4, Zenon
<1> QED BY <1>1, <1>5, Zenon

\* A thread stops looking for workers to wake when the count is zero, when the
\* pool is stopped or when it has set an event.  The first leaves somebody who
\* looks by SomebodyLooks, the second is not a matter of LookInv, the third has
\* the worker it woke.  A worker stops looking when it saw the global queue empty.
LEMMA LookStep ==
    ASSUME PoolInv, [Next]_vars
    PROVE  LookInv'
<1> USE ThreadKinds DEF
       Goto, Set, queues, sleepers, locals, PoolInv, PoolTypes, LookInv,
       WillLook, WakerPCs
<1>1. ASSUME NEW i \in Workers, PopLocal(i) PROVE LookInv'
  BY <1>1 DEF PopLocal
<1>2. ASSUME NEW i \in Workers, PopGlobal(i) PROVE LookInv'
  BY <1>2 DEF PopGlobal, Found
<1>3. ASSUME NEW i \in Workers, Steal(i) PROVE LookInv'
  BY <1>3 DEF Steal, Found, NotFound
<1>4. ASSUME NEW i \in Workers, FinishOp(i) PROVE LookInv'
  BY <1>4 DEF FinishOp
<1>5. ASSUME NEW i \in Workers, SpinStop(i) PROVE LookInv'
  BY <1>5 DEF SpinStop
<1>6. ASSUME NEW i \in Workers, SpinEnd(i) PROVE LookInv'
  BY <1>6 DEF SpinEnd
<1>6a. ASSUME NEW i \in Workers, SpinAgain(i) PROVE LookInv'
  BY <1>6a DEF SpinAgain
<1>7. ASSUME NEW i \in Workers, MarkAsleep(i) PROVE LookInv'
  BY <1>7 DEF MarkAsleep
<1>8. ASSUME NEW i \in Workers, CountSleeper(i) PROVE LookInv'
  BY <1>8 DEF CountSleeper
<1>9. ASSUME NEW i \in Workers, CheckGlobal(i) PROVE LookInv'
  BY <1>9 DEF CheckGlobal
<1>10. ASSUME NEW i \in Workers, PushBack(i) PROVE LookInv'
  BY <1>10 DEF PushBack
<1>11. ASSUME NEW i \in Workers, CheckOthers(i) PROVE LookInv'
  BY <1>11 DEF CheckOthers
<1>12. ASSUME NEW i \in Workers, StopCheck(i) PROVE LookInv'
  BY <1>12 DEF StopCheck
<1>13. ASSUME NEW i \in Workers, WakeUp(i) PROVE LookInv'
  BY <1>13 DEF WakeUp
<1>14. ASSUME NEW i \in Workers, ClearClaim(i) PROVE LookInv'
  BY <1>14 DEF ClearClaim
<1>15. ASSUME NEW i \in Workers, ClearSelf(i) PROVE LookInv'
  BY <1>15 DEF ClearSelf
<1>16. ASSUME NEW i \in Workers, ClearOthers(i) PROVE LookInv'
  BY <1>16 DEF ClearOthers
<1>17. ASSUME NEW i \in Workers, ClearSet(i) PROVE LookInv'
  BY <1>17 DEF ClearSet
<1>18. ASSUME NEW i \in Workers, SpinLook(i) PROVE LookInv'
  BY <1>18 DEF SpinLook
<1>19. ASSUME NEW i \in Workers, ScheduleOnWorker(i) PROVE LookInv'
  BY <1>19 DEF ScheduleOnWorker
<1>20. ASSUME NEW p \in Threads, WakeHint(p) PROVE LookInv'
  <2>1. CASE Min({ApproxTotalWork, sleepCount}) = 0
    <3>1. SUFFICES ASSUME ~stop', globalQ' > 0 PROVE LookInv'
      BY DEF LookInv
    <3>2. ~stop /\ sleepCount = 0 /\ globalQ > 0
      <4> DEFINE n == Min({ApproxTotalWork, sleepCount})
      <4>1. pc[p] = "hint" /\ n = 0 /\ UNCHANGED <<stop, globalQ, sleepCount>>
        BY <1>20, <2>1 DEF WakeHint
      <4>2. ApproxTotalWork \in Nat /\ sleepCount \in Nat /\ (globalQ > 0 => ApproxTotalWork > 0)
        BY WorkIsCounted
      <4>3. n = ApproxTotalWork \/ n = sleepCount
        BY <4>2, MinOfTwo
      <4> QED BY <3>1, <4>1, <4>2, <4>3
    <3>3. /\ pc' = [pc EXCEPT ![p] = Return(p)] /\ event' = event /\ from' = from
          /\ pc[p] # "wakeSet" /\ ~(pc[p] = "scan" /\ idx[p] \in Workers)
      BY <1>20, <2>1, WorkIsCounted DEF WakeHint
    <3>4. \/ \E q \in Threads : pc[q] \in {"scan", "wakeSet"} /\ pc'[q] = pc[q]
          \/ \E i \in Workers : WillLook(i)
      BY <3>2, <3>3, SomebodyLooks DEF PoolInv
    <3>5. ASSUME NEW i \in Workers, WillLook(i)
          PROVE  WillLook(i)'
      BY <3>3, <3>5 DEF Return
    <3> QED BY <3>4, <3>5
  <2>2. CASE Min({ApproxTotalWork, sleepCount}) # 0
    BY <1>20, <2>2 DEF WakeHint, Return
  <2> QED BY <2>1, <2>2
<1>21. ASSUME NEW p \in Threads, WakeNone(p) PROVE LookInv'
  <2>1. SUFFICES ASSUME ~stop', globalQ' > 0 PROVE LookInv'
    BY DEF LookInv
  <2>2. ~stop /\ sleepCount = 0 /\ globalQ > 0
    BY <1>21, <2>1 DEF WakeNone
  <2>3. /\ pc' = [pc EXCEPT ![p] = Return(p)] /\ event' = event /\ from' = from
        /\ pc[p] # "wakeSet" /\ ~(pc[p] = "scan" /\ idx[p] \in Workers)
    BY <1>21, WorkIsCounted DEF WakeNone
  <2>4. \/ \E q \in Threads : pc[q] \in {"scan", "wakeSet"} /\ pc'[q] = pc[q]
        \/ \E i \in Workers : WillLook(i)
    BY <2>2, <2>3, SomebodyLooks DEF PoolInv
  <2>5. ASSUME NEW i \in Workers, WillLook(i)
        PROVE  WillLook(i)'
    BY <2>3, <2>5 DEF Return
  <2> QED BY <2>4, <2>5
<1>22. ASSUME NEW p \in Threads, WakeRetry(p) PROVE LookInv'
  BY <1>22 DEF WakeRetry
<1>23. ASSUME NEW p \in Threads, WakeClaim(p) PROVE LookInv'
  BY <1>23 DEF WakeClaim
<1>24. ASSUME NEW p \in Threads, WakeScan(p) PROVE LookInv'
  <2>1. CASE idx[p] \notin Workers /\ (stop \/ sleepCount = 0)
    <3>1. SUFFICES ASSUME ~stop', globalQ' > 0 PROVE LookInv'
      BY DEF LookInv
    <3>2. ~stop /\ sleepCount = 0 /\ globalQ > 0
      BY <1>24, <2>1, <3>1 DEF WakeScan
    <3>3. /\ pc' = [pc EXCEPT ![p] = Return(p)] /\ event' = event /\ from' = from
          /\ pc[p] # "wakeSet" /\ ~(pc[p] = "scan" /\ idx[p] \in Workers)
      BY <1>24, <2>1, WorkIsCounted DEF WakeScan
    <3>4. \/ \E q \in Threads : pc[q] \in {"scan", "wakeSet"} /\ pc'[q] = pc[q]
          \/ \E i \in Workers : WillLook(i)
      BY <3>2, <3>3, SomebodyLooks DEF PoolInv
    <3>5. ASSUME NEW i \in Workers, WillLook(i)
          PROVE  WillLook(i)'
      BY <3>3, <3>5 DEF Return
    <3> QED BY <3>4, <3>5
  <2>2. CASE idx[p] \notin Workers /\ ~(stop \/ sleepCount = 0)
    BY <1>24, <2>2 DEF WakeScan, Return
  <2>3. CASE idx[p] \in Workers /\ isSleep[idx[p]]
    BY <1>24, <2>3 DEF WakeScan, Return
  <2>4. CASE idx[p] \in Workers /\ ~isSleep[idx[p]]
    BY <1>24, <2>4 DEF WakeScan, Return
  <2> QED BY <2>1, <2>2, <2>3, <2>4
<1>25. ASSUME NEW p \in Threads, WakeSet(p) PROVE LookInv'
  <2>1. CASE woken[p] + 1 >= num[p]
    <3>1. idx[p] \in Workers /\ event' = [event EXCEPT ![idx[p]] = TRUE]
      BY <1>25 DEF WakeSet, IndexInv
    <3>2. \E i \in Workers : event'[i]
      BY <3>1
    <3> QED BY <3>2
  <2>2. CASE ~(woken[p] + 1 >= num[p])
    BY <1>25, <2>2 DEF WakeSet, Return
  <2> QED BY <2>1, <2>2
<1>26. ASSUME NEW p \in Clients, ScheduleOnClient(p) PROVE LookInv'
  BY <1>26 DEF ScheduleOnClient
<1>27. ASSUME NEW p \in Clients, Shutdown(p) PROVE LookInv'
  BY <1>27 DEF Shutdown
<1>28. ASSUME NEW p \in Clients, ShutdownScan(p) PROVE LookInv'
  BY <1>28 DEF ShutdownScan
<1>29. ASSUME NEW p \in Clients, ShutdownSet(p) PROVE LookInv'
  BY <1>29 DEF ShutdownSet
<1>30. ASSUME NEW p \in Clients, Join(p) PROVE LookInv'
  BY <1>30 DEF Join
<1>31. ASSUME UNCHANGED vars PROVE LookInv'
  BY <1>31 DEF vars
<1> QED
  BY <1>1, <1>2, <1>3, <1>4, <1>5, <1>6, <1>6a, <1>7, <1>8, <1>9, <1>10, <1>11,
      <1>12, <1>13, <1>14, <1>15, <1>16, <1>17, <1>18, <1>19, <1>20, <1>21,
      <1>22, <1>23, <1>24, <1>25, <1>26, <1>27, <1>28, <1>29, <1>30, <1>31 DEF
      Next, Worker, Client, WakeThreads

\* The pool starts with its workers looking for work and nothing queued.
LEMMA InitPool == Init => PoolInv
<1> SUFFICES ASSUME Init PROVE PoolInv
  OBVIOUS
<1> USE ThreadKinds, WorkerNumbers DEF Init
<1>1. PoolTypes
  BY DEF PoolTypes, WakerPCs, WorkerPCs, ClientPCs
<1>2. IndexInv /\ LocalInv /\ StopInv
  BY DEF IndexInv, LocalInv, StopInv, WorkQueued, LocalWork, WakerPCs
<1>3. FlagInv /\ CountInv /\ LookInv
  BY DEF FlagInv, CountInv, LookInv, Settled
<1> QED BY <1>1, <1>2, <1>3 DEF PoolInv

\* PoolInv is inductive while the count has room.
LEMMA StepPool == PoolInv /\ CountFits /\ [Next]_vars => PoolInv'
BY TypesStep, IndexStep, LocalStep, StopStep, FlagStep, CountStep, LookStep
    DEF PoolInv

\* The pool never sleeps on queued work, for any number of workers, of other
\* threads and of operations, as long as the count of sleeping threads does not
\* wrap around.
THEOREM SleepSafety == Spec /\ []CountFits => []NoSleepOnWork
BY InitPool, StepPool, PoolSleepsRight, PTL DEF Spec

=============================================================================
