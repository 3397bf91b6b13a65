---------------------------- MODULE ThreadPool ----------------------------
(***************************************************************************)
(* How the workers of coro::thread_pool find work, go to sleep and are     *)
(* woken.  A worker looks in its own queue, in the global queue and in the *)
(* other workers' queues; when it finds nothing it spins, announces that   *)
(* it will sleep (its flag m_is_sleep, then the count of sleeping threads),*)
(* looks once more and waits for its wake-up event.  Whoever schedules an  *)
(* operation enqueues it, claims sleeping threads by lowering the count,   *)
(* and then looks for flagged threads to wake.                             *)
(*                                                                         *)
(* An action is one atomic operation, with two abstractions.  A queue is   *)
(* the number of operations in it (module WorkStealingDeque justifies that *)
(* for the local ones; the global one is boost's).  approx_total_work()    *)
(* and approx_has_queued_work(), whose answers are hints, read all queues  *)
(* in one step; the scan that decides whether to sleep does not.           *)
(***************************************************************************)
EXTENDS Integers, FiniteSets, FiniteSetsExt

CONSTANTS
    N,           \* m_thread_count
    Clients,     \* threads outside the pool that schedule operations
    MaxOps,      \* bound: operations scheduled in a behaviour
    W            \* values of m_sleep_thread_count, 2^32 in the code

Workers == 1..N
Threads == Workers \cup Clients

ASSUME PoolAssumption ==
    /\ N \in Nat \ {0} /\ MaxOps \in Nat
    /\ W \in Nat /\ W > N
    /\ Workers \cap Clients = {}

VARIABLES
    stop,        \* m_stop
    globalQ,     \* number of operations in m_global_queue
    localQ,      \* number of operations in each m_local_queue
    isSleep,     \* m_is_sleep of each worker
    event,       \* m_wakeup_event of each worker: is it set?
    sleepCount,  \* m_sleep_thread_count
    pc,          \* where each thread is
    from,        \* what try_get_remote() is called for
    idx,         \* loop variable i of the scan a thread is in
    num,         \* num_to_wake
    woken,       \* woken
    scheduled    \* operations scheduled so far

vars == <<stop, globalQ, localQ, isSleep, event, sleepCount,
          pc, from, idx, num, woken, scheduled>>
queues == <<globalQ, localQ>>
sleepers == <<isSleep, event, sleepCount>>
locals == <<from, idx, num, woken>>

Goto(p, at) == pc' = [pc EXCEPT ![p] = at]
Set(f, p, v) == [f EXCEPT ![p] = v]

Init ==
    /\ stop = FALSE
    /\ globalQ = 0
    /\ localQ = [i \in Workers |-> 0]
    /\ isSleep = [i \in Workers |-> FALSE]
    /\ event = [i \in Workers |-> FALSE]
    /\ sleepCount = 0
    /\ pc = [p \in Threads |-> IF p \in Workers THEN "pop" ELSE "client"]
    /\ from = [i \in Workers |-> "normal"]
    /\ idx = [p \in Threads |-> 1]
    /\ num = [p \in Threads |-> 0]
    /\ woken = [p \in Threads |-> 0]
    /\ scheduled = 0

-----------------------------------------------------------------------------
(* run_worker_thread() *)

\* try_local_pop()
PopLocal(i) ==
    /\ pc[i] = "pop"
    /\ IF localQ[i] > 0
       THEN localQ' = Set(localQ, i, localQ[i] - 1) /\ Goto(i, "run")
       ELSE localQ' = localQ /\ Goto(i, "global")
    /\ from' = Set(from, i, "normal")
    /\ UNCHANGED <<stop, globalQ, sleepers, idx, num, woken, scheduled>>

\* Where a worker goes when try_get_remote() found an operation, or did not; the
\* turn of the spin loop in which it did not may have been the last.
Found(i) == IF from[i] = "intent" THEN "clear" ELSE "run"
NotFound(i) ==
    IF from[i] = "intent" THEN {"stopCheck"}
    ELSE {"spin"} \cup (IF from[i] = "spin" THEN {"announce"} ELSE {})

\* try_global_dequeue()
PopGlobal(i) ==
    /\ pc[i] = "global"
    /\ IF globalQ > 0
       THEN /\ globalQ' = globalQ - 1
            /\ Goto(i, Found(i)) /\ from' = Set(from, i, "normal")
       ELSE globalQ' = globalQ /\ Goto(i, "steal") /\ UNCHANGED from
    /\ UNCHANGED <<stop, localQ, sleepers, idx, num, woken, scheduled>>

\* try_steal(): the other workers, one after the other.
Steal(i) ==
    LET v == idx[i]
    IN  /\ pc[i] = "steal"
        /\ IF v \notin Workers
           THEN /\ \E at \in NotFound(i) : Goto(i, at)
                /\ from' = Set(from, i, "normal")
                /\ idx' = Set(idx, i, 1) /\ UNCHANGED localQ
           ELSE IF v # i /\ localQ[v] > 0
           THEN /\ localQ' = Set(localQ, v, localQ[v] - 1)
                /\ Goto(i, Found(i)) /\ from' = Set(from, i, "normal")
                /\ idx' = Set(idx, i, 1)
           ELSE idx' = Set(idx, i, v + 1) /\ UNCHANGED <<pc, localQ, from>>
        /\ UNCHANGED <<stop, globalQ, sleepers, num, woken, scheduled>>

\* The resumed coroutine returns to the worker.
FinishOp(i) ==
    /\ pc[i] = "run"
    /\ Goto(i, "pop")
    /\ UNCHANGED <<stop, queues, sleepers, locals, scheduled>>

SomeRemoteWork(i) == globalQ > 0 \/ \E j \in Workers \ {i} : localQ[j] > 0

\* A turn of the spin loop begins with a look at m_stop.
SpinStop(i) ==
    /\ pc[i] = "spin"
    /\ Goto(i, IF stop THEN "exited" ELSE "look")
    /\ UNCHANGED <<stop, queues, sleepers, locals, scheduled>>

\* It sees work and tries to get it.
SpinLook(i) ==
    /\ pc[i] = "look"
    /\ SomeRemoteWork(i)
    /\ Goto(i, "global")
    /\ from' = Set(from, i, "spin")
    /\ UNCHANGED <<stop, queues, sleepers, idx, num, woken, scheduled>>

\* It sees nothing; the next turn is of interest when m_stop has changed.
SpinAgain(i) ==
    /\ pc[i] = "look"
    /\ stop
    /\ Goto(i, "spin")
    /\ UNCHANGED <<stop, queues, sleepers, locals, scheduled>>

\* It was the last turn, whatever m_stop is by now.
SpinEnd(i) ==
    /\ pc[i] = "look"
    /\ Goto(i, "announce")
    /\ UNCHANGED <<stop, queues, sleepers, locals, scheduled>>

\* The first half of notify_intent_to_sleep().
MarkAsleep(i) ==
    /\ pc[i] = "announce"
    /\ isSleep' = Set(isSleep, i, TRUE)
    /\ Goto(i, "count")
    /\ UNCHANGED <<stop, queues, event, sleepCount, locals, scheduled>>

\* Mutant: no second look at the queues.
CountSleeper_NoRecheck(i) ==
    /\ pc[i] = "count"
    /\ sleepCount' = (sleepCount + 1) % W
    /\ Goto(i, "stopCheck")
    /\ UNCHANGED <<stop, queues, isSleep, event, locals, scheduled>>

\* The second half: the sleeping thread is counted.
CountSleeper(i) ==
    /\ pc[i] = "count"
    /\ sleepCount' = (sleepCount + 1) % W
    /\ Goto(i, "checkGlobal")
    /\ UNCHANGED <<stop, queues, isSleep, event, locals, scheduled>>

\* has_queued_work() pops an operation of the global queue to see if it can.
CheckGlobal(i) ==
    /\ pc[i] = "checkGlobal"
    /\ IF globalQ > 0
       THEN globalQ' = globalQ - 1 /\ Goto(i, "pushBack")
       ELSE globalQ' = globalQ /\ Goto(i, "checkOthers")
    /\ UNCHANGED <<stop, localQ, sleepers, locals, scheduled>>

\* has_queued_work() pushes it again.
PushBack(i) ==
    /\ pc[i] = "pushBack"
    /\ globalQ' = globalQ + 1
    /\ Goto(i, "global")
    /\ from' = Set(from, i, "intent")
    /\ UNCHANGED <<stop, localQ, sleepers, idx, num, woken, scheduled>>

\* has_queued_work() of the other workers, one after the other.
CheckOthers(i) ==
    LET v == idx[i]
    IN  /\ pc[i] = "checkOthers"
        /\ IF v \notin Workers
           THEN Goto(i, "stopCheck") /\ idx' = Set(idx, i, 1) /\ UNCHANGED from
           ELSE IF v # i /\ localQ[v] > 0
           THEN /\ from' = Set(from, i, "intent")
                /\ idx' = Set(idx, i, 1) /\ Goto(i, "global")
           ELSE idx' = Set(idx, i, v + 1) /\ UNCHANGED <<pc, from>>
        /\ UNCHANGED <<stop, queues, sleepers, num, woken, scheduled>>

\* Mutant: no look at m_stop after the announcement.
StopCheck_Skip(i) ==
    /\ pc[i] = "stopCheck"
    /\ Goto(i, "asleep")
    /\ UNCHANGED <<stop, queues, sleepers, locals, scheduled>>

\* The last look at m_stop before sleeping.
StopCheck(i) ==
    /\ pc[i] = "stopCheck"
    /\ Goto(i, IF stop THEN "exited" ELSE "asleep")
    /\ UNCHANGED <<stop, queues, sleepers, locals, scheduled>>

\* sleep_until_woken() returns and the worker spins again.
WakeUp(i) ==
    /\ pc[i] = "asleep"
    /\ event[i]
    /\ event' = Set(event, i, FALSE)
    /\ Goto(i, "spin")
    /\ UNCHANGED <<stop, queues, isSleep, sleepCount, locals, scheduled>>

-----------------------------------------------------------------------------
(* try_clear_intent_to_sleep(): the worker found an operation after all. *)

\* A claim on one sleeping thread, if the count still has one.
ClearClaim(i) ==
    /\ pc[i] = "clear"
    /\ IF sleepCount = 0
       THEN sleepCount' = 0 /\ Goto(i, "run")
       ELSE sleepCount' = sleepCount - 1 /\ Goto(i, "clearSelf")
    /\ UNCHANGED <<stop, queues, isSleep, event, locals, scheduled>>

\* Preferably it wakes itself.
ClearSelf(i) ==
    /\ pc[i] = "clearSelf"
    /\ IF isSleep[i]
       THEN /\ isSleep' = Set(isSleep, i, FALSE)
            /\ idx' = Set(idx, i, i) /\ Goto(i, "clearSet")
       ELSE /\ isSleep' = isSleep
            /\ idx' = idx /\ Goto(i, "clearOthers")
    /\ UNCHANGED <<stop, queues, event, sleepCount, from, num, woken, scheduled>>

\* Somebody woke it already: it wakes another thread instead.
ClearOthers(i) ==
    LET v == idx[i]
    IN  /\ pc[i] = "clearOthers"
        /\ IF v \notin Workers
           THEN Goto(i, "run") /\ idx' = Set(idx, i, 1) /\ UNCHANGED isSleep
           ELSE IF v # i /\ isSleep[v]
           THEN isSleep' = Set(isSleep, v, FALSE) /\ Goto(i, "clearSet") /\ UNCHANGED idx
           ELSE idx' = Set(idx, i, v + 1) /\ UNCHANGED <<pc, isSleep>>
        /\ UNCHANGED <<stop, queues, event, sleepCount, from, num, woken, scheduled>>

\* m_wakeup_event.set() of the thread whose flag was taken.
ClearSet(i) ==
    /\ pc[i] = "clearSet"
    /\ event' = Set(event, idx[i], TRUE)
    /\ idx' = Set(idx, i, 1)
    /\ Goto(i, "run")
    /\ UNCHANGED <<stop, queues, isSleep, sleepCount, from, num, woken, scheduled>>

-----------------------------------------------------------------------------
(* schedule_impl() and wake_threads() *)

\* Where a thread continues after schedule_impl().
Return(p) == IF p \in Workers THEN "run" ELSE "client"

\* schedule() in a coroutine on a worker, which m_stop does not keep from it:
\* try_local_enqueue(), or the global queue when the local one cannot take it (a
\* free choice here).
ScheduleOnWorker(i) ==
    /\ pc[i] = "run"
    /\ scheduled < MaxOps
    /\ scheduled' = scheduled + 1
    /\ \/ localQ' = Set(localQ, i, localQ[i] + 1) /\ UNCHANGED globalQ
       \/ globalQ' = globalQ + 1 /\ UNCHANGED localQ
    /\ Goto(i, "hint")
    /\ UNCHANGED <<stop, sleepers, locals>>

\* schedule() on another thread, which may not use a pool that is being destroyed.
ScheduleOnClient(p) ==
    /\ pc[p] = "client"
    /\ ~stop
    /\ scheduled < MaxOps
    /\ scheduled' = scheduled + 1
    /\ globalQ' = globalQ + 1
    /\ Goto(p, "hint")
    /\ UNCHANGED <<stop, localQ, sleepers, locals>>

ApproxTotalWork ==
    Cardinality({i \in Workers : localQ[i] > 0}) + (IF globalQ > 0 THEN 1 ELSE 0)

\* How many threads to wake: no more than queues with work, nor than sleepers.
WakeHint(p) ==
    LET n == Min({ApproxTotalWork, sleepCount})
    IN  /\ pc[p] = "hint"
        /\ IF n = 0
           THEN Goto(p, Return(p)) /\ UNCHANGED num
           ELSE Goto(p, "claim") /\ num' = Set(num, p, n)
        /\ UNCHANGED <<stop, queues, sleepers, from, idx, woken, scheduled>>

\* wake_threads() sees no sleeping thread to claim.
WakeNone(p) ==
    /\ pc[p] = "claim"
    /\ sleepCount = 0
    /\ num' = Set(num, p, 0)
    /\ Goto(p, Return(p))
    /\ UNCHANGED <<stop, queues, sleepers, from, idx, woken, scheduled>>

\* A turn of the loop whose compare-exchange fails still lowers num_to_wake.
WakeRetry(p) ==
    /\ pc[p] = "claim"
    /\ sleepCount > 0
    /\ sleepCount < num[p]
    /\ num' = Set(num, p, sleepCount)
    /\ UNCHANGED <<stop, queues, sleepers, pc, from, idx, woken, scheduled>>

\* The compare-exchange claims sleeping threads.
WakeClaim(p) ==
    LET n == Min({num[p], sleepCount})
    IN  /\ pc[p] = "claim"
        /\ sleepCount > 0
        /\ sleepCount' = sleepCount - n
        /\ num' = Set(num, p, n)
        /\ woken' = Set(woken, p, 0)
        /\ Goto(p, "scan")
        /\ UNCHANGED <<stop, queues, isSleep, event, from, idx, scheduled>>

\* try_wakeup() of one worker after the other; at the end of a round the
\* search goes on unless the pool stops or the count has become zero.
WakeScan(p) ==
    LET v == idx[p]
    IN  /\ pc[p] = "scan"
        /\ IF v \notin Workers
           THEN /\ idx' = Set(idx, p, 1)
                /\ IF stop \/ sleepCount = 0
                   THEN Goto(p, Return(p)) /\ num' = Set(num, p, 0)
                        /\ woken' = Set(woken, p, 0)
                   ELSE UNCHANGED <<pc, num, woken>>
                /\ UNCHANGED isSleep
           ELSE IF isSleep[v]
           THEN isSleep' = Set(isSleep, v, FALSE) /\ Goto(p, "wakeSet")
                /\ UNCHANGED <<idx, num, woken>>
           ELSE idx' = Set(idx, p, v + 1) /\ UNCHANGED <<pc, isSleep, num, woken>>
        /\ UNCHANGED <<stop, queues, event, sleepCount, from, scheduled>>

\* Mutant: the flag is taken and the event is not set.
WakeSet_NoEvent(p) ==
    /\ pc[p] = "wakeSet"
    /\ IF woken[p] + 1 >= num[p]
       THEN Goto(p, Return(p)) /\ woken' = Set(woken, p, 0)
            /\ num' = Set(num, p, 0) /\ idx' = Set(idx, p, 1)
       ELSE Goto(p, "scan") /\ woken' = Set(woken, p, woken[p] + 1)
            /\ idx' = Set(idx, p, idx[p] + 1) /\ UNCHANGED num
    /\ UNCHANGED <<stop, queues, sleepers, from, scheduled>>

\* m_wakeup_event.set() of the thread whose flag was taken.
WakeSet(p) ==
    /\ pc[p] = "wakeSet"
    /\ event' = Set(event, idx[p], TRUE)
    /\ IF woken[p] + 1 >= num[p]
       THEN Goto(p, Return(p)) /\ woken' = Set(woken, p, 0)
            /\ num' = Set(num, p, 0) /\ idx' = Set(idx, p, 1)
       ELSE Goto(p, "scan") /\ woken' = Set(woken, p, woken[p] + 1)
            /\ idx' = Set(idx, p, idx[p] + 1) /\ UNCHANGED num
    /\ UNCHANGED <<stop, queues, isSleep, sleepCount, from, scheduled>>

-----------------------------------------------------------------------------
(* shutdown() *)

\* The workers may be anywhere, and operations may be queued.  Only the other
\* threads must have left the pool: no object outlives its destruction.  (An
\* assertion ends a debug build if it meets an operation in a local queue.)
Shutdown(p) ==
    /\ pc[p] = "client"
    /\ ~stop
    /\ \A q \in Clients : pc[q] = "client"
    /\ stop' = TRUE
    /\ Goto(p, "wakeAll")
    /\ UNCHANGED <<queues, sleepers, locals, scheduled>>

\* Every worker gets a try_wakeup(), and then all are joined.
ShutdownScan(p) ==
    LET v == idx[p]
    IN  /\ pc[p] = "wakeAll"
        /\ IF v \notin Workers
           THEN Goto(p, "joining") /\ idx' = Set(idx, p, 1) /\ UNCHANGED isSleep
           ELSE IF isSleep[v]
           THEN isSleep' = Set(isSleep, v, FALSE) /\ Goto(p, "wakeAllSet") /\ UNCHANGED idx
           ELSE idx' = Set(idx, p, v + 1) /\ UNCHANGED <<pc, isSleep>>
        /\ UNCHANGED <<stop, queues, event, sleepCount, from, num, woken, scheduled>>

ShutdownSet(p) ==
    /\ pc[p] = "wakeAllSet"
    /\ event' = Set(event, idx[p], TRUE)
    /\ idx' = Set(idx, p, idx[p] + 1)
    /\ Goto(p, "wakeAll")
    /\ UNCHANGED <<stop, queues, isSleep, sleepCount, from, num, woken, scheduled>>

Join(p) ==
    /\ pc[p] = "joining"
    /\ \A i \in Workers : pc[i] = "exited"
    /\ Goto(p, "joined")
    /\ UNCHANGED <<stop, queues, sleepers, locals, scheduled>>

-----------------------------------------------------------------------------

WakeThreads(p) ==
    WakeHint(p) \/ WakeNone(p) \/ WakeRetry(p) \/ WakeClaim(p) \/ WakeScan(p) \/ WakeSet(p)

\* The steps a worker takes by itself.
Worker(i) ==
    \/ PopLocal(i) \/ PopGlobal(i) \/ Steal(i) \/ FinishOp(i)
    \/ SpinStop(i) \/ SpinAgain(i) \/ SpinEnd(i) \/ MarkAsleep(i) \/ CountSleeper(i)
    \/ CheckGlobal(i) \/ PushBack(i) \/ CheckOthers(i)
    \/ StopCheck(i) \/ WakeUp(i)
    \/ ClearClaim(i) \/ ClearSelf(i) \/ ClearOthers(i) \/ ClearSet(i)
    \/ WakeThreads(i)

Client(p) ==
    WakeThreads(p) \/ ShutdownScan(p) \/ ShutdownSet(p) \/ Join(p)

Next ==
    \/ \E i \in Workers : Worker(i) \/ SpinLook(i) \/ ScheduleOnWorker(i)
    \/ \E p \in Clients : Client(p) \/ ScheduleOnClient(p) \/ Shutdown(p)

\* The operating system runs every thread that can run.
Fairness ==
    /\ \A i \in Workers : WF_vars(Worker(i))
    /\ \A p \in Clients : WF_vars(Client(p))

Spec == Init /\ [][Next]_vars
FairSpec == Spec /\ Fairness

-----------------------------------------------------------------------------

PCs == {"pop", "global", "steal", "run", "spin", "look", "announce", "count", "checkGlobal",
        "pushBack", "checkOthers", "stopCheck", "asleep", "exited",
        "clear", "clearSelf", "clearOthers", "clearSet",
        "client", "hint", "claim", "scan", "wakeSet",
        "wakeAll", "wakeAllSet", "joining", "joined"}

\* Types of the state.
TypeOK ==
    /\ stop \in BOOLEAN
    /\ globalQ \in 0..MaxOps
    /\ localQ \in [Workers -> 0..MaxOps]
    /\ isSleep \in [Workers -> BOOLEAN]
    /\ event \in [Workers -> BOOLEAN]
    /\ sleepCount \in 0..W - 1
    /\ pc \in [Threads -> PCs]
    /\ from \in [Workers -> {"normal", "spin", "intent"}]
    /\ idx \in [Threads -> 1..N + 1]
    /\ num \in [Threads -> 0..W - 1]
    /\ woken \in [Threads -> 0..N]
    /\ scheduled \in 0..MaxOps

LocalWork == \E i \in Workers : localQ[i] > 0
WorkQueued == globalQ > 0 \/ LocalWork

Blocked(i) == pc[i] = "asleep" /\ ~event[i]

\* The whole pool never sleeps on queued work: if every worker is blocked and
\* an operation is queued, the thread that scheduled it is still at waking one.
\* A worker that stops instead of sleeping does not count as blocked.
NoSleepOnWork ==
    (WorkQueued /\ \A i \in Workers : Blocked(i)) =>
        \E p \in Threads : pc[p] \in {"hint", "claim", "scan", "wakeSet"}

\* More threads counted as sleeping than are flagged: the count is wrong, or
\* a flag was taken just before its thread was counted.
Overcounted == sleepCount > Cardinality({i \in Workers : isSleep[i]})

\* Queued operations are run in the end, unless the count of sleeping threads
\* stays too high for good, which makes a thread in wake_threads() search for
\* ever.  shutdown() may leave operations behind in the global queue, and none in
\* a local one, those included that coroutines schedule while it runs.
OpsRunUnlessMiscounted ==
    [](WorkQueued => <>(~WorkQueued \/ (stop /\ ~LocalWork) \/ []Overcounted))

\* Queued operations are run in the end while the pool lives: what schedule_impl()
\* promises, to enqueue the operation and wake threads to process it.
EveryOpRuns == WorkQueued ~> (~WorkQueued \/ stop)

\* shutdown() terminates every worker, whatever it was doing when m_stop was set:
\* resuming a coroutine that schedules others, waking threads or being woken,
\* looking for work, or anywhere on its way to sleep.  So join() ends.
ShutdownJoins == stop ~> \A i \in Workers : pc[i] = "exited"

=============================================================================
