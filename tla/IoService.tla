------------------------------ MODULE IoService ------------------------------
(***************************************************************************)
(* coro::io_service and the message_queue below it, for what schedule()    *)
(* and stop() do.  A coroutine submits a NOP message; a worker of the      *)
(* message queue moves it from the submission to the completion queue; an  *)
(* I/O thread in an event loop takes it from there and resumes the         *)
(* coroutine.  Operations that the submission queue does not take wait in  *)
(* an overflow list for the next turn of an event loop.                    *)
(*                                                                         *)
(* The two lock-free queues are boost's, which grow as they need to: their *)
(* push() does not fail.  The code is written for queues that may be full, *)
(* and so is the model: they hold Capacity messages, and the queues in use *)
(* are those of any Capacity that is never reached.  An action is one      *)
(* atomic operation, or one operation on a queue, a mutex or the condition *)
(* variable.  Messages other than NOP, and the kqueue, are not modelled:   *)
(* a worker that finds nothing to submit looks again.                      *)
(***************************************************************************)
EXTENDS Integers, Sequences, FiniteSets, SequencesExt

CONSTANTS
    Coroutines,    \* coroutines that co_await schedule()
    IoThreads,     \* threads that call process_events() and its siblings
    QWorkers,      \* m_worker_threads of the message queue
    None,
    Capacity,      \* what a queue holds; no push() fails if it is not reached
    Calls,         \* which of the four calls the I/O threads make, see Enter
    MaxSchedules,  \* bound: schedule() calls of one coroutine
    MaxStops,      \* bound: calls of stop()
    MaxResets      \* bound: calls of reset()

ASSUME IoServiceAssumption ==
    /\ None \notin Coroutines \cup IoThreads
    /\ IsFiniteSet(IoThreads) /\ IsFiniteSet(QWorkers)
    /\ Capacity \in Nat \ {0}
    /\ Calls \subseteq [wait : BOOLEAN, once : BOOLEAN]
    /\ MaxSchedules \in Nat /\ MaxStops \in Nat /\ MaxResets \in Nat

VARIABLES
    stopRequested, \* stop_requested_flag of m_thread_state
    active,        \* number of threads in m_thread_state
    overflow,      \* m_schedule_operations, head first
    sq,            \* m_submission_queue
    cq,            \* m_completion_queue
    queueStop,     \* m_stop of the message queue
    mutex,         \* who holds m_cqe_mutex
    qWorker,       \* where each worker is
    carried,       \* the message in event_set() or enqueue() of each worker
    loop,          \* where each I/O thread is
    call,          \* which call an I/O thread is in
    mine,          \* the overflow operations an I/O thread has taken
    dequeued,      \* the message an I/O thread has dequeued
    coPc,          \* where each coroutine is
    host,          \* the I/O thread that runs a coroutine, None if not in a loop
    stopper,       \* where the thread that calls stop() and reset() is
    schedules, stops, resets

serviceVars == <<stopRequested, active, overflow, sq, cq, queueStop, mutex,
                 qWorker, carried, loop, call, mine, dequeued, coPc, host,
                 stopper, schedules, stops, resets>>
state == <<stopRequested, active>>
queues == <<sq, cq>>
workers == <<qWorker, carried>>
loops == <<loop, call, mine, dequeued>>
cos == <<coPc, host, schedules>>
control == <<stopper, stops, resets>>

Set(f, x, v) == [f EXCEPT ![x] = v]

ServiceInit ==
    /\ stopRequested = FALSE /\ active = 0
    /\ overflow = <<>> /\ sq = <<>> /\ cq = <<>>
    /\ queueStop = FALSE /\ mutex = None
    /\ qWorker = [w \in QWorkers |-> "check"]
    /\ carried = [w \in QWorkers |-> None]
    /\ loop = [t \in IoThreads |-> "out"]
    /\ call = [t \in IoThreads |-> None]
    /\ mine = [t \in IoThreads |-> <<>>]
    /\ dequeued = [t \in IoThreads |-> None]
    /\ coPc = [c \in Coroutines |-> "running"]
    /\ host = [c \in Coroutines |-> None]
    /\ stopper = "idle"
    /\ schedules = [c \in Coroutines |-> 0]
    /\ stops = 0 /\ resets = 0

-----------------------------------------------------------------------------
(* Coroutines: schedule() and schedule_impl() *)

\* The coroutine is suspended, and may be resumed elsewhere, as soon as its
\* message is in the submission queue.
Schedule(c) ==
    /\ coPc[c] = "running"
    /\ schedules[c] < MaxSchedules
    /\ schedules' = Set(schedules, c, schedules[c] + 1)
    /\ IF Len(sq) < Capacity
       THEN /\ sq' = Append(sq, c)
            /\ coPc' = Set(coPc, c, "suspended")
            /\ host' = Set(host, c, None)
       ELSE /\ coPc' = Set(coPc, c, "overflowing")
            /\ UNCHANGED <<sq, host>>
    /\ UNCHANGED <<state, overflow, cq, queueStop, mutex, workers,
                   loops, control>>

AddOverflow(c) ==
    /\ coPc[c] = "overflowing"
    /\ overflow' = <<c>> \o overflow
    /\ coPc' = Set(coPc, c, "suspended")
    /\ host' = Set(host, c, None)
    /\ UNCHANGED <<state, queues, queueStop, mutex, workers, loops, control,
                   schedules>>

FinishCoroutine(c) ==
    /\ coPc[c] = "running"
    /\ coPc' = Set(coPc, c, "done")
    /\ host' = Set(host, c, None)
    /\ UNCHANGED <<state, overflow, queues, queueStop, mutex, workers, loops,
                   control, schedules>>

-----------------------------------------------------------------------------
(* Workers of the message queue: worker_thread_func() *)

CheckStop(w) ==
    /\ qWorker[w] = "check"
    /\ qWorker' = Set(qWorker, w, IF queueStop THEN "drain" ELSE "submit")
    /\ UNCHANGED <<state, overflow, queues, queueStop, mutex, carried, loops,
                   cos, control>>

\* Mutant: what is left when the queue is stopped is thrown away.
PopSubmission_Discard(w) ==
    /\ qWorker[w] \in {"submit", "drain"}
    /\ sq' = IF sq # <<>> THEN Tail(sq) ELSE sq
    /\ IF qWorker[w] = "submit" /\ sq # <<>>
       THEN carried' = Set(carried, w, Head(sq)) /\ qWorker' = Set(qWorker, w, "push")
       ELSE /\ UNCHANGED carried
            /\ qWorker' = Set(qWorker, w, IF qWorker[w] = "submit" THEN "check"
                                          ELSE IF sq = <<>> THEN "exited" ELSE "drain")
    /\ UNCHANGED <<state, overflow, cq, queueStop, mutex, loops, cos, control>>

\* event_set() of a NOP message passes it to enqueue().  What is left when
\* the queue is stopped is drained the same way.
PopSubmission(w) ==
    /\ qWorker[w] \in {"submit", "drain"}
    /\ IF sq # <<>>
       THEN /\ sq' = Tail(sq)
            /\ carried' = Set(carried, w, Head(sq))
            /\ qWorker' = Set(qWorker, w,
                              IF qWorker[w] = "drain" THEN "drainPush" ELSE "push")
       ELSE /\ qWorker' = Set(qWorker, w, IF qWorker[w] = "drain" THEN "exited" ELSE "check")
            /\ UNCHANGED <<sq, carried>>
    /\ UNCHANGED <<state, overflow, cq, queueStop, mutex, loops, cos, control>>

\* enqueue() tries again until the completion queue takes the message.
PushCompletion(w) ==
    /\ qWorker[w] \in {"push", "drainPush"}
    /\ Len(cq) < Capacity
    /\ cq' = Append(cq, carried[w])
    /\ carried' = Set(carried, w, None)
    /\ qWorker' = Set(qWorker, w, IF qWorker[w] = "push" THEN "notify" ELSE "drainNotify")
    /\ UNCHANGED <<state, overflow, sq, queueStop, mutex, loops, cos, control>>

Asleep == {t \in IoThreads : loop[t] = "asleep"}

\* Mutant: the notification does not wait for the mutex.
NotifyOne_NoLock(w) ==
    /\ qWorker[w] \in {"notify", "drainNotify"}
    /\ IF Asleep = {} THEN UNCHANGED loop
       ELSE \E t \in Asleep : loop' = Set(loop, t, "lock")
    /\ qWorker' = Set(qWorker, w, IF qWorker[w] = "notify" THEN "submit" ELSE "drain")
    /\ UNCHANGED <<state, overflow, queues, queueStop, mutex, carried, call,
                   mine, dequeued, cos, control>>

\* notify_one() with m_cqe_mutex held.
NotifyOne(w) ==
    /\ qWorker[w] \in {"notify", "drainNotify"}
    /\ mutex = None
    /\ IF Asleep = {} THEN UNCHANGED loop
       ELSE \E t \in Asleep : loop' = Set(loop, t, "lock")
    /\ qWorker' = Set(qWorker, w, IF qWorker[w] = "notify" THEN "submit" ELSE "drain")
    /\ UNCHANGED <<state, overflow, queues, queueStop, mutex, carried, call,
                   mine, dequeued, cos, control>>

-----------------------------------------------------------------------------
(* I/O threads: the event loops *)

TryEnterEventLoop ==
    /\ ~stopRequested
    /\ active' = active + 1
    /\ UNCHANGED stopRequested

\* An I/O thread enters one of process_events() [wait, not once],
\* process_pending_events() [neither], process_one_event() [both] and
\* process_one_pending_event() [once].
Enter(t) ==
    /\ loop[t] = "out"
    /\ TryEnterEventLoop
    /\ \E k \in Calls : call' = Set(call, t, k)
    /\ loop' = Set(loop, t, "top")
    /\ UNCHANGED <<overflow, queues, queueStop, mutex, workers, mine, dequeued,
                   cos, control>>

\* try_process_one_event() begins.
Top(t) ==
    /\ loop[t] = "top"
    /\ loop' = Set(loop, t, IF stopRequested THEN "leave" ELSE "overflow")
    /\ UNCHANGED <<state, overflow, queues, queueStop, mutex, workers, call,
                   mine, dequeued, cos, control>>

Dequeue(t) == IF call[t].wait THEN "lock" ELSE "peek"

\* try_reschedule_overflow_operations() takes the list,
TakeOverflow(t) ==
    /\ loop[t] = "overflow"
    /\ overflow' = <<>>
    /\ mine' = Set(mine, t, overflow)
    /\ loop' = Set(loop, t, IF overflow = <<>> THEN Dequeue(t) ELSE "resubmit")
    /\ UNCHANGED <<state, queues, queueStop, mutex, workers, call, dequeued, cos, control>>

\* submits one operation after the other,
Resubmit(t) ==
    /\ loop[t] = "resubmit"
    /\ IF Len(sq) < Capacity
       THEN /\ sq' = Append(sq, Head(mine[t]))
            /\ mine' = Set(mine, t, Tail(mine[t]))
            /\ loop' = Set(loop, t, IF Len(mine[t]) = 1 THEN Dequeue(t) ELSE "resubmit")
       ELSE loop' = Set(loop, t, "putBack") /\ UNCHANGED <<sq, mine>>
    /\ UNCHANGED <<state, overflow, cq, queueStop, mutex, workers, call,
                   dequeued, cos, control>>

\* and puts those back that the queue does not take.
PutBack(t) ==
    /\ loop[t] = "putBack"
    /\ overflow' = mine[t] \o overflow
    /\ mine' = Set(mine, t, <<>>)
    /\ loop' = Set(loop, t, Dequeue(t))
    /\ UNCHANGED <<state, queues, queueStop, mutex, workers, call, dequeued, cos, control>>

PopMessage(t) ==
    IF cq = <<>>
    THEN loop' = Set(loop, t, "leave") /\ UNCHANGED <<cq, dequeued>>
    ELSE /\ cq' = Tail(cq)
         /\ dequeued' = Set(dequeued, t, Head(cq))
         /\ loop' = Set(loop, t, "resume")

\* io_peek_cq()
Peek(t) ==
    /\ loop[t] = "peek"
    /\ PopMessage(t)
    /\ UNCHANGED <<state, overflow, sq, queueStop, mutex, workers, call,
                   mine, cos, control>>

\* io_wait_cq(): the mutex, the predicate of the wait, the wait itself,
Lock(t) ==
    /\ loop[t] = "lock"
    /\ mutex = None
    /\ mutex' = t
    /\ loop' = Set(loop, t, "predicate")
    /\ UNCHANGED <<state, overflow, queues, queueStop, workers, call, mine,
                   dequeued, cos, control>>

Predicate(t) ==
    /\ loop[t] = "predicate"
    /\ loop' = Set(loop, t, IF cq # <<>> \/ queueStop THEN "stopped" ELSE "toSleep")
    /\ UNCHANGED <<state, overflow, queues, queueStop, mutex, workers, call,
                   mine, dequeued, cos, control>>

Sleep(t) ==
    /\ loop[t] = "toSleep"
    /\ mutex' = None
    /\ loop' = Set(loop, t, "asleep")
    /\ UNCHANGED <<state, overflow, queues, queueStop, workers, call, mine,
                   dequeued, cos, control>>

SpuriousWakeUp(t) ==
    /\ loop[t] = "asleep"
    /\ loop' = Set(loop, t, "lock")
    /\ UNCHANGED <<state, overflow, queues, queueStop, mutex, workers, call,
                   mine, dequeued, cos, control>>

\* then the stop flag,
LookAtStop(t) ==
    /\ loop[t] = "stopped"
    /\ IF queueStop
       THEN loop' = Set(loop, t, "leave") /\ mutex' = None
       ELSE loop' = Set(loop, t, "pop") /\ UNCHANGED mutex
    /\ UNCHANGED <<state, overflow, queues, queueStop, workers, call, mine,
                   dequeued, cos, control>>

\* and the message, if nobody that peeks has come first.
PopLocked(t) ==
    /\ loop[t] = "pop"
    /\ PopMessage(t)
    /\ mutex' = None
    /\ UNCHANGED <<state, overflow, sq, queueStop, workers, call, mine,
                   cos, control>>

\* The coroutine runs on this thread until it suspends or ends.
ResumeCoroutine(t) ==
    /\ loop[t] = "resume"
    /\ coPc' = Set(coPc, dequeued[t], "running")
    /\ host' = Set(host, dequeued[t], t)
    /\ loop' = Set(loop, t, "running")
    /\ UNCHANGED <<state, overflow, queues, queueStop, mutex, workers, call,
                   mine, dequeued, schedules, control>>

\* try_process_one_event() ends.
Resumed(t) ==
    /\ loop[t] = "running"
    /\ host[dequeued[t]] # t
    /\ dequeued' = Set(dequeued, t, None)
    /\ loop' = Set(loop, t, IF stopRequested \/ call[t].once THEN "leave" ELSE "top")
    /\ UNCHANGED <<state, overflow, queues, queueStop, mutex, workers, call,
                   mine, cos, control>>

\* exit_event_loop()
Leave(t) ==
    /\ loop[t] = "leave"
    /\ active' = active - 1
    /\ loop' = Set(loop, t, "out")
    /\ call' = Set(call, t, None)
    /\ UNCHANGED <<stopRequested, overflow, queues, queueStop, mutex, workers,
                   mine, dequeued, cos, control>>

-----------------------------------------------------------------------------
(* stop() and reset() *)

RequestStop ==
    /\ stopper = "idle"
    /\ stops < MaxStops
    /\ stops' = stops + 1
    /\ stopRequested' = TRUE
    /\ stopper' = IF stopRequested THEN "idle" ELSE "store"
    /\ UNCHANGED <<active, overflow, queues, queueStop, mutex, workers, loops,
                   cos, resets>>

\* message_queue::stop()
StopQueue ==
    /\ stopper = "store"
    /\ queueStop' = TRUE
    /\ stopper' = "notify"
    /\ UNCHANGED <<state, overflow, queues, mutex, workers, loops, cos, stops, resets>>

NotifyAll ==
    /\ stopper = "notify"
    /\ loop' = [t \in IoThreads |-> IF t \in Asleep THEN "lock" ELSE loop[t]]
    /\ stopper' = "idle"
    /\ UNCHANGED <<state, overflow, queues, queueStop, mutex, workers, call,
                   mine, dequeued, cos, stops, resets>>

\* The assertion in reset() makes it a condition that no thread is in a loop.
Reset ==
    /\ stopper = "idle" /\ stopRequested /\ active = 0
    /\ resets < MaxResets
    /\ resets' = resets + 1
    /\ stopRequested' = FALSE
    /\ UNCHANGED <<active, overflow, queues, queueStop, mutex, workers, loops,
                   cos, stopper, stops>>

-----------------------------------------------------------------------------

Worker(w) == CheckStop(w) \/ PopSubmission(w) \/ PushCompletion(w) \/ NotifyOne(w)

IoThread(t) ==
    \/ Top(t) \/ TakeOverflow(t) \/ Resubmit(t) \/ PutBack(t) \/ Peek(t)
    \/ Lock(t) \/ Predicate(t) \/ Sleep(t) \/ LookAtStop(t) \/ PopLocked(t)
    \/ ResumeCoroutine(t) \/ Resumed(t) \/ Leave(t)

ServiceNext ==
    \/ \E c \in Coroutines : Schedule(c) \/ AddOverflow(c) \/ FinishCoroutine(c)
    \/ \E w \in QWorkers : Worker(w)
    \/ \E t \in IoThreads : IoThread(t) \/ Enter(t) \/ SpuriousWakeUp(t)
    \/ RequestStop \/ StopQueue \/ NotifyAll \/ Reset

ServiceSpec == ServiceInit /\ [][ServiceNext]_serviceVars

\* Every thread that can run does.  The mutex is handed to each thread that
\* keeps asking for it, a coroutine goes on until it suspends or ends, and
\* I/O threads call an event loop again as long as nobody has called stop().
ServiceFairSpec ==
    /\ ServiceSpec
    /\ \A c \in Coroutines :
          WF_serviceVars(Schedule(c) \/ AddOverflow(c) \/ FinishCoroutine(c))
    /\ \A w \in QWorkers : WF_serviceVars(Worker(w)) /\ SF_serviceVars(NotifyOne(w))
    /\ \A w \in QWorkers : SF_serviceVars(PushCompletion(w))
    /\ \A t \in IoThreads :
          WF_serviceVars(IoThread(t)) /\ WF_serviceVars(Enter(t)) /\ SF_serviceVars(Lock(t))
    /\ WF_serviceVars(StopQueue) /\ WF_serviceVars(NotifyAll)

-----------------------------------------------------------------------------

\* Types of the state.
TypeOK ==
    /\ stopRequested \in BOOLEAN /\ queueStop \in BOOLEAN
    /\ active \in 0..Cardinality(IoThreads)
    /\ overflow \in Seq(Coroutines) /\ sq \in Seq(Coroutines)
    /\ cq \in Seq(Coroutines)
    /\ Len(sq) <= Capacity /\ Len(cq) <= Capacity
    /\ mutex \in IoThreads \cup {None}
    /\ qWorker \in [QWorkers -> {"check", "submit", "push", "notify", "drain",
                               "drainPush", "drainNotify", "exited"}]
    /\ carried \in [QWorkers -> Coroutines \cup {None}]
    /\ loop \in [IoThreads -> {"out", "top", "overflow", "resubmit", "putBack",
                               "peek", "lock", "predicate", "toSleep", "asleep",
                               "stopped", "pop", "resume", "running", "leave"}]
    /\ call \in [IoThreads -> Calls \cup {None}]
    /\ mine \in [IoThreads -> Seq(Coroutines)]
    /\ dequeued \in [IoThreads -> Coroutines \cup {None}]
    /\ coPc \in [Coroutines -> {"running", "overflowing", "suspended", "done"}]
    /\ host \in [Coroutines -> IoThreads \cup {None}]
    /\ stopper \in {"idle", "store", "notify"}

\* Everywhere a suspended coroutine can be on its way to its resumption.
Places(c) ==
    {<<"overflow", i>> : i \in {j \in DOMAIN overflow : overflow[j] = c}}
    \cup {<<"submission", i>> : i \in {j \in DOMAIN sq : sq[j] = c}}
    \cup {<<"completion", i>> : i \in {j \in DOMAIN cq : cq[j] = c}}
    \cup {<<"worker", w>> : w \in {v \in QWorkers : carried[v] = c}}
    \cup (UNION {{<<t, i>> : i \in {j \in DOMAIN mine[t] : mine[t][j] = c}} : t \in IoThreads})
    \cup {<<"message", t>> : t \in {s \in IoThreads :
                                       loop[s] = "resume" /\ dequeued[s] = c}}

\* A suspended coroutine is in one place and in one only, so it can still be
\* resumed and nobody resumes it twice: messages are neither lost nor doubled
\* on the way through the queues, the workers and the threads that peek or wait,
\* whatever stop() does meanwhile, nor if a queue were full.
InOnePlace ==
    \A c \in Coroutines :
        Cardinality(Places(c)) = IF coPc[c] = "suspended" THEN 1 ELSE 0

\* Before stop(), no I/O thread sleeps on a message: if one sleeps and a message
\* is there, a notification is under way or another thread is up to take it.
NoSleepOnMessage ==
    (cq # <<>> /\ Asleep # {} /\ ~queueStop) =>
        \/ \E w \in QWorkers : qWorker[w] \in {"notify", "drainNotify"}
        \/ \E t \in IoThreads : loop[t] \in {"lock", "predicate", "stopped", "pop"}

\* A message that was submitted is answered, unless somebody calls stop():
\* its coroutine is resumed.
SubmittedIsResumed ==
    \A c \in Coroutines :
        (coPc[c] = "suspended" /\ c \notin ToSet(overflow) /\ ~stopRequested)
            ~> (coPc[c] # "suspended" \/ c \in ToSet(overflow) \/ stopRequested)

\* "Wakes all threads that are waiting for an event, so that they leave the
\* event loop": after stop(), no thread stays in one.
StopEndsLoops == stopRequested ~> active = 0

\* "Processes events until the io_service is stopped": process_events() does
\* not return before.
ProcessesUntilStopped ==
    [][\A t \in IoThreads :
          loop[t] = "leave" /\ loop'[t] = "out" /\ call[t].wait /\ ~call[t].once
              => stopRequested]_serviceVars

=============================================================================
