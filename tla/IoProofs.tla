-------------------------------- MODULE IoProofs --------------------------------
(***************************************************************************)
(* Proofs about IoOperation, one operation with its cancellation, and      *)
(* IoService, schedule() and the event loops: for any sets of workers, I/O *)
(* threads and coroutines and any length of the queues.                    *)
(***************************************************************************)
EXTENDS IoOperation, IoService, Lemmas, SequenceTheorems

-----------------------------------------------------------------------------
(* IoOperation: the message of one operation *)

TypeInv ==
    /\ worker \in [Workers -> {"idle", "set", "process", "enqueue"}]
    /\ submission \in Nat /\ completion \in Nat

\* The message is with a queue or a worker.
InFlight == submission > 0 \/ completion > 0 \/ \E w \in Workers : worker[w] # "idle"

\* What cancellation leaves in the message.
CancelInv ==
    /\ canceled => kind = "timer"
    /\ awaiter \in {"ready", "start"} => operation \in {"NONE", "CANCEL"} /\ ~completed
    /\ canceled => operation = "TIMEOUT_REMOVE"

\* A worker drops the message only when it registers an event that nobody has
\* cancelled, when a cancellation is under way, or when another worker has
\* taken the message on.
StrandInv ==
    co = "suspended" /\ misused = "no" =>
        /\ InFlight \/ (registered /\ ~canceled)
        /\ completed => completion > 0 \/ \E w \in Workers : worker[w] = "enqueue"

\* The inductive invariant of NeverStranded.
IInv == TypeInv /\ CancelInv /\ StrandInv

KindsAreKnown == Kinds \subseteq {"read", "connect", "close", "timer"}

LEMMA InitIInv == ASSUME KindsAreKnown, Init PROVE IInv
BY DEF KindsAreKnown, Init, IInv, TypeInv, CancelInv, StrandInv

LEMMA StepType == ASSUME TypeInv, [Next]_ioVars PROVE TypeInv'
<1> USE DEF TypeInv, queue
<1>1. CASE AwaitReady
  BY <1>1 DEF AwaitReady
<1>2. CASE TryStart
  BY <1>2 DEF TryStart
<1>3. CASE UseAgain
  BY <1>3 DEF UseAgain
<1>4. CASE Emplace
  BY <1>4 DEF Emplace
<1>5. CASE RequestCancellation
  <2>1. UNCHANGED queue
    BY <1>5 DEF RequestCancellation
  <2> QED BY <2>1
<1>6. CASE Cancel
  BY <1>6 DEF Cancel
<1>7. CASE Resume
  BY <1>7 DEF Resume
<1>8. CASE Finish
  BY <1>8 DEF Finish
<1>9. ASSUME NEW w \in Workers, Pop(w) PROVE TypeInv'
  BY <1>9 DEF Pop
<1>10. ASSUME NEW w \in Workers, EventSet(w) PROVE TypeInv'
  BY <1>10 DEF EventSet, Enqueued, Dropped
<1>11. ASSUME NEW w \in Workers, EventSetClose(w) PROVE TypeInv'
  BY <1>11 DEF EventSetClose, Enqueued, Dropped
<1>12. ASSUME NEW w \in Workers, EventSetCancel(w) PROVE TypeInv'
  BY <1>12 DEF EventSetCancel, Enqueued, Dropped
<1>13. ASSUME NEW w \in Workers, EventSetRemove(w) PROVE TypeInv'
  BY <1>13 DEF EventSetRemove, Enqueued, Dropped
<1>14. ASSUME NEW w \in Workers, Fire(w) PROVE TypeInv'
  BY <1>14 DEF Fire
<1>15. ASSUME NEW w \in Workers, ProcessOne(w) PROVE TypeInv'
  <2>1. worker' = [worker EXCEPT ![w] = "enqueue"]
    BY <1>15 DEF ProcessOne, Transfer, Enqueued
  <2> QED BY <1>15, <2>1 DEF ProcessOne
<1>16. ASSUME NEW w \in Workers, Enqueue(w) PROVE TypeInv'
  BY <1>16 DEF Enqueue
<1>17. CASE UNCHANGED ioVars
  BY <1>17 DEF ioVars
<1> QED
  BY <1>1, <1>2, <1>3, <1>4, <1>5, <1>6, <1>7, <1>8, <1>9, <1>10, <1>11, <1>12, <1>13, <1>14, <1>15, <1>16, <1>17 DEF Next

LEMMA StepCancel == ASSUME TypeInv, CancelInv, [Next]_ioVars PROVE CancelInv'
<1> USE DEF CancelInv, Timer, const, message
<1>1. CASE AwaitReady
  BY <1>1 DEF AwaitReady
<1>2. CASE TryStart
  BY <1>2 DEF TryStart
<1>3. CASE UseAgain
  BY <1>3 DEF UseAgain
<1>4. CASE Emplace
  BY <1>4 DEF Emplace
<1>5. CASE RequestCancellation
  BY <1>5 DEF RequestCancellation
<1>6. CASE Cancel
  BY <1>6 DEF Cancel
<1>7. CASE Resume
  BY <1>7 DEF Resume
<1>8. CASE Finish
  BY <1>8 DEF Finish
<1>9. ASSUME NEW w \in Workers, Pop(w) PROVE CancelInv'
  BY <1>9 DEF Pop
<1>10. ASSUME NEW w \in Workers, EventSet(w) PROVE CancelInv'
  BY <1>10 DEF EventSet
<1>11. ASSUME NEW w \in Workers, EventSetClose(w) PROVE CancelInv'
  BY <1>11 DEF EventSetClose
<1>12. ASSUME NEW w \in Workers, EventSetCancel(w) PROVE CancelInv'
  BY <1>12 DEF EventSetCancel
<1>13. ASSUME NEW w \in Workers, EventSetRemove(w) PROVE CancelInv'
  BY <1>13 DEF EventSetRemove
<1>14. ASSUME NEW w \in Workers, Fire(w) PROVE CancelInv'
  BY <1>14 DEF Fire
<1>15. ASSUME NEW w \in Workers, ProcessOne(w) PROVE CancelInv'
  BY <1>15 DEF ProcessOne
<1>16. ASSUME NEW w \in Workers, Enqueue(w) PROVE CancelInv'
  BY <1>16 DEF Enqueue
<1>17. CASE UNCHANGED ioVars
  BY <1>17 DEF ioVars
<1> QED
  BY <1>1, <1>2, <1>3, <1>4, <1>5, <1>6, <1>7, <1>8,
     <1>9, <1>10, <1>11, <1>12, <1>13, <1>14, <1>15, <1>16, <1>17 DEF Next

\* A worker that has the message ready for the completion queue keeps it there.
LEMMA Enqueues ==
    ASSUME TypeInv, NEW w \in Workers, worker' = [worker EXCEPT ![w] = "enqueue"]
    PROVE  worker'[w] = "enqueue"
BY DEF TypeInv

LEMMA StepStrand == ASSUME IInv, [Next]_ioVars PROVE StrandInv'
<1>0. TypeInv /\ CancelInv /\ StrandInv
  BY DEF IInv
<1> USE DEF StrandInv, InFlight
<1>1. CASE AwaitReady
  BY <1>0, <1>1 DEF AwaitReady, message, queue
<1>2. CASE TryStart
  <2>1. co' = "suspended" => submission' > 0
    BY <1>0, <1>2 DEF TryStart, TypeInv
  <2>2. awaiter = "start" /\ UNCHANGED completed
    BY <1>2 DEF TryStart
  <2>3. co' = "suspended" => ~completed
    BY <1>0, <2>2 DEF CancelInv
  <2> QED BY <2>1, <2>2, <2>3
<1>3. CASE UseAgain \/ Emplace
  <2>1. misused = "no"
    BY <1>3 DEF Next, UseAgain, Emplace, ioVars
  <2>2. UNCHANGED <<co, message, queue>>
    BY <1>3 DEF UseAgain, Emplace
  <2> QED BY <1>0, <2>1, <2>2 DEF message, queue
<1>4. CASE RequestCancellation
  BY <1>0, <1>4 DEF RequestCancellation, message, queue
<1>5. CASE Cancel
  BY <1>0, <1>5 DEF Cancel, TypeInv
<1>6. CASE Resume
  BY <1>0, <1>6 DEF Resume
<1>7. CASE Finish
  BY <1>0, <1>7 DEF Finish
<1>8. ASSUME NEW w \in Workers, Pop(w) PROVE StrandInv'
  <2>1. worker'[w] = "set" /\ \A v \in Workers : worker[v] = "enqueue" => worker'[v] = "enqueue"
    BY <1>0, <1>8 DEF Pop, TypeInv
  <2> QED BY <1>0, <1>8, <2>1 DEF Pop, message
<1>9. ASSUME NEW w \in Workers, EventSet(w) PROVE StrandInv'
  <2>1. ~canceled
    BY <1>0, <1>9 DEF EventSet, CancelInv
  <2>2. \A v \in Workers : worker[v] = "enqueue" => worker'[v] = "enqueue"
    BY <1>0, <1>9 DEF EventSet, Enqueued, Dropped, TypeInv
  <2>3. registered' \/ worker'[w] = "enqueue"
    BY <1>0, <1>9 DEF EventSet, Enqueued, Dropped, TypeInv
  <2> QED BY <1>0, <1>9, <2>1, <2>2, <2>3 DEF EventSet
<1>10. ASSUME NEW w \in Workers, EventSetClose(w) \/ EventSetCancel(w) \/ ProcessOne(w)
       PROVE StrandInv'
  <2>1. worker' = [worker EXCEPT ![w] = "enqueue"]
    BY <1>10 DEF EventSetClose, EventSetCancel, ProcessOne, Transfer, Enqueued
  <2>2. worker'[w] = "enqueue"
    BY <1>0, <2>1, Enqueues
  <2> QED BY <1>0, <1>10, <2>2 DEF EventSetClose, EventSetCancel, ProcessOne
<1>11. ASSUME NEW w \in Workers, EventSetRemove(w) PROVE StrandInv'
  <2>1. CASE completed
    <3>1. worker' = [worker EXCEPT ![w] = "idle"] /\ worker[w] = "set"
      BY <1>11, <2>1 DEF EventSetRemove, Dropped
    <3>2. \A v \in Workers : worker[v] = "enqueue" => worker'[v] = "enqueue"
      BY <1>0, <3>1 DEF TypeInv
    <3>3. completed' /\ UNCHANGED <<co, misused, completion, submission>>
      BY <1>11 DEF EventSetRemove
    <3> QED BY <1>0, <2>1, <3>2, <3>3
  <2>2. CASE ~completed
    <3>1. worker'[w] = "enqueue"
      BY <1>0, <1>11, <2>2, Enqueues DEF EventSetRemove, Enqueued
    <3> QED BY <1>0, <1>11, <3>1 DEF EventSetRemove
  <2> QED BY <2>1, <2>2
<1>12. ASSUME NEW w \in Workers, Fire(w) PROVE StrandInv'
  <2>1. CASE canceled
    <3>1. worker' = worker
      BY <1>0, <1>12, <2>1 DEF Fire, TypeInv
    <3> QED BY <1>0, <1>12, <2>1, <3>1 DEF Fire, message
  <2>2. CASE ~canceled
    <3>1. worker'[w] = "process" /\ \A v \in Workers : worker[v] = "enqueue" => worker'[v] = "enqueue"
      BY <1>0, <1>12, <2>2 DEF Fire, TypeInv
    <3> QED BY <1>0, <1>12, <2>2, <3>1 DEF Fire, message
  <2> QED BY <2>1, <2>2
<1>13. ASSUME NEW w \in Workers, Enqueue(w) PROVE StrandInv'
  <2>1. completion' > 0
    BY <1>0, <1>13 DEF Enqueue, TypeInv
  <2> QED BY <2>1
<1>14. CASE UNCHANGED ioVars
  BY <1>0, <1>14 DEF ioVars
<1> QED
  BY <1>1, <1>2, <1>3, <1>4, <1>5, <1>6, <1>7, <1>8, <1>9, <1>10, <1>11, <1>12,
     <1>13, <1>14 DEF Next

LEMMA StepIInv == ASSUME IInv, [Next]_ioVars PROVE IInv'
BY StepType, StepCancel, StepStrand DEF IInv

LEMMA IInvNotStranded == IInv => NeverStranded
BY DEF IInv, StrandInv, InFlight, NeverStranded

\* Whatever the kernel answers and however a cancellation falls between the
\* steps of the workers: a coroutine that waits has its message in a queue,
\* with a worker, or with the kernel.
THEOREM NobodyStranded == ASSUME KindsAreKnown PROVE Spec => []NeverStranded
BY InitIInv, StepIInv, IInvNotStranded, PTL DEF Spec

-----------------------------------------------------------------------------
(* Operations without a token                                              *)

Busy == {w \in Workers : worker[w] # "idle"}

\* The message is in one place while the coroutine waits, and in none before
\* and after.
OnePlace ==
    \/ /\ co = "suspended"
       /\ \/ submission = 1 /\ completion = 0 /\ ~registered /\ Busy = {}
          \/ submission = 0 /\ completion = 1 /\ ~registered /\ Busy = {}
          \/ submission = 0 /\ completion = 0 /\ registered /\ Busy = {}
          \/ /\ submission = 0 /\ completion = 0 /\ ~registered
             /\ \E w \in Workers : Busy = {w}
    \/ /\ co # "suspended"
       /\ submission = 0 /\ completion = 0 /\ ~registered /\ Busy = {}

TokenInv ==
    /\ kind \in {"read", "connect", "close", "timer"}
    /\ callback = "none" /\ ~requested /\ ~canceled
    /\ operation \in {"NONE", "READ", "CONNECT", "CLOSE", "TIMEOUT"}
    /\ awaiter \in {"ready", "start"} => co = "running"
    /\ awaiter # "emplace"
    /\ kind # "timer" => misused = "no"
    /\ misused = "no" => OnePlace

\* The inductive invariant of WithoutToken.
IInvToken == TypeInv /\ (~cancellable => TokenInv)

LEMMA InitToken == ASSUME KindsAreKnown, Init PROVE IInvToken
<1>1. Busy = {}
  BY DEF Init, Busy
<1> QED BY <1>1 DEF KindsAreKnown, Init, IInvToken, TypeInv, TokenInv, OnePlace

\* Where the message goes when a worker takes it, keeps it or passes it on.
LEMMA BusyStep ==
    ASSUME TypeInv, NEW w \in Workers,
           NEW where \in {"idle", "set", "process", "enqueue"},
           worker' = [worker EXCEPT ![w] = where]
    PROVE  /\ where = "idle" /\ Busy = {w} => Busy' = {}
           /\ where # "idle" /\ Busy \subseteq {w} => Busy' = {w}
BY DEF TypeInv, Busy

LEMMA CancellableStays == ASSUME [Next]_ioVars PROVE cancellable' = cancellable
<1> USE DEF const
<1>1. CASE AwaitReady \/ TryStart
  BY <1>1 DEF AwaitReady, TryStart
<1>2. CASE UseAgain \/ Emplace
  BY <1>2 DEF UseAgain, Emplace
<1>3. CASE RequestCancellation \/ Cancel
  BY <1>3 DEF RequestCancellation, Cancel
<1>4. CASE Resume \/ Finish
  BY <1>4 DEF Resume, Finish
<1>5. ASSUME NEW w \in Workers, Pop(w) \/ Fire(w) \/ ProcessOne(w) \/ Enqueue(w)
      PROVE  cancellable' = cancellable
  BY <1>5 DEF Pop, Fire, ProcessOne, Enqueue
<1>6. ASSUME NEW w \in Workers,
             EventSet(w) \/ EventSetClose(w) \/ EventSetCancel(w) \/ EventSetRemove(w)
      PROVE  cancellable' = cancellable
  BY <1>6 DEF EventSet, EventSetClose, EventSetCancel, EventSetRemove
<1>7. CASE UNCHANGED ioVars
  BY <1>7 DEF ioVars
<1> QED BY <1>1, <1>2, <1>3, <1>4, <1>5, <1>6, <1>7 DEF Next

LEMMA StepToken ==
    ASSUME KindsAreKnown, TypeInv, ~cancellable, TokenInv, [Next]_ioVars
    PROVE  TokenInv'
<1>0. misused = "no" => OnePlace
  BY DEF TokenInv
<1> USE DEF TokenInv, const, token, message, queue
<1>a. ASSUME UNCHANGED <<co, submission, completion, registered, worker>>
      PROVE  OnePlace' <=> OnePlace
  BY <1>a DEF OnePlace, Busy
<1>1. CASE AwaitReady
  <2>1. co = "running" /\ co' \in {"running", "ended"}
    BY <1>1 DEF AwaitReady
  <2>2. OnePlace => OnePlace'
    BY <1>1, <2>1 DEF AwaitReady, OnePlace, Busy
  <2> QED BY <1>1, <2>2 DEF AwaitReady, Timer
<1>2. CASE TryStart
  <2>1. co = "running" /\ UNCHANGED <<completion, registered, worker>>
    BY <1>2 DEF TryStart
  <2>2. \/ submission' = submission + 1 /\ co' = "suspended" /\ awaiter' = "started"
        \/ submission' = submission /\ co' = "ended" /\ awaiter' = "done"
    BY <1>2 DEF TryStart
  <2>3. OnePlace => OnePlace'
    BY <2>1, <2>2 DEF OnePlace, Busy
  <2>4. operation' \in {"NONE", "READ", "CONNECT", "CLOSE", "TIMEOUT"}
    BY <1>2 DEF TryStart, Request, KindsAreKnown
  <2> QED BY <1>2, <2>2, <2>3, <2>4 DEF TryStart
<1>3. CASE UseAgain
  <2>1. OnePlace' <=> OnePlace
    BY <1>3, <1>a DEF UseAgain
  <2>2. misused = "no"
    BY <1>3 DEF Next, UseAgain, ioVars
  <2> QED BY <1>3, <2>1, <2>2 DEF UseAgain, Timer
<1>4. CASE Emplace
  BY <1>4 DEF Emplace
<1>5. CASE RequestCancellation \/ Cancel
  BY <1>5 DEF RequestCancellation, Cancel
<1>6. CASE Resume
  <2>1. misused = "no"
    BY <1>6 DEF Next, Resume, ioVars, TypeInv
  <2>2. co = "suspended" /\ completion = 1
    BY <1>0, <1>6, <2>1 DEF Resume, OnePlace
  <2>3. co' = "resumed" /\ OnePlace'
    BY <1>0, <1>6, <2>1, <2>2 DEF Resume, OnePlace, Busy
  <2> QED BY <1>6, <2>2, <2>3 DEF Resume
<1>7. CASE Finish
  <2>1. OnePlace => OnePlace'
    BY <1>7 DEF Finish, OnePlace, Busy
  <2> QED BY <1>7, <2>1 DEF Finish
<1>8. ASSUME NEW w \in Workers, Pop(w) PROVE TokenInv'
  <2>1. OnePlace => co = "suspended" /\ submission = 1 /\ Busy = {}
    BY <1>8 DEF Pop, OnePlace
  <2>2. worker' = [worker EXCEPT ![w] = "set"] /\ submission' = submission - 1
    BY <1>8 DEF Pop
  <2>3. UNCHANGED <<co, completion, registered>>
    BY <1>8 DEF Pop
  <2>4. OnePlace => Busy' = {w}
    <3>1. Busy = {} => Busy \subseteq {w}
      OBVIOUS
    <3> QED BY <2>1, <2>2, <3>1, BusyStep
  <2>5. OnePlace => OnePlace'
    BY <2>1, <2>2, <2>3, <2>4 DEF OnePlace
  <2> QED BY <1>8, <2>5 DEF Pop
<1>9. ASSUME NEW w \in Workers, EventSet(w) PROVE TokenInv'
  <2>1. OnePlace => /\ co = "suspended" /\ submission = 0 /\ completion = 0
                    /\ ~registered /\ Busy = {w}
    BY <1>9 DEF EventSet, OnePlace, Busy
  <2>2. \/ registered' = TRUE /\ worker' = [worker EXCEPT ![w] = "idle"]
        \/ registered' = registered /\ worker' = [worker EXCEPT ![w] = "enqueue"]
    BY <1>9 DEF EventSet, Enqueued, Dropped
  <2>3. UNCHANGED <<co, submission, completion>>
    BY <1>9 DEF EventSet
  <2>4. OnePlace => OnePlace'
    BY <2>1, <2>2, <2>3, BusyStep DEF OnePlace
  <2> QED BY <1>9, <2>4 DEF EventSet
<1>10. ASSUME NEW w \in Workers, EventSetClose(w) \/ ProcessOne(w) PROVE TokenInv'
  <2>1. OnePlace => /\ co = "suspended" /\ submission = 0 /\ completion = 0
                    /\ ~registered /\ Busy = {w}
    BY <1>10 DEF EventSetClose, ProcessOne, OnePlace, Busy
  <2>2. worker' = [worker EXCEPT ![w] = "enqueue"]
    BY <1>10 DEF EventSetClose, ProcessOne, Transfer, Enqueued
  <2>3. UNCHANGED <<co, submission, completion, registered>>
    BY <1>10 DEF EventSetClose, ProcessOne
  <2>4. OnePlace => OnePlace'
    BY <2>1, <2>2, <2>3, BusyStep DEF OnePlace
  <2> QED BY <1>10, <2>4 DEF EventSetClose, ProcessOne
<1>11. ASSUME NEW w \in Workers, EventSetCancel(w) \/ EventSetRemove(w) PROVE TokenInv'
  BY <1>11 DEF EventSetCancel, EventSetRemove
<1>12. ASSUME NEW w \in Workers, Fire(w) PROVE TokenInv'
  <2>1. OnePlace => /\ co = "suspended" /\ submission = 0 /\ completion = 0 /\ Busy = {}
    BY <1>12 DEF Fire, OnePlace
  <2>2. worker' = [worker EXCEPT ![w] = "process"] /\ ~registered'
    BY <1>12 DEF Fire
  <2>3. UNCHANGED <<co, submission, completion>>
    BY <1>12 DEF Fire
  <2>4. OnePlace => Busy' = {w}
    <3>1. Busy = {} => Busy \subseteq {w}
      OBVIOUS
    <3> QED BY <2>1, <2>2, <3>1, BusyStep
  <2>5. OnePlace => OnePlace'
    BY <2>1, <2>2, <2>3, <2>4 DEF OnePlace
  <2> QED BY <1>12, <2>5 DEF Fire
<1>13. ASSUME NEW w \in Workers, Enqueue(w) PROVE TokenInv'
  <2>1. OnePlace => /\ co = "suspended" /\ submission = 0 /\ completion = 0
                    /\ ~registered /\ Busy = {w}
    BY <1>13 DEF Enqueue, OnePlace, Busy
  <2>2. worker' = [worker EXCEPT ![w] = "idle"] /\ completion' = completion + 1
    BY <1>13 DEF Enqueue
  <2>3. UNCHANGED <<co, submission, registered>>
    BY <1>13 DEF Enqueue
  <2>4. OnePlace => Busy' = {}
    BY <2>1, <2>2, BusyStep
  <2>5. OnePlace => OnePlace'
    BY <2>1, <2>2, <2>3, <2>4 DEF OnePlace
  <2> QED BY <1>13, <2>5 DEF Enqueue
<1>14. CASE UNCHANGED ioVars
  BY <1>14, <1>a DEF ioVars
<1> QED
  BY <1>1, <1>2, <1>3, <1>4, <1>5, <1>6, <1>7, <1>8, <1>9, <1>10, <1>11, <1>12,
     <1>13, <1>14 DEF Next

LEMMA StepIInvToken == ASSUME KindsAreKnown, IInvToken, [Next]_ioVars PROVE IInvToken'
BY StepType, StepToken, CancellableStays DEF IInvToken

LEMMA IInvTokenHolds == IInvToken => WithoutToken
BY DEF IInvToken, TypeInv, TokenInv, OnePlace, WithoutToken, Timer

\* An operation without a token has its message in one place at a time until
\* its coroutine is resumed, which happens once, and no thread uses the
\* operation of a file or a socket after it is over.
THEOREM TokenlessSafety == ASSUME KindsAreKnown PROVE Spec => []WithoutToken
BY InitToken, StepIInvToken, IInvTokenHolds, PTL DEF Spec

-----------------------------------------------------------------------------
(* IoService: the messages of schedule() *)

WorkerPlaces ==
    {"check", "submit", "push", "notify", "drain", "drainPush", "drainNotify", "exited"}
LoopPlaces ==
    {"out", "top", "overflow", "resubmit", "putBack", "peek", "lock", "predicate",
     "toSleep", "asleep", "stopped", "pop", "resume", "running", "leave"}

ServiceTypes ==
    /\ queueStop \in BOOLEAN
    /\ overflow \in Seq(Coroutines) /\ sq \in Seq(Coroutines) /\ cq \in Seq(Coroutines)
    /\ mutex \in IoThreads \cup {None}
    /\ qWorker \in [QWorkers -> WorkerPlaces]
    /\ carried \in [QWorkers -> Coroutines \cup {None}]
    /\ loop \in [IoThreads -> LoopPlaces]
    /\ mine \in [IoThreads -> Seq(Coroutines)]
    /\ dequeued \in [IoThreads -> Coroutines \cup {None}]
    /\ coPc \in [Coroutines -> {"running", "overflowing", "suspended", "done"}]

\* Who has m_cqe_mutex is between taking and releasing it.
MutexInv ==
    \A t \in IoThreads :
        loop[t] \in {"predicate", "toSleep", "stopped", "pop"} <=> mutex = t

\* Who is about to wake a thread, and who is about to take a message under the
\* mutex.
Notifiers == {w \in QWorkers : qWorker[w] \in {"notify", "drainNotify"}}
Lookers == {t \in IoThreads : loop[t] \in {"lock", "predicate", "stopped", "pop"}}

\* While a thread sleeps or is about to, every message in the completion queue
\* has a notification under way or a thread that looks for one.
WakeInv ==
    (~queueStop /\ \E t \in IoThreads : loop[t] \in {"toSleep", "asleep"}) =>
        Len(cq) <= Cardinality(Notifiers) + Cardinality(Lookers)

\* The hands a message goes through are full exactly in the middle of a move.
HandsInv ==
    /\ \A w \in QWorkers :
          IF qWorker[w] \in {"push", "drainPush"} THEN carried[w] \in Coroutines
                                                  ELSE carried[w] = None
    /\ \A t \in IoThreads : loop[t] \in {"resubmit", "putBack"} <=> mine[t] # <<>>
    /\ \A t \in IoThreads : loop[t] = "resume" => dequeued[t] \in Coroutines

Carries(w, c) == carried[w] = c
Keeps(t, c) == In(c, mine[t])
Resumes(t, c) == loop[t] = "resume" /\ dequeued[t] = c

\* No sequence holds a coroutine twice, no two places hold the same one, and
\* those that are held are those that are suspended.
DistinctInv ==
    /\ Distinct(overflow) /\ Distinct(sq) /\ Distinct(cq)
    /\ \A t \in IoThreads : Distinct(mine[t])

Exclusive(c) ==
    /\ ~(In(c, overflow) /\ In(c, sq)) /\ ~(In(c, overflow) /\ In(c, cq))
    /\ ~(In(c, sq) /\ In(c, cq))
    /\ \A w \in QWorkers : Carries(w, c) =>
          /\ ~In(c, overflow) /\ ~In(c, sq) /\ ~In(c, cq)
          /\ \A v \in QWorkers \ {w} : ~Carries(v, c)
          /\ \A t \in IoThreads : ~Keeps(t, c) /\ ~Resumes(t, c)
    /\ \A t \in IoThreads : Keeps(t, c) =>
          /\ ~In(c, overflow) /\ ~In(c, sq) /\ ~In(c, cq)
          /\ \A u \in IoThreads \ {t} : ~Keeps(u, c)
          /\ \A u \in IoThreads : ~Resumes(u, c)
    /\ \A t \in IoThreads : Resumes(t, c) =>
          /\ ~In(c, overflow) /\ ~In(c, sq) /\ ~In(c, cq)
          /\ \A u \in IoThreads \ {t} : ~Resumes(u, c)

ExclusiveInv == \A c \in Coroutines : Exclusive(c)

Held(c) ==
    \/ In(c, overflow) \/ In(c, sq) \/ In(c, cq)
    \/ \E w \in QWorkers : Carries(w, c)
    \/ \E t \in IoThreads : Keeps(t, c) \/ Resumes(t, c)

SuspendedInv == \A c \in Coroutines : coPc[c] = "suspended" <=> Held(c)

Spots == DistinctInv /\ ExclusiveInv /\ SuspendedInv

WakeUpInv == ServiceTypes /\ MutexInv /\ WakeInv
PlaceInv == ServiceTypes /\ HandsInv /\ Spots

-----------------------------------------------------------------------------

LEMMA ServiceCounts ==
    /\ \A w \in QWorkers :
          /\ w \notin Notifiers =>
                Cardinality(Notifiers \cup {w}) = Cardinality(Notifiers) + 1
          /\ w \in Notifiers => Cardinality(Notifiers \ {w}) = Cardinality(Notifiers) - 1
    /\ \A t \in IoThreads :
          /\ t \notin Lookers => Cardinality(Lookers \cup {t}) = Cardinality(Lookers) + 1
          /\ t \in Lookers => /\ Cardinality(Lookers \ {t}) = Cardinality(Lookers) - 1
                              /\ Cardinality(Lookers) > 0
<1>1. Notifiers \in SUBSET QWorkers /\ Lookers \in SUBSET IoThreads
  BY DEF Notifiers, Lookers
<1> QED BY <1>1, PartCounts, IoServiceAssumption

\* The completion queue needs no more wake-ups when it does not grow, nobody who
\* notifies or looks goes away and nobody goes to sleep.
LEMMA WakeKept ==
    ASSUME WakeInv, Len(cq) \in Nat, Len(cq') \in Nat, Len(cq') <= Len(cq),
           Notifiers \subseteq Notifiers', Lookers \subseteq Lookers',
           queueStop' = queueStop,
           \A t \in IoThreads : loop'[t] \in {"toSleep", "asleep"} =>
                                   loop[t] \in {"toSleep", "asleep"}
    PROVE  WakeInv'
<1>1. /\ Cardinality(Notifiers) <= Cardinality(Notifiers')
      /\ Cardinality(Notifiers) \in Nat /\ Cardinality(Notifiers') \in Nat
  BY IoServiceAssumption, PartCounts DEF Notifiers
<1>2. /\ Cardinality(Lookers) <= Cardinality(Lookers')
      /\ Cardinality(Lookers) \in Nat /\ Cardinality(Lookers') \in Nat
  BY IoServiceAssumption, PartCounts DEF Lookers
<1> QED BY <1>1, <1>2 DEF WakeInv

LEMMA ServiceTypesStep ==
    ASSUME ServiceTypes, HandsInv, [ServiceNext]_serviceVars
    PROVE  ServiceTypes'
<1> USE DEF Set, state, queues, workers, loops, cos, control, ServiceTypes,
     WorkerPlaces, LoopPlaces
<1>1. ASSUME NEW c \in Coroutines, Schedule(c) PROVE ServiceTypes'
  <2>1. Append(sq, c) \in Seq(Coroutines)
    BY <1>1, AppendTypes
  <2> QED BY <1>1, <2>1 DEF Schedule
<1>2. ASSUME NEW c \in Coroutines, AddOverflow(c) PROVE ServiceTypes'
  BY <1>2 DEF AddOverflow
<1>3. ASSUME NEW c \in Coroutines, FinishCoroutine(c) PROVE ServiceTypes'
  BY <1>3 DEF FinishCoroutine
<1>4. ASSUME NEW w \in QWorkers, CheckStop(w) PROVE ServiceTypes'
  BY <1>4 DEF CheckStop
<1>5. ASSUME NEW w \in QWorkers, PopSubmission(w) PROVE ServiceTypes'
  <2>1. CASE sq = <<>>
    BY <1>5, <2>1 DEF PopSubmission
  <2>2. CASE sq # <<>>
    <3>1. Tail(sq) \in Seq(Coroutines) /\ Head(sq) \in Coroutines
      BY <2>2, TailTypes
    <3> QED BY <1>5, <2>2, <3>1 DEF PopSubmission
  <2> QED BY <2>1, <2>2
<1>6. ASSUME NEW w \in QWorkers, PushCompletion(w) PROVE ServiceTypes'
  <2>1. Append(cq, carried[w]) \in Seq(Coroutines)
    BY <1>6, AppendTypes DEF PushCompletion, HandsInv
  <2> QED BY <1>6, <2>1 DEF PushCompletion
<1>7. ASSUME NEW w \in QWorkers, NotifyOne(w) PROVE ServiceTypes'
  BY <1>7 DEF NotifyOne, Asleep
<1>8. ASSUME NEW t \in IoThreads, Top(t) PROVE ServiceTypes'
  BY <1>8 DEF Top
<1>9. ASSUME NEW t \in IoThreads, TakeOverflow(t) PROVE ServiceTypes'
  BY <1>9 DEF TakeOverflow, Dequeue
<1>10. ASSUME NEW t \in IoThreads, Resubmit(t) PROVE ServiceTypes'
  <2>1. CASE Len(sq) < Capacity
    <3>1. /\ mine[t] \in Seq(Coroutines) /\ mine[t] # <<>>
          /\ Tail(mine[t]) \in Seq(Coroutines) /\ Head(mine[t]) \in Coroutines
          /\ Len(mine[t]) = 1 <=> Tail(mine[t]) = <<>>
      BY <1>10, TailTypes DEF Resubmit, HandsInv
    <3>2. Append(sq, Head(mine[t])) \in Seq(Coroutines)
      BY <3>1, AppendTypes
    <3> QED BY <1>10, <2>1, <3>1, <3>2 DEF Resubmit, Dequeue
  <2>2. CASE ~(Len(sq) < Capacity)
    BY <1>10, <2>2 DEF Resubmit
  <2> QED BY <2>1, <2>2
<1>11. ASSUME NEW t \in IoThreads, PutBack(t) PROVE ServiceTypes'
  BY <1>11 DEF PutBack, Dequeue
<1>12. ASSUME NEW t \in IoThreads, Peek(t) PROVE ServiceTypes'
  <2>1. CASE cq = <<>>
    BY <1>12, <2>1 DEF Peek, PopMessage
  <2>2. CASE cq # <<>>
    <3>1. Tail(cq) \in Seq(Coroutines) /\ Head(cq) \in Coroutines
      BY <2>2, TailTypes
    <3> QED BY <1>12, <2>2, <3>1 DEF Peek, PopMessage
  <2> QED BY <2>1, <2>2
<1>13. ASSUME NEW t \in IoThreads, Lock(t) PROVE ServiceTypes'
  BY <1>13 DEF Lock
<1>14. ASSUME NEW t \in IoThreads, Predicate(t) PROVE ServiceTypes'
  BY <1>14 DEF Predicate
<1>15. ASSUME NEW t \in IoThreads, Sleep(t) PROVE ServiceTypes'
  BY <1>15 DEF Sleep
<1>16. ASSUME NEW t \in IoThreads, LookAtStop(t) PROVE ServiceTypes'
  BY <1>16 DEF LookAtStop
<1>17. ASSUME NEW t \in IoThreads, PopLocked(t) PROVE ServiceTypes'
  <2>1. CASE cq = <<>>
    BY <1>17, <2>1 DEF PopLocked, PopMessage
  <2>2. CASE cq # <<>>
    <3>1. Tail(cq) \in Seq(Coroutines) /\ Head(cq) \in Coroutines
      BY <2>2, TailTypes
    <3> QED BY <1>17, <2>2, <3>1 DEF PopLocked, PopMessage
  <2> QED BY <2>1, <2>2
<1>18. ASSUME NEW t \in IoThreads, ResumeCoroutine(t) PROVE ServiceTypes'
  BY <1>18 DEF ResumeCoroutine
<1>19. ASSUME NEW t \in IoThreads, Resumed(t) PROVE ServiceTypes'
  BY <1>19 DEF Resumed
<1>20. ASSUME NEW t \in IoThreads, Leave(t) PROVE ServiceTypes'
  BY <1>20 DEF Leave
<1>21. ASSUME NEW t \in IoThreads, Enter(t) PROVE ServiceTypes'
  BY <1>21 DEF Enter, TryEnterEventLoop
<1>22. ASSUME NEW t \in IoThreads, SpuriousWakeUp(t) PROVE ServiceTypes'
  BY <1>22 DEF SpuriousWakeUp
<1>23. ASSUME RequestStop PROVE ServiceTypes'
  BY <1>23 DEF RequestStop
<1>24. ASSUME StopQueue PROVE ServiceTypes'
  BY <1>24 DEF StopQueue
<1>25. ASSUME NotifyAll PROVE ServiceTypes'
  BY <1>25 DEF NotifyAll, Asleep
<1>26. ASSUME Reset PROVE ServiceTypes'
  BY <1>26 DEF Reset
<1>27. ASSUME UNCHANGED serviceVars PROVE ServiceTypes'
  BY <1>27 DEF serviceVars
<1> QED
  BY <1>1, <1>2, <1>3, <1>4, <1>5, <1>6, <1>7, <1>8, <1>9, <1>10, <1>11, <1>12,
       <1>13, <1>14, <1>15, <1>16, <1>17, <1>18, <1>19, <1>20, <1>21, <1>22, <1>23,
       <1>24, <1>25, <1>26, <1>27
     DEF ServiceNext, Worker, IoThread

LEMMA MutexStep ==
    ASSUME ServiceTypes, MutexInv, [ServiceNext]_serviceVars
    PROVE  MutexInv'
<1> USE IoServiceAssumption DEF Set, state, queues, workers, loops, cos, control,
     ServiceTypes, MutexInv
<1>1. ASSUME NEW c \in Coroutines, Schedule(c) PROVE MutexInv'
  BY <1>1 DEF Schedule
<1>2. ASSUME NEW c \in Coroutines, AddOverflow(c) PROVE MutexInv'
  BY <1>2 DEF AddOverflow
<1>3. ASSUME NEW c \in Coroutines, FinishCoroutine(c) PROVE MutexInv'
  BY <1>3 DEF FinishCoroutine
<1>4. ASSUME NEW w \in QWorkers, CheckStop(w) PROVE MutexInv'
  BY <1>4 DEF CheckStop
<1>5. ASSUME NEW w \in QWorkers, PopSubmission(w) PROVE MutexInv'
  BY <1>5 DEF PopSubmission
<1>6. ASSUME NEW w \in QWorkers, PushCompletion(w) PROVE MutexInv'
  BY <1>6 DEF PushCompletion
<1>7. ASSUME NEW w \in QWorkers, NotifyOne(w) PROVE MutexInv'
  BY <1>7 DEF NotifyOne, Asleep
<1>8. ASSUME NEW t \in IoThreads, Top(t) PROVE MutexInv'
  BY <1>8 DEF Top
<1>9. ASSUME NEW t \in IoThreads, TakeOverflow(t) PROVE MutexInv'
  BY <1>9 DEF TakeOverflow, Dequeue
<1>10. ASSUME NEW t \in IoThreads, Resubmit(t) PROVE MutexInv'
  BY <1>10 DEF Resubmit, Dequeue
<1>11. ASSUME NEW t \in IoThreads, PutBack(t) PROVE MutexInv'
  BY <1>11 DEF PutBack, Dequeue
<1>12. ASSUME NEW t \in IoThreads, Peek(t) PROVE MutexInv'
  BY <1>12 DEF Peek, PopMessage
<1>13. ASSUME NEW t \in IoThreads, Lock(t) PROVE MutexInv'
  BY <1>13 DEF Lock
<1>14. ASSUME NEW t \in IoThreads, Predicate(t) PROVE MutexInv'
  BY <1>14 DEF Predicate
<1>15. ASSUME NEW t \in IoThreads, Sleep(t) PROVE MutexInv'
  BY <1>15 DEF Sleep
<1>16. ASSUME NEW t \in IoThreads, LookAtStop(t) PROVE MutexInv'
  BY <1>16 DEF LookAtStop
<1>17. ASSUME NEW t \in IoThreads, PopLocked(t) PROVE MutexInv'
  BY <1>17 DEF PopLocked, PopMessage
<1>18. ASSUME NEW t \in IoThreads, ResumeCoroutine(t) PROVE MutexInv'
  BY <1>18 DEF ResumeCoroutine
<1>19. ASSUME NEW t \in IoThreads, Resumed(t) PROVE MutexInv'
  BY <1>19 DEF Resumed
<1>20. ASSUME NEW t \in IoThreads, Leave(t) PROVE MutexInv'
  BY <1>20 DEF Leave
<1>21. ASSUME NEW t \in IoThreads, Enter(t) PROVE MutexInv'
  BY <1>21 DEF Enter, TryEnterEventLoop
<1>22. ASSUME NEW t \in IoThreads, SpuriousWakeUp(t) PROVE MutexInv'
  BY <1>22 DEF SpuriousWakeUp
<1>23. ASSUME RequestStop PROVE MutexInv'
  BY <1>23 DEF RequestStop
<1>24. ASSUME StopQueue PROVE MutexInv'
  BY <1>24 DEF StopQueue
<1>25. ASSUME NotifyAll PROVE MutexInv'
  BY <1>25 DEF NotifyAll, Asleep
<1>26. ASSUME Reset PROVE MutexInv'
  BY <1>26 DEF Reset
<1>27. ASSUME UNCHANGED serviceVars PROVE MutexInv'
  BY <1>27 DEF serviceVars
<1> QED
  BY <1>1, <1>2, <1>3, <1>4, <1>5, <1>6, <1>7, <1>8, <1>9, <1>10, <1>11, <1>12,
       <1>13, <1>14, <1>15, <1>16, <1>17, <1>18, <1>19, <1>20, <1>21, <1>22, <1>23,
       <1>24, <1>25, <1>26, <1>27
     DEF ServiceNext, Worker, IoThread

LEMMA HandsStep ==
    ASSUME ServiceTypes, HandsInv, [ServiceNext]_serviceVars
    PROVE  HandsInv'
<1> USE IoServiceAssumption DEF Set, state, queues, workers, loops, cos, control,
     ServiceTypes, HandsInv
<1>1. ASSUME NEW c \in Coroutines, Schedule(c) PROVE HandsInv'
  BY <1>1 DEF Schedule
<1>2. ASSUME NEW c \in Coroutines, AddOverflow(c) PROVE HandsInv'
  BY <1>2 DEF AddOverflow
<1>3. ASSUME NEW c \in Coroutines, FinishCoroutine(c) PROVE HandsInv'
  BY <1>3 DEF FinishCoroutine
<1>4. ASSUME NEW w \in QWorkers, CheckStop(w) PROVE HandsInv'
  BY <1>4 DEF CheckStop
<1>5. ASSUME NEW w \in QWorkers, PopSubmission(w) PROVE HandsInv'
  <2>1. CASE sq = <<>>
    BY <1>5, <2>1 DEF PopSubmission
  <2>2. CASE sq # <<>>
    <3>1. Head(sq) \in Coroutines
      BY <2>2, TailTypes
    <3> QED BY <1>5, <2>2, <3>1 DEF PopSubmission
  <2> QED BY <2>1, <2>2
<1>6. ASSUME NEW w \in QWorkers, PushCompletion(w) PROVE HandsInv'
  BY <1>6 DEF PushCompletion
<1>7. ASSUME NEW w \in QWorkers, NotifyOne(w) PROVE HandsInv'
  BY <1>7 DEF NotifyOne, Asleep
<1>8. ASSUME NEW t \in IoThreads, Top(t) PROVE HandsInv'
  BY <1>8 DEF Top
<1>9. ASSUME NEW t \in IoThreads, TakeOverflow(t) PROVE HandsInv'
  BY <1>9 DEF TakeOverflow, Dequeue
<1>10. ASSUME NEW t \in IoThreads, Resubmit(t) PROVE HandsInv'
  <2>1. CASE Len(sq) < Capacity
    <3>1. /\ mine[t] \in Seq(Coroutines) /\ mine[t] # <<>>
          /\ Tail(mine[t]) \in Seq(Coroutines) /\ Head(mine[t]) \in Coroutines
          /\ Len(mine[t]) = 1 <=> Tail(mine[t]) = <<>>
      BY <1>10, TailTypes DEF Resubmit, HandsInv
    <3>2. Append(sq, Head(mine[t])) \in Seq(Coroutines)
      BY <3>1, AppendTypes
    <3>3. /\ mine' = [mine EXCEPT ![t] = Tail(mine[t])]
          /\ loop' = [loop EXCEPT ![t] = IF Len(mine[t]) = 1 THEN Dequeue(t) ELSE "resubmit"]
          /\ UNCHANGED <<qWorker, carried, dequeued>>
      BY <1>10, <2>1 DEF Resubmit
    <3>4. Dequeue(t) \in {"lock", "peek"}
      BY DEF Dequeue
    <3>5. /\ \A u \in IoThreads \ {t} : mine'[u] = mine[u] /\ loop'[u] = loop[u]
          /\ mine'[t] = Tail(mine[t])
          /\ loop'[t] = IF Tail(mine[t]) = <<>> THEN Dequeue(t) ELSE "resubmit"
      BY <3>1, <3>3 DEF ServiceTypes
    <3> HIDE DEF ServiceTypes
    <3>6. \A w \in QWorkers :
             IF qWorker'[w] \in {"push", "drainPush"} THEN carried'[w] \in Coroutines
                                                      ELSE carried'[w] = None
      BY <3>3 DEF HandsInv
    <3>7. \A u \in IoThreads : loop'[u] \in {"resubmit", "putBack"} <=> mine'[u] # <<>>
      BY <3>1, <3>4, <3>5 DEF HandsInv
    <3>8. \A u \in IoThreads : loop'[u] = "resume" => dequeued'[u] \in Coroutines
      BY <3>3, <3>4, <3>5 DEF HandsInv
    <3> QED BY <3>6, <3>7, <3>8 DEF HandsInv
  <2>2. CASE ~(Len(sq) < Capacity)
    BY <1>10, <2>2 DEF Resubmit
  <2> QED BY <2>1, <2>2
<1>11. ASSUME NEW t \in IoThreads, PutBack(t) PROVE HandsInv'
  BY <1>11 DEF PutBack, Dequeue
<1>12. ASSUME NEW t \in IoThreads, Peek(t) PROVE HandsInv'
  <2>1. CASE cq = <<>>
    BY <1>12, <2>1 DEF Peek, PopMessage
  <2>2. CASE cq # <<>>
    <3>1. Tail(cq) \in Seq(Coroutines) /\ Head(cq) \in Coroutines
      BY <2>2, TailTypes
    <3> QED BY <1>12, <2>2, <3>1 DEF Peek, PopMessage
  <2> QED BY <2>1, <2>2
<1>13. ASSUME NEW t \in IoThreads, Lock(t) PROVE HandsInv'
  BY <1>13 DEF Lock
<1>14. ASSUME NEW t \in IoThreads, Predicate(t) PROVE HandsInv'
  BY <1>14 DEF Predicate
<1>15. ASSUME NEW t \in IoThreads, Sleep(t) PROVE HandsInv'
  BY <1>15 DEF Sleep
<1>16. ASSUME NEW t \in IoThreads, LookAtStop(t) PROVE HandsInv'
  BY <1>16 DEF LookAtStop
<1>17. ASSUME NEW t \in IoThreads, PopLocked(t) PROVE HandsInv'
  <2>1. CASE cq = <<>>
    BY <1>17, <2>1 DEF PopLocked, PopMessage
  <2>2. CASE cq # <<>>
    <3>1. Tail(cq) \in Seq(Coroutines) /\ Head(cq) \in Coroutines
      BY <2>2, TailTypes
    <3> QED BY <1>17, <2>2, <3>1 DEF PopLocked, PopMessage
  <2> QED BY <2>1, <2>2
<1>18. ASSUME NEW t \in IoThreads, ResumeCoroutine(t) PROVE HandsInv'
  BY <1>18 DEF ResumeCoroutine
<1>19. ASSUME NEW t \in IoThreads, Resumed(t) PROVE HandsInv'
  BY <1>19 DEF Resumed
<1>20. ASSUME NEW t \in IoThreads, Leave(t) PROVE HandsInv'
  BY <1>20 DEF Leave
<1>21. ASSUME NEW t \in IoThreads, Enter(t) PROVE HandsInv'
  BY <1>21 DEF Enter, TryEnterEventLoop
<1>22. ASSUME NEW t \in IoThreads, SpuriousWakeUp(t) PROVE HandsInv'
  BY <1>22 DEF SpuriousWakeUp
<1>23. ASSUME RequestStop PROVE HandsInv'
  BY <1>23 DEF RequestStop
<1>24. ASSUME StopQueue PROVE HandsInv'
  BY <1>24 DEF StopQueue
<1>25. ASSUME NotifyAll PROVE HandsInv'
  BY <1>25 DEF NotifyAll, Asleep
<1>26. ASSUME Reset PROVE HandsInv'
  BY <1>26 DEF Reset
<1>27. ASSUME UNCHANGED serviceVars PROVE HandsInv'
  BY <1>27 DEF serviceVars
<1> QED
  BY <1>1, <1>2, <1>3, <1>4, <1>5, <1>6, <1>7, <1>8, <1>9, <1>10, <1>11, <1>12,
       <1>13, <1>14, <1>15, <1>16, <1>17, <1>18, <1>19, <1>20, <1>21, <1>22, <1>23,
       <1>24, <1>25, <1>26, <1>27
     DEF ServiceNext, Worker, IoThread

LEMMA WakeStep ==
    ASSUME ServiceTypes, HandsInv, MutexInv, WakeInv, [ServiceNext]_serviceVars
    PROVE  WakeInv'
<1> USE DEF Set, state, queues, workers, loops, cos, control, ServiceTypes
<1>0. Len(cq) \in Nat /\ Cardinality(Notifiers) \in Nat /\ Cardinality(Lookers) \in Nat
  BY PartCounts, IoServiceAssumption DEF Notifiers, Lookers
<1>1. ASSUME NEW c \in Coroutines, Schedule(c) PROVE WakeInv'
  <2>1. /\ Notifiers' = Notifiers /\ Lookers \subseteq Lookers'
        /\ \A u \in IoThreads : loop'[u] \in {"toSleep", "asleep"} =>
                                     loop[u] \in {"toSleep", "asleep"}
        /\ cq' = cq /\ queueStop' = queueStop
    BY <1>1 DEF Schedule, Notifiers, Lookers
  <2> QED BY <2>1, <1>0, WakeKept
<1>2. ASSUME NEW c \in Coroutines, AddOverflow(c) PROVE WakeInv'
  <2>1. /\ Notifiers' = Notifiers /\ Lookers \subseteq Lookers'
        /\ \A u \in IoThreads : loop'[u] \in {"toSleep", "asleep"} =>
                                     loop[u] \in {"toSleep", "asleep"}
        /\ cq' = cq /\ queueStop' = queueStop
    BY <1>2 DEF AddOverflow, Notifiers, Lookers
  <2> QED BY <2>1, <1>0, WakeKept
<1>3. ASSUME NEW c \in Coroutines, FinishCoroutine(c) PROVE WakeInv'
  <2>1. /\ Notifiers' = Notifiers /\ Lookers \subseteq Lookers'
        /\ \A u \in IoThreads : loop'[u] \in {"toSleep", "asleep"} =>
                                     loop[u] \in {"toSleep", "asleep"}
        /\ cq' = cq /\ queueStop' = queueStop
    BY <1>3 DEF FinishCoroutine, Notifiers, Lookers
  <2> QED BY <2>1, <1>0, WakeKept
<1>4. ASSUME NEW w \in QWorkers, CheckStop(w) PROVE WakeInv'
  <2>1. /\ Notifiers' = Notifiers /\ Lookers \subseteq Lookers'
        /\ \A u \in IoThreads : loop'[u] \in {"toSleep", "asleep"} =>
                                     loop[u] \in {"toSleep", "asleep"}
        /\ cq' = cq /\ queueStop' = queueStop
    BY <1>4 DEF CheckStop, Notifiers, Lookers
  <2> QED BY <2>1, <1>0, WakeKept
<1>5. ASSUME NEW w \in QWorkers, PopSubmission(w) PROVE WakeInv'
  <2>1. /\ Notifiers' = Notifiers /\ Lookers \subseteq Lookers'
        /\ \A u \in IoThreads : loop'[u] \in {"toSleep", "asleep"} =>
                                     loop[u] \in {"toSleep", "asleep"}
        /\ cq' = cq /\ queueStop' = queueStop
    BY <1>5 DEF PopSubmission, Notifiers, Lookers
  <2> QED BY <2>1, <1>0, WakeKept
<1>6. ASSUME NEW w \in QWorkers, PushCompletion(w) PROVE WakeInv'
  <2>1. Len(cq') = Len(cq) + 1
    BY <1>6, AppendTypes DEF PushCompletion, HandsInv
  <2>2. /\ Notifiers' = Notifiers \cup {w} /\ w \notin Notifiers
        /\ loop' = loop /\ Lookers' = Lookers /\ queueStop' = queueStop
    BY <1>6 DEF PushCompletion, Notifiers, Lookers
  <2>3. Cardinality(Notifiers') = Cardinality(Notifiers) + 1
    BY <2>2, ServiceCounts
  <2> QED BY <2>1, <2>2, <2>3, <1>0 DEF WakeInv
<1>7. ASSUME NEW w \in QWorkers, NotifyOne(w) PROVE WakeInv'
  <2>1. CASE Asleep = {}
    <3>1. \A t \in IoThreads : loop'[t] \notin {"toSleep", "asleep"}
      BY <1>7, <2>1, IoServiceAssumption DEF NotifyOne, Asleep, MutexInv
    <3> QED BY <3>1 DEF WakeInv
  <2>2. CASE Asleep # {}
    <3>1. PICK t \in Asleep : loop' = [loop EXCEPT ![t] = "lock"]
      BY <1>7, <2>2 DEF NotifyOne
    <3>2. /\ Notifiers' = Notifiers \ {w} /\ w \in Notifiers
          /\ Lookers' = Lookers \cup {t} /\ t \notin Lookers /\ t \in IoThreads
          /\ cq' = cq /\ queueStop' = queueStop /\ loop[t] = "asleep"
      BY <1>7, <3>1 DEF NotifyOne, Notifiers, Lookers, Asleep
    <3>3. /\ Cardinality(Notifiers') = Cardinality(Notifiers) - 1
          /\ Cardinality(Lookers') = Cardinality(Lookers) + 1
      BY <1>7, <3>2, ServiceCounts
    <3> QED BY <3>2, <3>3, <1>0 DEF WakeInv
  <2> QED BY <2>1, <2>2
<1>8. ASSUME NEW t \in IoThreads, Top(t) PROVE WakeInv'
  <2>1. /\ Notifiers' = Notifiers /\ Lookers \subseteq Lookers'
        /\ \A u \in IoThreads : loop'[u] \in {"toSleep", "asleep"} =>
                                     loop[u] \in {"toSleep", "asleep"}
        /\ cq' = cq /\ queueStop' = queueStop
    BY <1>8 DEF Top, Notifiers, Lookers
  <2> QED BY <2>1, <1>0, WakeKept
<1>9. ASSUME NEW t \in IoThreads, TakeOverflow(t) PROVE WakeInv'
  <2>1. /\ Notifiers' = Notifiers /\ Lookers \subseteq Lookers'
        /\ \A u \in IoThreads : loop'[u] \in {"toSleep", "asleep"} =>
                                     loop[u] \in {"toSleep", "asleep"}
        /\ cq' = cq /\ queueStop' = queueStop
    BY <1>9 DEF TakeOverflow, Dequeue, Notifiers, Lookers
  <2> QED BY <2>1, <1>0, WakeKept
<1>10. ASSUME NEW t \in IoThreads, Resubmit(t) PROVE WakeInv'
  <2>1. /\ Notifiers' = Notifiers /\ Lookers \subseteq Lookers'
        /\ \A u \in IoThreads : loop'[u] \in {"toSleep", "asleep"} =>
                                     loop[u] \in {"toSleep", "asleep"}
        /\ cq' = cq /\ queueStop' = queueStop
    BY <1>10 DEF Resubmit, Dequeue, Notifiers, Lookers
  <2> QED BY <2>1, <1>0, WakeKept
<1>11. ASSUME NEW t \in IoThreads, PutBack(t) PROVE WakeInv'
  <2>1. /\ Notifiers' = Notifiers /\ Lookers \subseteq Lookers'
        /\ \A u \in IoThreads : loop'[u] \in {"toSleep", "asleep"} =>
                                     loop[u] \in {"toSleep", "asleep"}
        /\ cq' = cq /\ queueStop' = queueStop
    BY <1>11 DEF PutBack, Dequeue, Notifiers, Lookers
  <2> QED BY <2>1, <1>0, WakeKept
<1>12. ASSUME NEW t \in IoThreads, Peek(t) PROVE WakeInv'
  <2>1. cq' = cq \/ (cq # <<>> /\ cq' = Tail(cq))
    BY <1>12 DEF Peek, PopMessage
  <2>2. Len(cq') \in Nat /\ Len(cq') <= Len(cq)
    BY <2>1, TailTypes
  <2>3. /\ Notifiers' = Notifiers /\ Lookers \subseteq Lookers'
        /\ \A u \in IoThreads : loop'[u] \in {"toSleep", "asleep"} =>
                                     loop[u] \in {"toSleep", "asleep"}
        /\ queueStop' = queueStop
    BY <1>12 DEF Peek, PopMessage, Notifiers, Lookers
  <2> QED BY <2>2, <2>3, <1>0, WakeKept
<1>13. ASSUME NEW t \in IoThreads, Lock(t) PROVE WakeInv'
  <2>1. /\ Notifiers' = Notifiers /\ Lookers \subseteq Lookers'
        /\ \A u \in IoThreads : loop'[u] \in {"toSleep", "asleep"} =>
                                     loop[u] \in {"toSleep", "asleep"}
        /\ cq' = cq /\ queueStop' = queueStop
    BY <1>13 DEF Lock, Notifiers, Lookers
  <2> QED BY <2>1, <1>0, WakeKept
<1>14. ASSUME NEW t \in IoThreads, Predicate(t) PROVE WakeInv'
  <2>1. CASE cq # <<>> \/ queueStop
    <3>1. /\ Notifiers' = Notifiers /\ Lookers \subseteq Lookers'
          /\ \A u \in IoThreads : loop'[u] \in {"toSleep", "asleep"} =>
                                       loop[u] \in {"toSleep", "asleep"}
          /\ cq' = cq /\ queueStop' = queueStop
      BY <1>14, <2>1 DEF Predicate, Notifiers, Lookers
    <3> QED BY <3>1, <1>0, WakeKept
  <2>2. CASE cq = <<>> /\ ~queueStop
    <3>1. Len(cq') = 0
      BY <1>14, <2>2 DEF Predicate
    <3>2. Cardinality(Notifiers') \in Nat /\ Cardinality(Lookers') \in Nat
      BY PartCounts, IoServiceAssumption DEF Notifiers, Lookers
    <3> QED BY <3>1, <3>2 DEF WakeInv
  <2> QED BY <2>1, <2>2
<1>15. ASSUME NEW t \in IoThreads, Sleep(t) PROVE WakeInv'
  <2>1. /\ Notifiers' = Notifiers /\ Lookers \subseteq Lookers'
        /\ \A u \in IoThreads : loop'[u] \in {"toSleep", "asleep"} =>
                                     loop[u] \in {"toSleep", "asleep"}
        /\ cq' = cq /\ queueStop' = queueStop
    BY <1>15 DEF Sleep, Notifiers, Lookers
  <2> QED BY <2>1, <1>0, WakeKept
<1>16. ASSUME NEW t \in IoThreads, LookAtStop(t) PROVE WakeInv'
  <2>1. CASE queueStop
    BY <1>16, <2>1 DEF LookAtStop, WakeInv
  <2>2. CASE ~queueStop
    <3>1. /\ Notifiers' = Notifiers /\ Lookers \subseteq Lookers'
          /\ \A u \in IoThreads : loop'[u] \in {"toSleep", "asleep"} =>
                                       loop[u] \in {"toSleep", "asleep"}
          /\ cq' = cq /\ queueStop' = queueStop
      BY <1>16, <2>2 DEF LookAtStop, Notifiers, Lookers
    <3> QED BY <3>1, <1>0, WakeKept
  <2> QED BY <2>1, <2>2
<1>17. ASSUME NEW t \in IoThreads, PopLocked(t) PROVE WakeInv'
  <2>1. /\ Notifiers' = Notifiers /\ Lookers' = Lookers \ {t} /\ t \in Lookers
        /\ \A u \in IoThreads : loop'[u] \in {"toSleep", "asleep"} =>
                                     loop[u] \in {"toSleep", "asleep"}
        /\ queueStop' = queueStop
    BY <1>17 DEF PopLocked, PopMessage, Notifiers, Lookers
  <2>2. Cardinality(Lookers') = Cardinality(Lookers) - 1 /\ Cardinality(Lookers) > 0
    BY <1>17, <2>1, ServiceCounts
  <2>3. CASE cq = <<>>
    <3>1. Len(cq') = 0
      BY <1>17, <2>3 DEF PopLocked, PopMessage
    <3> QED BY <2>1, <2>2, <3>1, <1>0 DEF WakeInv
  <2>4. CASE cq # <<>>
    <3>1. Len(cq') = Len(cq) - 1
      BY <1>17, <2>4, TailTypes DEF PopLocked, PopMessage
    <3> QED BY <2>1, <2>2, <3>1, <1>0 DEF WakeInv
  <2> QED BY <2>3, <2>4
<1>18. ASSUME NEW t \in IoThreads, ResumeCoroutine(t) PROVE WakeInv'
  <2>1. /\ Notifiers' = Notifiers /\ Lookers \subseteq Lookers'
        /\ \A u \in IoThreads : loop'[u] \in {"toSleep", "asleep"} =>
                                     loop[u] \in {"toSleep", "asleep"}
        /\ cq' = cq /\ queueStop' = queueStop
    BY <1>18 DEF ResumeCoroutine, Notifiers, Lookers
  <2> QED BY <2>1, <1>0, WakeKept
<1>19. ASSUME NEW t \in IoThreads, Resumed(t) PROVE WakeInv'
  <2>1. /\ Notifiers' = Notifiers /\ Lookers \subseteq Lookers'
        /\ \A u \in IoThreads : loop'[u] \in {"toSleep", "asleep"} =>
                                     loop[u] \in {"toSleep", "asleep"}
        /\ cq' = cq /\ queueStop' = queueStop
    BY <1>19 DEF Resumed, Notifiers, Lookers
  <2> QED BY <2>1, <1>0, WakeKept
<1>20. ASSUME NEW t \in IoThreads, Leave(t) PROVE WakeInv'
  <2>1. /\ Notifiers' = Notifiers /\ Lookers \subseteq Lookers'
        /\ \A u \in IoThreads : loop'[u] \in {"toSleep", "asleep"} =>
                                     loop[u] \in {"toSleep", "asleep"}
        /\ cq' = cq /\ queueStop' = queueStop
    BY <1>20 DEF Leave, Notifiers, Lookers
  <2> QED BY <2>1, <1>0, WakeKept
<1>21. ASSUME NEW t \in IoThreads, Enter(t) PROVE WakeInv'
  <2>1. /\ Notifiers' = Notifiers /\ Lookers \subseteq Lookers'
        /\ \A u \in IoThreads : loop'[u] \in {"toSleep", "asleep"} =>
                                     loop[u] \in {"toSleep", "asleep"}
        /\ cq' = cq /\ queueStop' = queueStop
    BY <1>21 DEF Enter, TryEnterEventLoop, Notifiers, Lookers
  <2> QED BY <2>1, <1>0, WakeKept
<1>22. ASSUME NEW t \in IoThreads, SpuriousWakeUp(t) PROVE WakeInv'
  <2>1. /\ Notifiers' = Notifiers /\ Lookers \subseteq Lookers'
        /\ \A u \in IoThreads : loop'[u] \in {"toSleep", "asleep"} =>
                                     loop[u] \in {"toSleep", "asleep"}
        /\ cq' = cq /\ queueStop' = queueStop
    BY <1>22 DEF SpuriousWakeUp, Notifiers, Lookers
  <2> QED BY <2>1, <1>0, WakeKept
<1>23. ASSUME RequestStop PROVE WakeInv'
  <2>1. /\ Notifiers' = Notifiers /\ Lookers \subseteq Lookers'
        /\ \A u \in IoThreads : loop'[u] \in {"toSleep", "asleep"} =>
                                     loop[u] \in {"toSleep", "asleep"}
        /\ cq' = cq /\ queueStop' = queueStop
    BY <1>23 DEF RequestStop, Notifiers, Lookers
  <2> QED BY <2>1, <1>0, WakeKept
<1>24. ASSUME StopQueue PROVE WakeInv'
  BY <1>24 DEF StopQueue, WakeInv
<1>25. ASSUME NotifyAll PROVE WakeInv'
  <2>1. /\ Notifiers' = Notifiers /\ Lookers \subseteq Lookers'
        /\ \A u \in IoThreads : loop'[u] \in {"toSleep", "asleep"} =>
                                     loop[u] \in {"toSleep", "asleep"}
        /\ cq' = cq /\ queueStop' = queueStop
    BY <1>25 DEF NotifyAll, Asleep, Notifiers, Lookers
  <2> QED BY <2>1, <1>0, WakeKept
<1>26. ASSUME Reset PROVE WakeInv'
  <2>1. /\ Notifiers' = Notifiers /\ Lookers \subseteq Lookers'
        /\ \A u \in IoThreads : loop'[u] \in {"toSleep", "asleep"} =>
                                     loop[u] \in {"toSleep", "asleep"}
        /\ cq' = cq /\ queueStop' = queueStop
    BY <1>26 DEF Reset, Notifiers, Lookers
  <2> QED BY <2>1, <1>0, WakeKept
<1>27. ASSUME UNCHANGED serviceVars PROVE WakeInv'
  BY <1>27 DEF serviceVars, WakeInv, Notifiers, Lookers
<1> QED
  BY <1>1, <1>2, <1>3, <1>4, <1>5, <1>6, <1>7, <1>8, <1>9, <1>10, <1>11, <1>12,
       <1>13, <1>14, <1>15, <1>16, <1>17, <1>18, <1>19, <1>20, <1>21, <1>22, <1>23,
       <1>24, <1>25, <1>26, <1>27
     DEF ServiceNext, Worker, IoThread

\* Before stop() no thread sleeps on a message.
LEMMA WakeUpAnswers == ServiceTypes /\ WakeInv => NoSleepOnMessage
<1> SUFFICES ASSUME ServiceTypes, WakeInv, cq # <<>>, Asleep # {}, ~queueStop,
                    Notifiers = {}, Lookers = {}
             PROVE  FALSE
  BY DEF NoSleepOnMessage, Notifiers, Lookers
<1>1. Len(cq) \in Nat /\ Len(cq) # 0
  BY TailTypes DEF ServiceTypes
<1>2. Len(cq) <= Cardinality(Notifiers) + Cardinality(Lookers)
  BY DEF WakeInv, Asleep
<1>3. Cardinality({}) = 0
  BY FS_EmptySet
<1> QED BY <1>1, <1>2, <1>3

LEMMA SpotsKept ==
    ASSUME Spots, UNCHANGED <<overflow, sq, cq, carried, mine>>,
           \A t \in IoThreads : \A c \in Coroutines : Resumes(t, c)' <=> Resumes(t, c),
           \A c \in Coroutines : coPc'[c] = "suspended" <=> coPc[c] = "suspended"
    PROVE  Spots'
<1>1. DistinctInv'
  BY DEF Spots, DistinctInv
<1>2. \A t \in IoThreads : \A c : Keeps(t, c)' <=> Keeps(t, c)
  BY DEF Keeps
<1>3. \A w \in QWorkers : \A c : Carries(w, c)' <=> Carries(w, c)
  BY DEF Carries
<1>4. ExclusiveInv'
  BY <1>2, <1>3 DEF Spots, ExclusiveInv, Exclusive
<1>5. SuspendedInv'
  BY <1>2, <1>3 DEF Spots, SuspendedInv, Held
<1> QED BY <1>1, <1>4, <1>5 DEF Spots

LEMMA SpotsStep ==
    ASSUME ServiceTypes, HandsInv, Spots, [ServiceNext]_serviceVars
    PROVE  Spots'
<1> USE DEF Set, state, queues, workers, loops, cos, control, ServiceTypes
<1>1. ASSUME NEW c \in Coroutines, Schedule(c) PROVE Spots'
  <2>1. CASE Len(sq) < Capacity
    <3>1. coPc[c] # "suspended" /\ ~Held(c)
      BY <1>1 DEF Schedule, Spots, SuspendedInv
    <3>2. /\ sq' = Append(sq, c) /\ coPc' = [coPc EXCEPT ![c] = "suspended"]
          /\ UNCHANGED <<overflow, cq, carried, mine, loop, dequeued>>
      BY <1>1, <2>1 DEF Schedule
    <3>3. Distinct(sq') /\ \A d : In(d, sq') <=> In(d, sq) \/ d = c
      BY <1>1, <3>1, <3>2, AppendHolds DEF Held, Spots, DistinctInv
    <3>5. \A d \in Coroutines :
             /\ In(d, overflow)' <=> In(d, overflow)
             /\ In(d, sq)' <=> In(d, sq) \/ d = c
             /\ In(d, cq)' <=> In(d, cq)
             /\ \A v \in QWorkers : Carries(v, d)' <=> Carries(v, d)
             /\ \A u \in IoThreads : Keeps(u, d)' <=> Keeps(u, d)
             /\ \A u \in IoThreads : Resumes(u, d)' <=> Resumes(u, d)
             /\ coPc'[d] = "suspended" <=> coPc[d] = "suspended" \/ d = c
      BY <3>2, <3>3 DEF In, Carries, Keeps, Resumes
    <3>6. DistinctInv'
      BY <3>2, <3>3 DEF Spots, DistinctInv
    <3>7. ExclusiveInv'
      BY <1>1, <3>1, <3>5 DEF Spots, ExclusiveInv, Exclusive, Held
    <3>8. SuspendedInv'
      BY <1>1, <3>1, <3>5 DEF Spots, SuspendedInv, Held
    <3> QED BY <3>6, <3>7, <3>8 DEF Spots
  <2>2. CASE ~(Len(sq) < Capacity)
    <3>1. /\ UNCHANGED <<overflow, sq, cq, carried, mine>>
          /\ \A u \in IoThreads : \A d \in Coroutines : Resumes(u, d)' <=> Resumes(u, d)
          /\ \A d \in Coroutines : coPc'[d] = "suspended" <=> coPc[d] = "suspended"
      BY <1>1, <2>2 DEF Schedule, Resumes
    <3> QED BY <3>1, SpotsKept
  <2> QED BY <2>1, <2>2
<1>2. ASSUME NEW c \in Coroutines, AddOverflow(c) PROVE Spots'
  <2>1. coPc[c] # "suspended" /\ ~Held(c)
    BY <1>2, IoServiceAssumption DEF AddOverflow, Spots, SuspendedInv
  <2>2. /\ overflow' = <<c>> \o overflow
        /\ coPc' = [coPc EXCEPT ![c] = "suspended"]
        /\ UNCHANGED <<sq, cq, carried, mine, loop, dequeued>>
    BY <1>2 DEF AddOverflow
  <2>3. Distinct(overflow') /\ \A d : In(d, overflow') <=> In(d, overflow) \/ d = c
    <3>1. <<c>> \in Seq(Coroutines) /\ Distinct(<<c>>) /\ \A d : In(d, <<c>>) <=> d = c
      BY <1>2, SingleHolds
    <3>2. \A d \in Coroutines : ~(In(d, <<c>>) /\ In(d, overflow))
      BY <2>1, <3>1 DEF Held
    <3> QED BY <2>2, <3>1, <3>2, ConcatHolds DEF Spots, DistinctInv
  <2>5. \A d \in Coroutines :
           /\ In(d, overflow)' <=> In(d, overflow) \/ d = c
           /\ In(d, sq)' <=> In(d, sq)
           /\ In(d, cq)' <=> In(d, cq)
           /\ \A v \in QWorkers : Carries(v, d)' <=> Carries(v, d)
           /\ \A u \in IoThreads : Keeps(u, d)' <=> Keeps(u, d)
           /\ \A u \in IoThreads : Resumes(u, d)' <=> Resumes(u, d)
           /\ coPc'[d] = "suspended" <=> coPc[d] = "suspended" \/ d = c
    BY <1>2, <2>1, <2>2, <2>3 DEF In, Carries, Keeps, Resumes
  <2>6. DistinctInv'
    BY <1>2, <2>1, <2>2, <2>3 DEF In, Spots, DistinctInv
  <2>7. ExclusiveInv'
    <3>1. ASSUME NEW d \in Coroutines PROVE Exclusive(d)'
      <4> HIDE DEF ServiceTypes
      <4>1. Exclusive(d)
        BY DEF Spots, ExclusiveInv
      <4> QED BY <1>2, <2>1, <2>5, <4>1 DEF Exclusive, Held
    <3> QED BY <3>1 DEF ExclusiveInv
  <2>8. SuspendedInv'
    <3>1. ASSUME NEW d \in Coroutines PROVE coPc'[d] = "suspended" <=> Held(d)'
      <4> HIDE DEF ServiceTypes
      <4>1. coPc[d] = "suspended" <=> Held(d)
        BY DEF Spots, SuspendedInv
      <4> QED BY <1>2, <2>1, <2>2, <2>3, <2>5, <4>1 DEF Held
    <3> QED BY <3>1 DEF SuspendedInv
  <2> QED BY <2>6, <2>7, <2>8 DEF Spots
<1>3. ASSUME NEW c \in Coroutines, FinishCoroutine(c) PROVE Spots'
  <2>1. /\ UNCHANGED <<overflow, sq, cq, carried, mine>>
        /\ \A u \in IoThreads : \A d \in Coroutines : Resumes(u, d)' <=> Resumes(u, d)
        /\ \A d \in Coroutines : coPc'[d] = "suspended" <=> coPc[d] = "suspended"
    BY <1>3 DEF FinishCoroutine, Resumes
  <2> QED BY <2>1, SpotsKept
<1>4. ASSUME NEW w \in QWorkers, CheckStop(w) PROVE Spots'
  <2>1. /\ UNCHANGED <<overflow, sq, cq, carried, mine>>
        /\ \A u \in IoThreads : \A d \in Coroutines : Resumes(u, d)' <=> Resumes(u, d)
        /\ \A d \in Coroutines : coPc'[d] = "suspended" <=> coPc[d] = "suspended"
    BY <1>4 DEF CheckStop, Resumes
  <2> QED BY <2>1, SpotsKept
<1>5. ASSUME NEW w \in QWorkers, PopSubmission(w) PROVE Spots'
  <2>1. CASE sq = <<>>
    <3>1. /\ UNCHANGED <<overflow, sq, cq, carried, mine>>
          /\ \A u \in IoThreads : \A d \in Coroutines : Resumes(u, d)' <=> Resumes(u, d)
          /\ \A d \in Coroutines : coPc'[d] = "suspended" <=> coPc[d] = "suspended"
      BY <1>5, <2>1 DEF PopSubmission, Resumes
    <3> QED BY <3>1, SpotsKept
  <2>2. CASE sq # <<>>
    <3>1. /\ \A d \in Coroutines : ~Carries(w, d)
          /\ In(Head(sq), sq) /\ Head(sq) \in Coroutines
      <4>1. carried[w] = None
        BY <1>5 DEF PopSubmission, HandsInv
      <4> QED BY <2>2, <4>1, TailHolds, IoServiceAssumption DEF Carries, Spots,
           DistinctInv
    <3>2. /\ sq' = Tail(sq) /\ carried' = [carried EXCEPT ![w] = Head(sq)]
          /\ UNCHANGED <<overflow, cq, mine, loop, dequeued, coPc>>
      BY <1>5, <2>2 DEF PopSubmission
    <3>3. Distinct(sq') /\ \A d : In(d, sq') <=> In(d, sq) /\ d # Head(sq)
      BY <1>5, <2>2, <3>1, <3>2, TailHolds DEF Spots, DistinctInv
    <3>5. \A d \in Coroutines :
             /\ In(d, overflow)' <=> In(d, overflow)
             /\ In(d, sq)' <=> In(d, sq) /\ d # Head(sq)
             /\ In(d, cq)' <=> In(d, cq)
             /\ \A v \in QWorkers : Carries(v, d)' <=>
                    IF v = w THEN d = Head(sq) ELSE Carries(v, d)
             /\ \A u \in IoThreads : Keeps(u, d)' <=> Keeps(u, d)
             /\ \A u \in IoThreads : Resumes(u, d)' <=> Resumes(u, d)
             /\ coPc'[d] = "suspended" <=> coPc[d] = "suspended"
      BY <1>5, <3>1, <3>2, <3>3 DEF In, Carries, Keeps, Resumes
    <3>6. DistinctInv'
      BY <1>5, <3>1, <3>2, <3>3 DEF In, Spots, DistinctInv
    <3>7. ExclusiveInv'
      <4>1. ASSUME NEW d \in Coroutines PROVE Exclusive(d)'
        <5> HIDE DEF ServiceTypes
        <5>1. Exclusive(d)
          BY DEF Spots, ExclusiveInv
        <5> QED BY <1>5, <3>1, <3>2, <3>3, <3>5, <5>1 DEF Exclusive
      <4> QED BY <4>1 DEF ExclusiveInv
    <3>8. SuspendedInv'
      <4>1. ASSUME NEW d \in Coroutines PROVE coPc'[d] = "suspended" <=> Held(d)'
        <5> HIDE DEF ServiceTypes
        <5>1. coPc[d] = "suspended" <=> Held(d)
          BY DEF Spots, SuspendedInv
        <5> QED BY <1>5, <3>1, <3>2, <3>3, <3>5, <5>1 DEF Held
      <4> QED BY <4>1 DEF SuspendedInv
    <3> QED BY <3>6, <3>7, <3>8 DEF Spots
  <2> QED BY <2>1, <2>2
<1>6. ASSUME NEW w \in QWorkers, PushCompletion(w) PROVE Spots'
  <2>1. /\ carried[w] \in Coroutines /\ ~In(carried[w], cq)
        /\ \A d : Carries(w, d) <=> d = carried[w]
    BY <1>6 DEF PushCompletion, HandsInv, Carries, Spots, ExclusiveInv, Exclusive
  <2>2. /\ cq' = Append(cq, carried[w]) /\ carried' = [carried EXCEPT ![w] = None]
        /\ UNCHANGED <<overflow, sq, mine, loop, dequeued, coPc>>
    BY <1>6 DEF PushCompletion
  <2>3. Distinct(cq') /\ \A d : In(d, cq') <=> In(d, cq) \/ d = carried[w]
    BY <1>6, <2>1, <2>2, AppendHolds DEF Spots, DistinctInv
  <2>5. \A d \in Coroutines :
           /\ In(d, overflow)' <=> In(d, overflow)
           /\ In(d, sq)' <=> In(d, sq)
           /\ In(d, cq)' <=> In(d, cq) \/ d = carried[w]
           /\ \A v \in QWorkers : Carries(v, d)' <=> v # w /\ Carries(v, d)
           /\ \A u \in IoThreads : Keeps(u, d)' <=> Keeps(u, d)
           /\ \A u \in IoThreads : Resumes(u, d)' <=> Resumes(u, d)
           /\ coPc'[d] = "suspended" <=> coPc[d] = "suspended"
    <3> HIDE DEF ServiceTypes
    <3>1. \A v \in QWorkers : \A d \in Coroutines : Carries(v, d)' <=> v # w /\ Carries(v, d)
      <4>1. \A v \in QWorkers : carried'[v] = IF v = w THEN None ELSE carried[v]
        BY <2>2 DEF ServiceTypes
      <4> QED BY <4>1, IoServiceAssumption DEF Carries
    <3>2. \A d \in Coroutines :
             /\ \A u \in IoThreads : Keeps(u, d)' <=> Keeps(u, d)
             /\ \A u \in IoThreads : Resumes(u, d)' <=> Resumes(u, d)
             /\ coPc'[d] = "suspended" <=> coPc[d] = "suspended"
      BY <2>2 DEF Keeps, Resumes, In
    <3>3. \A d \in Coroutines : In(d, overflow)' <=> In(d, overflow)
      BY <2>2 DEF In
    <3>4. \A d \in Coroutines : In(d, sq)' <=> In(d, sq)
      BY <2>2 DEF In
    <3> QED BY <2>3, <3>1, <3>2, <3>3, <3>4
  <2>6. DistinctInv'
    BY <1>6, <2>1, <2>2, <2>3 DEF In, Spots, DistinctInv
  <2>7. ExclusiveInv'
    <3>1. ASSUME NEW d \in Coroutines PROVE Exclusive(d)'
      <4> HIDE DEF ServiceTypes
      <4>1. Exclusive(d)
        BY DEF Spots, ExclusiveInv
      <4> QED BY <1>6, <2>1, <2>2, <2>3, <2>5, <4>1 DEF Exclusive
    <3> QED BY <3>1 DEF ExclusiveInv
  <2>8. SuspendedInv'
    <3>1. ASSUME NEW d \in Coroutines PROVE coPc'[d] = "suspended" <=> Held(d)'
      <4> HIDE DEF ServiceTypes
      <4>1. coPc[d] = "suspended" <=> Held(d)
        BY DEF Spots, SuspendedInv
      <4> QED BY <1>6, <2>1, <2>2, <2>3, <2>5, <4>1 DEF Held
    <3> QED BY <3>1 DEF SuspendedInv
  <2> QED BY <2>6, <2>7, <2>8 DEF Spots
<1>7. ASSUME NEW w \in QWorkers, NotifyOne(w) PROVE Spots'
  <2>1. /\ UNCHANGED <<overflow, sq, cq, carried, mine>>
        /\ \A u \in IoThreads : \A d \in Coroutines : Resumes(u, d)' <=> Resumes(u, d)
        /\ \A d \in Coroutines : coPc'[d] = "suspended" <=> coPc[d] = "suspended"
    BY <1>7 DEF NotifyOne, Asleep, Resumes
  <2> QED BY <2>1, SpotsKept
<1>8. ASSUME NEW t \in IoThreads, Top(t) PROVE Spots'
  <2>1. /\ UNCHANGED <<overflow, sq, cq, carried, mine>>
        /\ \A u \in IoThreads : \A d \in Coroutines : Resumes(u, d)' <=> Resumes(u, d)
        /\ \A d \in Coroutines : coPc'[d] = "suspended" <=> coPc[d] = "suspended"
    BY <1>8 DEF Top, Resumes
  <2> QED BY <2>1, SpotsKept
<1>9. ASSUME NEW t \in IoThreads, TakeOverflow(t) PROVE Spots'
  <2>1. loop[t] = "overflow" /\ mine[t] = <<>> /\ \A d : ~Keeps(t, d)
    BY <1>9, EmptyHolds DEF TakeOverflow, HandsInv, Keeps
  <2>2. /\ overflow' = <<>> /\ mine' = [mine EXCEPT ![t] = overflow]
        /\ UNCHANGED <<sq, cq, carried, dequeued, coPc>>
        /\ \A u \in IoThreads : loop'[u] = "resume" <=> loop[u] = "resume"
    BY <1>9 DEF TakeOverflow, Dequeue
  <2>3. Distinct(overflow') /\ \A d : ~In(d, overflow')
    BY <1>9, <2>1, <2>2, EmptyHolds
  <2>5. \A d \in Coroutines :
           /\ ~In(d, overflow)'
           /\ In(d, sq)' <=> In(d, sq)
           /\ In(d, cq)' <=> In(d, cq)
           /\ \A v \in QWorkers : Carries(v, d)' <=> Carries(v, d)
           /\ \A u \in IoThreads : Keeps(u, d)' <=>
                  IF u = t THEN In(d, overflow) ELSE Keeps(u, d)
           /\ \A u \in IoThreads : Resumes(u, d)' <=> Resumes(u, d)
           /\ coPc'[d] = "suspended" <=> coPc[d] = "suspended"
    BY <1>9, <2>1, <2>2, <2>3 DEF In, Carries, Keeps, Resumes
  <2>6. DistinctInv'
    BY <1>9, <2>1, <2>2, <2>3 DEF In, Spots, DistinctInv
  <2>7. ExclusiveInv'
    <3>1. ASSUME NEW d \in Coroutines PROVE Exclusive(d)'
      <4> HIDE DEF ServiceTypes
      <4>1. Exclusive(d)
        BY DEF Spots, ExclusiveInv
      <4> QED BY <1>9, <2>1, <2>2, <2>3, <2>5, <4>1 DEF Exclusive
    <3> QED BY <3>1 DEF ExclusiveInv
  <2>8. SuspendedInv'
    <3>1. ASSUME NEW d \in Coroutines PROVE coPc'[d] = "suspended" <=> Held(d)'
      <4> HIDE DEF ServiceTypes
      <4>1. coPc[d] = "suspended" <=> Held(d)
        BY DEF Spots, SuspendedInv
      <4> QED BY <1>9, <2>1, <2>2, <2>3, <2>5, <4>1 DEF Held
    <3> QED BY <3>1 DEF SuspendedInv
  <2> QED BY <2>6, <2>7, <2>8 DEF Spots
<1>10. ASSUME NEW t \in IoThreads, Resubmit(t) PROVE Spots'
  <2>1. CASE Len(sq) < Capacity
    <3>1. /\ mine[t] # <<>> /\ Head(mine[t]) \in Coroutines /\ Keeps(t, Head(mine[t]))
          /\ ~In(Head(mine[t]), sq)
      BY <1>10, <2>1, TailHolds DEF Resubmit, HandsInv, Keeps, Spots, DistinctInv,
           ExclusiveInv, Exclusive
    <3>2. /\ sq' = Append(sq, Head(mine[t])) /\ mine' = [mine EXCEPT ![t] = Tail(mine[t])]
          /\ UNCHANGED <<overflow, cq, carried, dequeued, coPc>>
          /\ \A u \in IoThreads : loop'[u] = "resume" <=> loop[u] = "resume"
      BY <1>10, <2>1 DEF Resubmit, Dequeue
    <3>3. /\ Distinct(sq') /\ \A d : In(d, sq') <=> In(d, sq) \/ d = Head(mine[t])
          /\ Distinct(mine'[t])
          /\ \A d : In(d, mine'[t]) <=> In(d, mine[t]) /\ d # Head(mine[t])
      BY <1>10, <2>1, <3>1, <3>2, TailHolds, AppendHolds DEF Spots, DistinctInv
    <3>4. \A d : \A u \in IoThreads :
             In(d, mine'[u]) <=> In(d, mine[u]) /\ ~(u = t /\ d = Head(mine[t]))
      BY <3>2, <3>3
    <3>5. \A d \in Coroutines :
             /\ In(d, overflow)' <=> In(d, overflow)
             /\ In(d, sq)' <=> In(d, sq) \/ d = Head(mine[t])
             /\ In(d, cq)' <=> In(d, cq)
             /\ \A v \in QWorkers : Carries(v, d)' <=> Carries(v, d)
             /\ \A u \in IoThreads :
                   Keeps(u, d)' <=> Keeps(u, d) /\ ~(u = t /\ d = Head(mine[t]))
             /\ \A u \in IoThreads : Resumes(u, d)' <=> Resumes(u, d)
             /\ coPc'[d] = "suspended" <=> coPc[d] = "suspended"
      BY <1>10, <3>1, <3>2, <3>3, <3>4 DEF In, Carries, Keeps, Resumes
    <3>6. DistinctInv'
      BY <1>10, <3>1, <3>2, <3>3 DEF In, Spots, DistinctInv
    <3>7. ExclusiveInv'
      <4>1. ASSUME NEW d \in Coroutines PROVE Exclusive(d)'
        <5> HIDE DEF ServiceTypes
        <5>1. Exclusive(d)
          BY DEF Spots, ExclusiveInv
        <5> QED BY <1>10, <3>1, <3>2, <3>3, <3>5, <5>1 DEF Exclusive
      <4> QED BY <4>1 DEF ExclusiveInv
    <3>8. SuspendedInv'
      <4>1. ASSUME NEW d \in Coroutines PROVE coPc'[d] = "suspended" <=> Held(d)'
        <5> HIDE DEF ServiceTypes
        <5>1. coPc[d] = "suspended" <=> Held(d)
          BY DEF Spots, SuspendedInv
        <5> QED BY <1>10, <3>1, <3>2, <3>3, <3>5, <5>1 DEF Held
      <4> QED BY <4>1 DEF SuspendedInv
    <3> QED BY <3>6, <3>7, <3>8 DEF Spots
  <2>2. CASE ~(Len(sq) < Capacity)
    <3>1. /\ UNCHANGED <<overflow, sq, cq, carried, mine>>
          /\ \A u \in IoThreads : \A d \in Coroutines : Resumes(u, d)' <=> Resumes(u, d)
          /\ \A d \in Coroutines : coPc'[d] = "suspended" <=> coPc[d] = "suspended"
      BY <1>10, <2>2 DEF Resubmit, Resumes
    <3> QED BY <3>1, SpotsKept
  <2> QED BY <2>1, <2>2
<1>11. ASSUME NEW t \in IoThreads, PutBack(t) PROVE Spots'
  <2>1. loop[t] = "putBack" /\ \A d \in Coroutines : ~(In(d, mine[t]) /\ In(d, overflow))
    BY <1>11 DEF PutBack, Keeps, Spots, ExclusiveInv, Exclusive
  <2>2. /\ overflow' = mine[t] \o overflow /\ mine' = [mine EXCEPT ![t] = <<>>]
        /\ UNCHANGED <<sq, cq, carried, dequeued, coPc>>
        /\ \A u \in IoThreads : loop'[u] = "resume" <=> loop[u] = "resume"
    BY <1>11 DEF PutBack, Dequeue
  <2>3. /\ Distinct(overflow')
        /\ \A d : In(d, overflow') <=> In(d, mine[t]) \/ In(d, overflow)
        /\ Distinct(mine'[t]) /\ \A d : ~In(d, mine'[t])
    BY <1>11, <2>1, <2>2, ConcatHolds, EmptyHolds DEF Spots, DistinctInv
  <2>5. \A d \in Coroutines :
           /\ In(d, overflow)' <=> Keeps(t, d) \/ In(d, overflow)
           /\ In(d, sq)' <=> In(d, sq)
           /\ In(d, cq)' <=> In(d, cq)
           /\ \A v \in QWorkers : Carries(v, d)' <=> Carries(v, d)
           /\ \A u \in IoThreads : Keeps(u, d)' <=> u # t /\ Keeps(u, d)
           /\ \A u \in IoThreads : Resumes(u, d)' <=> Resumes(u, d)
           /\ coPc'[d] = "suspended" <=> coPc[d] = "suspended"
    <3> HIDE DEF ServiceTypes
    <3>1. \A u \in IoThreads : mine'[u] = IF u = t THEN <<>> ELSE mine[u]
      BY <2>2 DEF ServiceTypes
    <3>2. \A d \in Coroutines : \A u \in IoThreads : Keeps(u, d)' <=> u # t /\ Keeps(u, d)
      BY <2>3, <3>1 DEF Keeps
    <3>3. \A d \in Coroutines : In(d, sq)' <=> In(d, sq)
      BY <2>2 DEF In
    <3>4. \A d \in Coroutines : In(d, cq)' <=> In(d, cq)
      BY <2>2 DEF In
    <3>5. \A d \in Coroutines :
             /\ \A v \in QWorkers : Carries(v, d)' <=> Carries(v, d)
             /\ \A u \in IoThreads : Resumes(u, d)' <=> Resumes(u, d)
             /\ coPc'[d] = "suspended" <=> coPc[d] = "suspended"
      BY <2>2 DEF Carries, Resumes
    <3> QED BY <2>3, <3>2, <3>3, <3>4, <3>5 DEF Keeps
  <2>6. DistinctInv'
    BY <1>11, <2>1, <2>2, <2>3 DEF In, Spots, DistinctInv
  <2>7. ExclusiveInv'
    <3>1. ASSUME NEW d \in Coroutines PROVE Exclusive(d)'
      <4> HIDE DEF ServiceTypes
      <4>1. Exclusive(d)
        BY DEF Spots, ExclusiveInv
      <4> QED BY <1>11, <2>1, <2>2, <2>3, <2>5, <4>1 DEF Exclusive
    <3> QED BY <3>1 DEF ExclusiveInv
  <2>8. SuspendedInv'
    <3>1. ASSUME NEW d \in Coroutines PROVE coPc'[d] = "suspended" <=> Held(d)'
      <4> HIDE DEF ServiceTypes
      <4>1. coPc[d] = "suspended" <=> Held(d)
        BY DEF Spots, SuspendedInv
      <4> QED BY <1>11, <2>1, <2>2, <2>3, <2>5, <4>1 DEF Held
    <3> QED BY <3>1 DEF SuspendedInv
  <2> QED BY <2>6, <2>7, <2>8 DEF Spots
<1>12. ASSUME NEW t \in IoThreads, Peek(t) PROVE Spots'
  <2>1. CASE cq = <<>>
    <3>1. /\ UNCHANGED <<overflow, sq, cq, carried, mine>>
          /\ \A u \in IoThreads : \A d \in Coroutines : Resumes(u, d)' <=> Resumes(u, d)
          /\ \A d \in Coroutines : coPc'[d] = "suspended" <=> coPc[d] = "suspended"
      BY <1>12, <2>1 DEF Peek, PopMessage, Resumes
    <3> QED BY <3>1, SpotsKept
  <2>2. CASE cq # <<>>
    <3>1. /\ \A d : ~Resumes(t, d)
          /\ In(Head(cq), cq) /\ Head(cq) \in Coroutines
      BY <1>12, <2>2, TailHolds DEF Peek, Resumes, Spots, DistinctInv
    <3>2. /\ cq' = Tail(cq) /\ dequeued' = [dequeued EXCEPT ![t] = Head(cq)]
          /\ loop' = [loop EXCEPT ![t] = "resume"]
          /\ UNCHANGED <<overflow, sq, carried, mine, coPc>>
      BY <1>12, <2>2 DEF Peek, PopMessage
    <3>3. Distinct(cq') /\ \A d : In(d, cq') <=> In(d, cq) /\ d # Head(cq)
      BY <1>12, <2>2, <3>1, <3>2, TailHolds DEF Spots, DistinctInv
    <3>5. \A d \in Coroutines :
             /\ In(d, overflow)' <=> In(d, overflow)
             /\ In(d, sq)' <=> In(d, sq)
             /\ In(d, cq)' <=> In(d, cq) /\ d # Head(cq)
             /\ \A v \in QWorkers : Carries(v, d)' <=> Carries(v, d)
             /\ \A u \in IoThreads : Keeps(u, d)' <=> Keeps(u, d)
             /\ \A u \in IoThreads : Resumes(u, d)' <=>
                    IF u = t THEN d = Head(cq) ELSE Resumes(u, d)
             /\ coPc'[d] = "suspended" <=> coPc[d] = "suspended"
      BY <1>12, <3>1, <3>2, <3>3 DEF In, Carries, Keeps, Resumes
    <3>6. DistinctInv'
      BY <1>12, <3>1, <3>2, <3>3 DEF In, Spots, DistinctInv
    <3>7. ExclusiveInv'
      <4>1. ASSUME NEW d \in Coroutines PROVE Exclusive(d)'
        <5> HIDE DEF ServiceTypes
        <5>1. Exclusive(d)
          BY DEF Spots, ExclusiveInv
        <5> QED BY <1>12, <3>1, <3>2, <3>3, <3>5, <5>1 DEF Exclusive
      <4> QED BY <4>1 DEF ExclusiveInv
    <3>8. SuspendedInv'
      <4>1. ASSUME NEW d \in Coroutines PROVE Held(d)' <=> Held(d)
        <5>1. CASE d = Head(cq)
          BY <3>1, <3>5, <5>1 DEF Held
        <5>2. CASE d # Head(cq)
          BY <3>1, <3>5, <5>2 DEF Held
        <5> QED BY <5>1, <5>2
      <4> QED BY <3>2, <4>1 DEF Spots, SuspendedInv
    <3> QED BY <3>6, <3>7, <3>8 DEF Spots
  <2> QED BY <2>1, <2>2
<1>13. ASSUME NEW t \in IoThreads, Lock(t) PROVE Spots'
  <2>1. /\ UNCHANGED <<overflow, sq, cq, carried, mine>>
        /\ \A u \in IoThreads : \A d \in Coroutines : Resumes(u, d)' <=> Resumes(u, d)
        /\ \A d \in Coroutines : coPc'[d] = "suspended" <=> coPc[d] = "suspended"
    BY <1>13 DEF Lock, Resumes
  <2> QED BY <2>1, SpotsKept
<1>14. ASSUME NEW t \in IoThreads, Predicate(t) PROVE Spots'
  <2>1. /\ UNCHANGED <<overflow, sq, cq, carried, mine>>
        /\ \A u \in IoThreads : \A d \in Coroutines : Resumes(u, d)' <=> Resumes(u, d)
        /\ \A d \in Coroutines : coPc'[d] = "suspended" <=> coPc[d] = "suspended"
    BY <1>14 DEF Predicate, Resumes
  <2> QED BY <2>1, SpotsKept
<1>15. ASSUME NEW t \in IoThreads, Sleep(t) PROVE Spots'
  <2>1. /\ UNCHANGED <<overflow, sq, cq, carried, mine>>
        /\ \A u \in IoThreads : \A d \in Coroutines : Resumes(u, d)' <=> Resumes(u, d)
        /\ \A d \in Coroutines : coPc'[d] = "suspended" <=> coPc[d] = "suspended"
    BY <1>15 DEF Sleep, Resumes
  <2> QED BY <2>1, SpotsKept
<1>16. ASSUME NEW t \in IoThreads, LookAtStop(t) PROVE Spots'
  <2>1. /\ UNCHANGED <<overflow, sq, cq, carried, mine>>
        /\ \A u \in IoThreads : \A d \in Coroutines : Resumes(u, d)' <=> Resumes(u, d)
        /\ \A d \in Coroutines : coPc'[d] = "suspended" <=> coPc[d] = "suspended"
    BY <1>16 DEF LookAtStop, Resumes
  <2> QED BY <2>1, SpotsKept
<1>17. ASSUME NEW t \in IoThreads, PopLocked(t) PROVE Spots'
  <2>1. CASE cq = <<>>
    <3>1. /\ UNCHANGED <<overflow, sq, cq, carried, mine>>
          /\ \A u \in IoThreads : \A d \in Coroutines : Resumes(u, d)' <=> Resumes(u, d)
          /\ \A d \in Coroutines : coPc'[d] = "suspended" <=> coPc[d] = "suspended"
      BY <1>17, <2>1 DEF PopLocked, PopMessage, Resumes
    <3> QED BY <3>1, SpotsKept
  <2>2. CASE cq # <<>>
    <3>1. /\ \A d : ~Resumes(t, d)
          /\ In(Head(cq), cq) /\ Head(cq) \in Coroutines
      BY <1>17, <2>2, TailHolds DEF PopLocked, Resumes, Spots, DistinctInv
    <3>2. /\ cq' = Tail(cq) /\ dequeued' = [dequeued EXCEPT ![t] = Head(cq)]
          /\ loop' = [loop EXCEPT ![t] = "resume"]
          /\ UNCHANGED <<overflow, sq, carried, mine, coPc>>
      BY <1>17, <2>2 DEF PopLocked, PopMessage
    <3>3. Distinct(cq') /\ \A d : In(d, cq') <=> In(d, cq) /\ d # Head(cq)
      BY <1>17, <2>2, <3>1, <3>2, TailHolds DEF Spots, DistinctInv
    <3>5. \A d \in Coroutines :
             /\ In(d, overflow)' <=> In(d, overflow)
             /\ In(d, sq)' <=> In(d, sq)
             /\ In(d, cq)' <=> In(d, cq) /\ d # Head(cq)
             /\ \A v \in QWorkers : Carries(v, d)' <=> Carries(v, d)
             /\ \A u \in IoThreads : Keeps(u, d)' <=> Keeps(u, d)
             /\ \A u \in IoThreads : Resumes(u, d)' <=>
                    IF u = t THEN d = Head(cq) ELSE Resumes(u, d)
             /\ coPc'[d] = "suspended" <=> coPc[d] = "suspended"
      BY <1>17, <3>1, <3>2, <3>3 DEF In, Carries, Keeps, Resumes
    <3>6. DistinctInv'
      BY <1>17, <3>1, <3>2, <3>3 DEF In, Spots, DistinctInv
    <3>7. ExclusiveInv'
      <4>1. ASSUME NEW d \in Coroutines PROVE Exclusive(d)'
        <5> HIDE DEF ServiceTypes
        <5>1. Exclusive(d)
          BY DEF Spots, ExclusiveInv
        <5> QED BY <1>17, <3>1, <3>2, <3>3, <3>5, <5>1 DEF Exclusive
      <4> QED BY <4>1 DEF ExclusiveInv
    <3>8. SuspendedInv'
      <4>1. ASSUME NEW d \in Coroutines PROVE Held(d)' <=> Held(d)
        <5>1. CASE d = Head(cq)
          BY <3>1, <3>5, <5>1 DEF Held
        <5>2. CASE d # Head(cq)
          BY <3>1, <3>5, <5>2 DEF Held
        <5> QED BY <5>1, <5>2
      <4> QED BY <3>2, <4>1 DEF Spots, SuspendedInv
    <3> QED BY <3>6, <3>7, <3>8 DEF Spots
  <2> QED BY <2>1, <2>2
<1>18. ASSUME NEW t \in IoThreads, ResumeCoroutine(t) PROVE Spots'
  <2>1. /\ dequeued[t] \in Coroutines
        /\ \A d : Resumes(t, d) <=> d = dequeued[t]
    BY <1>18 DEF ResumeCoroutine, HandsInv, Resumes
  <2>2. /\ coPc' = [coPc EXCEPT ![dequeued[t]] = "running"]
        /\ loop' = [loop EXCEPT ![t] = "running"]
        /\ UNCHANGED <<overflow, sq, cq, carried, mine, dequeued>>
    BY <1>18 DEF ResumeCoroutine
  <2>5. \A d \in Coroutines :
           /\ In(d, overflow)' <=> In(d, overflow)
           /\ In(d, sq)' <=> In(d, sq)
           /\ In(d, cq)' <=> In(d, cq)
           /\ \A v \in QWorkers : Carries(v, d)' <=> Carries(v, d)
           /\ \A u \in IoThreads : Keeps(u, d)' <=> Keeps(u, d)
           /\ \A u \in IoThreads : Resumes(u, d)' <=> u # t /\ Resumes(u, d)
           /\ coPc'[d] = "suspended" <=> coPc[d] = "suspended" /\ d # dequeued[t]
    BY <1>18, <2>1, <2>2 DEF In, Carries, Keeps, Resumes
  <2>6. DistinctInv'
    BY <1>18, <2>1, <2>2 DEF In, Spots, DistinctInv
  <2>7. ExclusiveInv'
    <3>1. ASSUME NEW d \in Coroutines PROVE Exclusive(d)'
      <4> HIDE DEF ServiceTypes
      <4>1. Exclusive(d)
        BY DEF Spots, ExclusiveInv
      <4> QED BY <1>18, <2>1, <2>2, <2>5, <4>1 DEF Exclusive
    <3> QED BY <3>1 DEF ExclusiveInv
  <2>8. SuspendedInv'
    <3>1. ASSUME NEW d \in Coroutines PROVE Held(d)' <=> Held(d) /\ d # dequeued[t]
      <4>1. CASE d = dequeued[t]
        BY <2>1, <2>5, <4>1 DEF Held, Spots, ExclusiveInv, Exclusive
      <4>2. CASE d # dequeued[t]
        BY <2>1, <2>5, <4>2 DEF Held
      <4> QED BY <4>1, <4>2
    <3> QED BY <2>5, <3>1 DEF Spots, SuspendedInv
  <2> QED BY <2>6, <2>7, <2>8 DEF Spots
<1>19. ASSUME NEW t \in IoThreads, Resumed(t) PROVE Spots'
  <2>1. /\ UNCHANGED <<overflow, sq, cq, carried, mine>>
        /\ \A u \in IoThreads : \A d \in Coroutines : Resumes(u, d)' <=> Resumes(u, d)
        /\ \A d \in Coroutines : coPc'[d] = "suspended" <=> coPc[d] = "suspended"
    BY <1>19 DEF Resumed, Resumes
  <2> QED BY <2>1, SpotsKept
<1>20. ASSUME NEW t \in IoThreads, Leave(t) PROVE Spots'
  <2>1. /\ UNCHANGED <<overflow, sq, cq, carried, mine>>
        /\ \A u \in IoThreads : \A d \in Coroutines : Resumes(u, d)' <=> Resumes(u, d)
        /\ \A d \in Coroutines : coPc'[d] = "suspended" <=> coPc[d] = "suspended"
    BY <1>20 DEF Leave, Resumes
  <2> QED BY <2>1, SpotsKept
<1>21. ASSUME NEW t \in IoThreads, Enter(t) PROVE Spots'
  <2>1. /\ UNCHANGED <<overflow, sq, cq, carried, mine>>
        /\ \A u \in IoThreads : \A d \in Coroutines : Resumes(u, d)' <=> Resumes(u, d)
        /\ \A d \in Coroutines : coPc'[d] = "suspended" <=> coPc[d] = "suspended"
    BY <1>21 DEF Enter, TryEnterEventLoop, Resumes
  <2> QED BY <2>1, SpotsKept
<1>22. ASSUME NEW t \in IoThreads, SpuriousWakeUp(t) PROVE Spots'
  <2>1. /\ UNCHANGED <<overflow, sq, cq, carried, mine>>
        /\ \A u \in IoThreads : \A d \in Coroutines : Resumes(u, d)' <=> Resumes(u, d)
        /\ \A d \in Coroutines : coPc'[d] = "suspended" <=> coPc[d] = "suspended"
    BY <1>22 DEF SpuriousWakeUp, Resumes
  <2> QED BY <2>1, SpotsKept
<1>23. ASSUME RequestStop PROVE Spots'
  <2>1. /\ UNCHANGED <<overflow, sq, cq, carried, mine>>
        /\ \A u \in IoThreads : \A d \in Coroutines : Resumes(u, d)' <=> Resumes(u, d)
        /\ \A d \in Coroutines : coPc'[d] = "suspended" <=> coPc[d] = "suspended"
    BY <1>23 DEF RequestStop, Resumes
  <2> QED BY <2>1, SpotsKept
<1>24. ASSUME StopQueue PROVE Spots'
  <2>1. /\ UNCHANGED <<overflow, sq, cq, carried, mine>>
        /\ \A u \in IoThreads : \A d \in Coroutines : Resumes(u, d)' <=> Resumes(u, d)
        /\ \A d \in Coroutines : coPc'[d] = "suspended" <=> coPc[d] = "suspended"
    BY <1>24 DEF StopQueue, Resumes
  <2> QED BY <2>1, SpotsKept
<1>25. ASSUME NotifyAll PROVE Spots'
  <2>1. /\ UNCHANGED <<overflow, sq, cq, carried, mine>>
        /\ \A u \in IoThreads : \A d \in Coroutines : Resumes(u, d)' <=> Resumes(u, d)
        /\ \A d \in Coroutines : coPc'[d] = "suspended" <=> coPc[d] = "suspended"
    BY <1>25 DEF NotifyAll, Asleep, Resumes
  <2> QED BY <2>1, SpotsKept
<1>26. ASSUME Reset PROVE Spots'
  <2>1. /\ UNCHANGED <<overflow, sq, cq, carried, mine>>
        /\ \A u \in IoThreads : \A d \in Coroutines : Resumes(u, d)' <=> Resumes(u, d)
        /\ \A d \in Coroutines : coPc'[d] = "suspended" <=> coPc[d] = "suspended"
    BY <1>26 DEF Reset, Resumes
  <2> QED BY <2>1, SpotsKept
<1>27. ASSUME UNCHANGED serviceVars PROVE Spots'
  <2>1. /\ UNCHANGED <<overflow, sq, cq, carried, mine>>
        /\ \A u \in IoThreads : \A d \in Coroutines : Resumes(u, d)' <=> Resumes(u, d)
        /\ \A d \in Coroutines : coPc'[d] = "suspended" <=> coPc[d] = "suspended"
    BY <1>27 DEF serviceVars, Resumes
  <2> QED BY <2>1, SpotsKept
<1> QED
  BY <1>1, <1>2, <1>3, <1>4, <1>5, <1>6, <1>7, <1>8, <1>9, <1>10, <1>11, <1>12,
       <1>13, <1>14, <1>15, <1>16, <1>17, <1>18, <1>19, <1>20, <1>21, <1>22, <1>23,
       <1>24, <1>25, <1>26, <1>27
     DEF ServiceNext, Worker, IoThread

LEMMA TypesInit == ServiceInit => ServiceTypes
<1> SUFFICES ASSUME ServiceInit PROVE ServiceTypes
  OBVIOUS
<1>1. <<>> \in Seq(Coroutines)
  OBVIOUS
<1>2. /\ qWorker \in [QWorkers -> WorkerPlaces] /\ loop \in [IoThreads -> LoopPlaces]
      /\ coPc \in [Coroutines -> {"running", "overflowing", "suspended", "done"}]
  BY DEF ServiceInit, WorkerPlaces, LoopPlaces
<1> QED BY <1>1, <1>2 DEF ServiceInit, ServiceTypes

LEMMA WakeUpInit == ServiceInit => ServiceTypes /\ MutexInv /\ WakeInv
<1> SUFFICES ASSUME ServiceInit PROVE ServiceTypes /\ MutexInv /\ WakeInv
  OBVIOUS
<1>1. ServiceTypes
  BY TypesInit
<1>2. MutexInv
  BY IoServiceAssumption DEF ServiceInit, MutexInv
<1>3. WakeInv
  BY DEF ServiceInit, WakeInv
<1> QED BY <1>1, <1>2, <1>3

LEMMA PlaceInit == ServiceInit => ServiceTypes /\ HandsInv /\ Spots
<1> SUFFICES ASSUME ServiceInit PROVE ServiceTypes /\ HandsInv /\ Spots
  OBVIOUS
<1>1. ServiceTypes
  BY TypesInit
<1>2. HandsInv
  BY DEF ServiceInit, HandsInv
<1>3. DistinctInv
  BY EmptyHolds DEF ServiceInit, DistinctInv
<1>4. \A c \in Coroutines : ~Held(c)
  BY EmptyHolds, IoServiceAssumption DEF ServiceInit, Held, Carries, Keeps, Resumes
<1>5. ExclusiveInv
  BY <1>4 DEF ExclusiveInv, Exclusive, Held
<1>6. SuspendedInv
  BY <1>4 DEF ServiceInit, SuspendedInv
<1> QED BY <1>1, <1>2, <1>3, <1>5, <1>6 DEF Spots

\* The six kinds of place a coroutine can be in, as Places lists them.
Marked(x, s, c) == {<<x, i>> : i \in {j \in DOMAIN s : s[j] = c}}
WithWorker(c) == {<<"worker", w>> : w \in {v \in QWorkers : carried[v] = c}}
Taken(c) == UNION {Marked(t, mine[t], c) : t \in IoThreads}
Dequeued(c) ==
    {<<"message", t>> : t \in {s \in IoThreads : loop[s] = "resume" /\ dequeued[s] = c}}

LEMMA MarkedOnce ==
    ASSUME NEW S, NEW s \in Seq(S), Distinct(s), NEW c, NEW x
    PROVE  /\ ~In(c, s) => Marked(x, s, c) = {}
           /\ In(c, s) => \E y : Marked(x, s, c) = {y}
<1>1. DOMAIN s = 1..Len(s)
  OBVIOUS
<1>2. ASSUME In(c, s) PROVE \E y : Marked(x, s, c) = {y}
  <2>1. PICK i \in 1..Len(s) : s[i] = c
    BY <1>2 DEF In
  <2>2. {j \in DOMAIN s : s[j] = c} = {i}
    BY <1>1, <2>1 DEF Distinct
  <2>3. Marked(x, s, c) = {<<x, i>>}
    BY <2>2 DEF Marked
  <2> QED BY <2>3
<1>3. ASSUME ~In(c, s) PROVE Marked(x, s, c) = {}
  BY <1>1, <1>3 DEF In, Marked
<1> QED BY <1>2, <1>3

LEMMA PlacesAreSpots ==
    ASSUME ServiceTypes, Spots, NEW c \in Coroutines
    PROVE  Cardinality(Places(c)) = IF coPc[c] = "suspended" THEN 1 ELSE 0
<1>1. Places(c) = Marked("overflow", overflow, c) \cup Marked("submission", sq, c)
                  \cup Marked("completion", cq, c)
                  \cup WithWorker(c) \cup Taken(c) \cup Dequeued(c)
  BY DEF Places, Marked, WithWorker, Taken, Dequeued
<1>2. /\ ~In(c, overflow) => Marked("overflow", overflow, c) = {}
      /\ In(c, overflow) => \E x : Marked("overflow", overflow, c) = {x}
  BY MarkedOnce DEF ServiceTypes, Spots, DistinctInv
<1>3. /\ ~In(c, sq) => Marked("submission", sq, c) = {}
      /\ In(c, sq) => \E x : Marked("submission", sq, c) = {x}
  BY MarkedOnce DEF ServiceTypes, Spots, DistinctInv
<1>4. /\ ~In(c, cq) => Marked("completion", cq, c) = {}
      /\ In(c, cq) => \E x : Marked("completion", cq, c) = {x}
  BY MarkedOnce DEF ServiceTypes, Spots, DistinctInv
<1>5. /\ (\A w \in QWorkers : ~Carries(w, c)) => WithWorker(c) = {}
      /\ \A w \in QWorkers : Carries(w, c) => WithWorker(c) = {<<"worker", w>>}
  <2>1. ASSUME NEW w \in QWorkers, Carries(w, c)
        PROVE  {v \in QWorkers : carried[v] = c} = {w}
    BY <2>1 DEF Spots, ExclusiveInv, Exclusive, Carries
  <2> QED BY <2>1 DEF WithWorker, Carries
<1>6. /\ (\A t \in IoThreads : ~Keeps(t, c)) => Taken(c) = {}
      /\ \A t \in IoThreads : Keeps(t, c) => \E x : Taken(c) = {x}
  <2> DEFINE Own(t) == Marked(t, mine[t], c)
  <2>1. Taken(c) = UNION {Own(t) : t \in IoThreads}
    BY DEF Taken
  <2>2. ASSUME NEW t \in IoThreads
        PROVE  (~Keeps(t, c) => Own(t) = {}) /\ (Keeps(t, c) => \E x : Own(t) = {x})
    <3>1. mine[t] \in Seq(Coroutines) /\ Distinct(mine[t])
      BY DEF ServiceTypes, Spots, DistinctInv
    <3> QED BY <3>1, MarkedOnce DEF Keeps
  <2>3. ASSUME NEW t \in IoThreads, Keeps(t, c)
        PROVE  \A u \in IoThreads \ {t} : ~Keeps(u, c)
    BY <2>3 DEF Spots, ExclusiveInv, Exclusive
  <2> HIDE DEF Own
  <2>4. ASSUME NEW t \in IoThreads, Keeps(t, c) PROVE \E x : Taken(c) = {x}
    <3>1. PICK x : Own(t) = {x}
      BY <2>2, <2>4
    <3>2. \A u \in IoThreads \ {t} : Own(u) = {}
      BY <2>2, <2>3, <2>4
    <3>3. UNION {Own(u) : u \in IoThreads} = {x}
      BY <3>1, <3>2
    <3> QED BY <2>1, <3>3
  <2>5. ASSUME \A t \in IoThreads : ~Keeps(t, c) PROVE Taken(c) = {}
    BY <2>1, <2>2, <2>5
  <2> QED BY <2>4, <2>5
<1>7. /\ (\A t \in IoThreads : ~Resumes(t, c)) => Dequeued(c) = {}
      /\ \A t \in IoThreads : Resumes(t, c) => Dequeued(c) = {<<"message", t>>}
  <2>1. ASSUME NEW t \in IoThreads, Resumes(t, c)
        PROVE  {s \in IoThreads : loop[s] = "resume" /\ dequeued[s] = c} = {t}
    BY <2>1 DEF Spots, ExclusiveInv, Exclusive, Resumes
  <2> QED BY <2>1 DEF Dequeued, Resumes
<1>8. ASSUME ~Held(c) PROVE Places(c) = {}
  BY <1>1, <1>2, <1>3, <1>4, <1>5, <1>6, <1>7, <1>8 DEF Held
<1>9. ASSUME Held(c) PROVE \E x : Places(c) = {x}
  <2>1. CASE In(c, overflow)
    BY <1>1, <1>2, <1>3, <1>4, <1>5, <1>6, <1>7, <2>1 DEF Spots, ExclusiveInv, Exclusive
  <2>2. CASE In(c, sq)
    BY <1>1, <1>2, <1>3, <1>4, <1>5, <1>6, <1>7, <2>2 DEF Spots, ExclusiveInv, Exclusive
  <2>3. CASE In(c, cq)
    BY <1>1, <1>2, <1>3, <1>4, <1>5, <1>6, <1>7, <2>3 DEF Spots, ExclusiveInv, Exclusive
  <2>4. CASE \E w \in QWorkers : Carries(w, c)
    BY <1>1, <1>2, <1>3, <1>4, <1>5, <1>6, <1>7, <2>4 DEF Spots, ExclusiveInv, Exclusive
  <2>5. CASE \E t \in IoThreads : Keeps(t, c)
    BY <1>1, <1>2, <1>3, <1>4, <1>5, <1>6, <1>7, <2>5 DEF Spots, ExclusiveInv, Exclusive
  <2>6. CASE \E t \in IoThreads : Resumes(t, c)
    BY <1>1, <1>2, <1>3, <1>4, <1>5, <1>6, <1>7, <2>6 DEF Spots, ExclusiveInv, Exclusive
  <2> QED BY <1>9, <2>1, <2>2, <2>3, <2>4, <2>5, <2>6 DEF Held
<1>10. coPc[c] = "suspended" <=> Held(c)
  BY DEF Spots, SuspendedInv
<1>11. Cardinality({}) = 0 /\ \A x : Cardinality({x}) = 1
  BY FS_EmptySet, FS_Singleton
<1> QED BY <1>8, <1>9, <1>10, <1>11

\* No I/O thread sleeps on a message before stop() is called: the condition
\* variable of the completion queue loses no notification, whichever of the
\* messages that were pushed are taken by threads that do not wait.
THEOREM WakeUpSafety == ServiceSpec => []NoSleepOnMessage
<1> DEFINE I == ServiceTypes /\ HandsInv /\ MutexInv /\ WakeInv
<1>1. ServiceInit => I
  BY WakeUpInit, PlaceInit
<1>2. I /\ [ServiceNext]_serviceVars => I'
  BY ServiceTypesStep, HandsStep, MutexStep, WakeStep
<1>3. I => NoSleepOnMessage
  BY WakeUpAnswers
<1> QED BY <1>1, <1>2, <1>3, PTL DEF ServiceSpec

\* A suspended coroutine is in one place and in one only, and one that is not
\* suspended in none: schedule() neither loses nor doubles an operation on its
\* way through the overflow list, the two queues, the workers and the threads.
THEOREM PlaceSafety == ServiceSpec => []InOnePlace
<1> DEFINE I == ServiceTypes /\ HandsInv /\ Spots
<1>1. ServiceInit => I
  BY PlaceInit
<1>2. I /\ [ServiceNext]_serviceVars => I'
  BY ServiceTypesStep, HandsStep, SpotsStep
<1>3. I => InOnePlace
  BY PlacesAreSpots DEF InOnePlace
<1> QED BY <1>1, <1>2, <1>3, PTL DEF ServiceSpec

=============================================================================
