------------------------------ MODULE IoOperation ------------------------------
(***************************************************************************)
(* One I/O operation of a coroutine on the message queue (io_operation,    *)
(* io_operation_cancellable and the file and socket operations made from   *)
(* them) or one schedule_after() (timed_schedule_operation), from co_await *)
(* to the resumption of the coroutine.  All it does goes through a single  *)
(* io_message, which a cancellation submits a second time with another     *)
(* operation in it.                                                        *)
(*                                                                         *)
(* What the kernel answers is nondeterministic: an event that is registered*)
(* fires some day, or its registration fails.  The queues are modelled in  *)
(* IoService; here they count how often they hold the message.  A          *)
(* behaviour ends when the coroutine is resumed a second time or somebody  *)
(* uses the operation after the coroutine has destroyed it.                *)
(***************************************************************************)
EXTENDS Integers

CONSTANTS
    Workers,        \* m_worker_threads of the message queue
    Kinds           \* "read", "connect", "close" or "timer"

VARIABLES
    kind,           \* what the coroutine awaits
    cancellable,    \* its cancellation_token has a state
    requested,      \* cancellation has been requested,
    late,           \* history: when the message was in the completion queue
    callback,       \* its registration: "none", "registered", "running", "over"
    awaiter,        \* the thread that began the co_await
    co,             \* the coroutine: "running", "suspended", "resumed", "ended"
    outcome,        \* what the co_await came to
    mState,         \* m_state of io_operation_cancellable
    operation, result, canceled, completed,    \* the io_message
    submission, registered, completion,        \* where it is in the message_queue
    worker,         \* where each worker is
    misused,        \* a second resumption, or a use after the end
    offset,         \* the offset a file operation is made with,
    position,       \* the position of the file's descriptor,
    transferredAt   \* and where read() or write() began, -1 before

ioVars == <<kind, cancellable, requested, late, callback, awaiter, co, outcome, mState,
            operation, result, canceled, completed, submission, registered,
            completion, worker, misused, offset, position, transferredAt>>

const == <<kind, cancellable, offset, late>>
file == <<position, transferredAt>>
token == <<requested, callback>>
message == <<operation, result, canceled, completed>>
queue == <<submission, registered, completion, worker>>

Timer == kind = "timer"

\* A request before the operation is made leaves the token requested; for a
\* timer, whose callback would use a message there is none of yet, no request
\* before the timer is submitted is considered.
Init ==
    /\ kind \in Kinds /\ cancellable \in BOOLEAN
    /\ requested \in BOOLEAN /\ (requested => cancellable /\ ~Timer)
    /\ late = FALSE
    /\ callback = (IF Timer /\ cancellable THEN "registered" ELSE "none")
    /\ awaiter = "ready" /\ co = "running" /\ outcome = "none"
    /\ mState = (IF requested THEN "completed" ELSE "not_started")
    /\ operation = "NONE" /\ result = 0 /\ canceled = FALSE /\ completed = FALSE
    /\ submission = 0 /\ registered = FALSE /\ completion = 0
    /\ worker = [w \in Workers |-> "idle"]
    /\ misused = "no"
    /\ offset \in 0..1 /\ position \in 0..1 /\ transferredAt = -1

Request == CASE kind = "read" -> "READ" [] kind = "connect" -> "CONNECT"
             [] kind = "close" -> "CLOSE" [] kind = "timer" -> "TIMEOUT"

\* await_resume(): results below zero are errors, and -1 stands for those of
\* the system calls; ECANCELED is what a cancelled operation has.
ECANCELED == -2
EINVAL == -3
AwaitResume(r) ==
    IF r = ECANCELED /\ (cancellable \/ Timer) THEN "cancelled"
    ELSE IF r < 0 THEN "error" ELSE "value"

-----------------------------------------------------------------------------
(* co_await, on the thread that begins it                                  *)

\* await_ready(), and the first look at the token in await_suspend().
AwaitReady ==
    /\ awaiter = "ready"
    /\ \/ /\ mState = "completed"
          /\ outcome' = AwaitResume(result) /\ co' = "ended" /\ awaiter' = "done"
       \/ /\ mState # "completed" /\ requested /\ ~Timer
          /\ outcome' = "cancelled" /\ co' = "ended" /\ awaiter' = "done"
       \/ /\ mState # "completed" /\ (~requested \/ Timer)
          /\ awaiter' = "start" /\ UNCHANGED <<outcome, co>>
    /\ UNCHANGED <<const, file, token, mState, message, queue, misused>>

\* try_start(): the message is submitted; io_operation_cancellable reports a
\* failure as a cancellation, io_operation resumes with the result there is,
\* and a timer is tried again.
TryStart ==
    /\ awaiter = "start"
    /\ operation' = Request
    /\ mState' = IF Timer THEN mState ELSE "started"
    /\ \/ /\ submission' = submission + 1
          /\ co' = "suspended" /\ awaiter' = "started" /\ UNCHANGED outcome
       \/ /\ ~Timer
          /\ (outcome' = "cancelled" \/ (~cancellable /\ outcome' = "value"))
          /\ co' = "ended" /\ awaiter' = "done" /\ UNCHANGED submission
    /\ UNCHANGED <<const, file, token, result, canceled, completed, registered,
                   completion, worker, misused>>

\* Mutant: whether there is a token is looked up after the submission.
UseAgain_Always ==
    /\ awaiter = "started"
    /\ misused' = IF co = "ended" THEN "used_after_end" ELSE "no"
    /\ awaiter' = IF ~Timer /\ cancellable THEN "emplace" ELSE "done"
    /\ UNCHANGED <<const, file, token, co, outcome, mState, message, queue>>

\* The operation is used again after it has been submitted: m_ref_count of
\* the timer, m_state of an operation with a token; the exchange of m_state
\* never finds not_started.
UseAgain ==
    /\ awaiter = "started"
    /\ IF Timer \/ cancellable
       THEN /\ misused' = IF co = "ended" THEN "used_after_end" ELSE "no"
            /\ awaiter' = IF Timer THEN "done" ELSE "emplace"
       ELSE awaiter' = "done" /\ UNCHANGED misused
    /\ UNCHANGED <<const, file, token, co, outcome, mState, message, queue>>

\* The callback is registered; when the request was made before, it runs.
Emplace ==
    /\ awaiter = "emplace"
    /\ IF co = "ended" THEN misused' = "used_after_end" /\ UNCHANGED <<callback, mState>>
       ELSE /\ callback' = IF requested THEN "running" ELSE "registered"
            /\ mState' = IF requested THEN "cancellation_requested" ELSE mState
            /\ UNCHANGED misused
    /\ awaiter' = "done"
    /\ UNCHANGED <<const, file, requested, co, outcome, message, queue>>

-----------------------------------------------------------------------------
(* cancellation                                                            *)

RequestCancellation ==
    /\ cancellable /\ ~requested
    /\ Timer => operation # "NONE"
    /\ requested' = TRUE
    /\ late' = (completion > 0)
    /\ callback' = IF callback = "registered" THEN "running" ELSE callback
    /\ mState' = IF callback = "registered" /\ ~Timer THEN "cancellation_requested"
                 ELSE mState
    /\ UNCHANGED <<kind, cancellable, offset, file, awaiter, co, outcome, message, queue, misused>>

\* cancel() or timeout_remove(), and its commit().
Cancel ==
    /\ callback = "running"
    /\ callback' = "over"
    /\ IF Timer
       THEN IF operation = "TIMEOUT"
            THEN operation' = "TIMEOUT_REMOVE" /\ canceled' = TRUE
            ELSE UNCHANGED <<operation, canceled>>
       ELSE operation' = "CANCEL" /\ UNCHANGED canceled
    /\ submission' = submission + 1
    /\ UNCHANGED <<const, file, requested, awaiter, co, outcome, mState, result,
                   completed, registered, completion, worker, misused>>

-----------------------------------------------------------------------------
(* The workers of the message queue                                        *)

Pop(w) ==
    /\ worker[w] = "idle" /\ submission > 0
    /\ submission' = submission - 1
    /\ worker' = [worker EXCEPT ![w] = "set"]
    /\ UNCHANGED <<const, file, token, awaiter, co, outcome, mState, message,
                   registered, completion, misused>>

\* What a worker does with the message, and the message with what it holds.
Enqueued(w, r) == result' = r /\ worker' = [worker EXCEPT ![w] = "enqueue"]
Dropped(w) == worker' = [worker EXCEPT ![w] = "idle"] /\ UNCHANGED result

\* Mutant: a failed registration leaves its message where it is.
EventSet_Silent(w) ==
    /\ worker[w] = "set"
    /\ operation \in {"READ", "TIMEOUT", "CONNECT"}
    /\ \/ registered' = TRUE /\ Dropped(w)
       \/ registered' = registered /\ result' = -1
          /\ worker' = [worker EXCEPT ![w] = "idle"]
    /\ UNCHANGED <<const, file, token, awaiter, co, outcome, mState, operation,
                   canceled, completed, submission, completion, misused>>

\* event_set(): the event is registered, or the answer is there already.
EventSet(w) ==
    /\ worker[w] = "set"
    /\ operation \in {"READ", "TIMEOUT", "CONNECT"}
    /\ \/ registered' = TRUE /\ Dropped(w)
       \/ registered' = registered /\ Enqueued(w, -1)
       \/ operation = "CONNECT" /\ registered' = registered /\ Enqueued(w, 0)
    /\ UNCHANGED <<const, file, token, awaiter, co, outcome, mState, operation,
                   canceled, completed, submission, completion, misused>>

EventSetClose(w) ==
    /\ worker[w] = "set" /\ operation = "CLOSE"
    /\ \E r \in {0, -1} : Enqueued(w, r)
    /\ UNCHANGED <<const, file, token, awaiter, co, outcome, mState, operation,
                   canceled, completed, submission, registered, completion, misused>>

\* A cancellation deletes the event if there is one.
EventSetCancel(w) ==
    /\ worker[w] = "set" /\ operation = "CANCEL"
    /\ registered' = FALSE
    /\ Enqueued(w, ECANCELED)
    /\ UNCHANGED <<const, file, token, awaiter, co, outcome, mState, operation,
                   canceled, completed, submission, completion, misused>>

\* timeout_remove(): the timer is deleted, or has fired and there is none
\* (ENOENT), the one way in which a deletion fails.
EventSetRemove(w) ==
    /\ worker[w] = "set" /\ operation = "TIMEOUT_REMOVE"
    /\ registered' = FALSE
    /\ completed' = TRUE
    /\ IF completed THEN Dropped(w) ELSE Enqueued(w, ECANCELED)
    /\ UNCHANGED <<const, file, token, awaiter, co, outcome, mState, operation,
                   canceled, submission, completion, misused>>

\* The event fires: process_one() looks at `canceled' first, ...  EV_ERROR is
\* set for changes a kevent() call could not make, and this one makes none.
Fire(w) ==
    /\ worker[w] = "idle" /\ registered
    /\ registered' = FALSE
    /\ worker' = [worker EXCEPT ![w] = IF canceled THEN "idle" ELSE "process"]
    /\ UNCHANGED <<const, file, token, awaiter, co, outcome, mState, message,
                   submission, completion, misused>>

\* read() or write() of a byte, or none, or an error.
Transfer(w) ==
    \E r \in {0, 1, -1} :
        /\ Enqueued(w, r)
        /\ transferredAt' = position
        /\ position' = IF r = 1 THEN position + 1 ELSE position

\* ... then at the operation, which may be another by now.
ProcessOne(w) ==
    /\ worker[w] = "process"
    /\ CASE operation = "READ" -> Transfer(w)
         [] operation = "CONNECT" -> (\E r \in {0, -1} : Enqueued(w, r)) /\ UNCHANGED file
         [] operation = "TIMEOUT" ->
                Enqueued(w, IF canceled THEN ECANCELED ELSE 0) /\ UNCHANGED file
         [] OTHER -> Enqueued(w, EINVAL) /\ UNCHANGED file
    /\ UNCHANGED <<const, token, awaiter, co, outcome, mState, operation,
                   canceled, completed, submission, registered, completion, misused>>

Enqueue(w) ==
    /\ worker[w] = "enqueue"
    /\ completion' = completion + 1
    /\ worker' = [worker EXCEPT ![w] = "idle"]
    /\ UNCHANGED <<const, file, token, awaiter, co, outcome, mState, message,
                   submission, registered, misused>>

-----------------------------------------------------------------------------
(* The I/O thread resumes the coroutine                                    *)

Resume ==
    /\ completion > 0
    /\ completion' = completion - 1
    /\ IF co = "suspended" THEN co' = "resumed" /\ UNCHANGED misused
       ELSE misused' = "resumed_twice" /\ UNCHANGED co
    /\ UNCHANGED <<const, file, token, awaiter, outcome, mState, message, submission,
                   registered, worker>>

\* await_resume(), and the end of the operation, which waits for a callback
\* that runs and takes back one that is registered.
Finish ==
    /\ co = "resumed" /\ callback # "running"
    /\ outcome' = AwaitResume(result)
    /\ callback' = IF callback = "registered" THEN "over" ELSE callback
    /\ co' = "ended"
    /\ UNCHANGED <<const, file, requested, awaiter, mState, message, queue, misused>>

Next ==
    /\ misused = "no"
    /\ \/ AwaitReady \/ TryStart \/ UseAgain \/ Emplace
       \/ RequestCancellation \/ Cancel \/ Resume \/ Finish
       \/ \E w \in Workers :
             \/ Pop(w) \/ EventSet(w) \/ EventSetClose(w) \/ EventSetCancel(w)
             \/ EventSetRemove(w) \/ Fire(w) \/ ProcessOne(w) \/ Enqueue(w)

Spec == Init /\ [][Next]_ioVars

-----------------------------------------------------------------------------

\* A coroutine that waits is never stranded: the message is on its way to the
\* completion queue, or the kernel or a cancellation will put it there,
\* however the cancellation falls between the worker's steps.
NeverStranded ==
    co = "suspended" /\ misused = "no" =>
        \/ submission > 0 \/ registered \/ completion > 0
        \/ \E w \in Workers : worker[w] # "idle"

\* Without a token, the message is in one place until the coroutine is
\* resumed, once, and no thread uses the operation of a file or a socket
\* after it is over.
WithoutToken ==
    ~cancellable =>
        /\ ~Timer => misused = "no"
        /\ misused = "no" => submission + completion + (IF registered THEN 1 ELSE 0)
              <= IF co = "suspended" THEN 1 ELSE 0

\* FALSE of the code: "it may have already completed on a background thread
\* by now so this request for cancellation may end up being ignored".  A
\* request that finds the operation completed enqueues its message once more,
\* and the coroutine is resumed a second time.
LateRequestIsIgnored == late => misused # "resumed_twice"

\* FALSE of the code: a file is read or written "starting at offset".  The
\* system call is the one that goes on from where the last one stopped.
TransfersAtOffset ==
    kind = "read" /\ outcome = "value" => transferredAt \in {-1, offset}

=============================================================================
