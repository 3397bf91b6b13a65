------------------------------ MODULE SharedTask ------------------------------
(***************************************************************************)
(* coro::shared_task: a lazy task that several coroutines hold and await.  *)
(* The first to await it runs its body on the spot; who awaits it before   *)
(* it is done queues itself in m_waiters; when it is done final_suspend()  *)
(* resumes them all.  The coroutine frame, where the promise lives, is     *)
(* destroyed by whoever lets go of the last shared_task.                   *)
(*                                                                         *)
(* A coroutine holds at most one shared_task, in its own frame, and keeps  *)
(* it while it awaits: the awaitable has a handle and no reference.  Each  *)
(* runs on a thread of its own until it suspends and then on the thread    *)
(* that resumes it.                                                        *)
(***************************************************************************)
EXTENDS Naturals, Sequences, FiniteSets, Functions

CONSTANTS
    Coroutines,    \* the coroutines that may hold and await the task
    Creator,       \* the one that creates it
    Other,         \* a thread that resumes the body when what it awaits is done
    NoOne

ASSUME SharedTaskAssumption ==
    /\ IsFiniteSet(Coroutines) /\ Creator \in Coroutines
    /\ Other \notin Coroutines /\ NoOne \notin Coroutines \cup {Other}

VARIABLES
    refCount,      \* m_ref_count
    holders,       \* the coroutines that hold a shared_task with the handle
    mWaiters,      \* m_waiters: [status |-> , list |-> ], newest waiter first
    body,          \* where the task's own coroutine is; "destroyed" at the end
    runner,        \* on whose thread it runs, or runs final_suspend()
    result,        \* the value or m_exception
    toResume,      \* the waiters final_suspend() has still to resume
    callee,        \* the one it is resuming
    pc, old,       \* of the coroutines, and old_waiters in their try_await()
    outcome        \* what their last co_await came to

taskVars == <<refCount, holders, mWaiters, body, runner, result, toResume,
              callee, pc, old, outcome>>

NotStarted == [status |-> "notStarted", list |-> <<>>]
Started(s) == [status |-> "started", list |-> s]
Ready == [status |-> "ready", list |-> <<>>]

Init ==
    /\ refCount = 1 /\ holders = {Creator}
    /\ mWaiters = NotStarted
    /\ body = "initial" /\ runner = NoOne /\ result = "none"
    /\ toResume = <<>> /\ callee = NoOne
    /\ pc = [c \in Coroutines |-> "running"]
    /\ old = [c \in Coroutines |-> NotStarted]
    /\ outcome = [c \in Coroutines |-> "none"]

bodyVars == <<body, runner, result, toResume, callee>>

-----------------------------------------------------------------------------
(* shared_task: copies, moves and the end of one                           *)

Copy(c, d) ==
    /\ pc[c] = "running" /\ c \in holders /\ d \notin holders /\ pc[d] = "running"
    /\ holders' = holders \cup {d}
    /\ refCount' = refCount + 1
    /\ UNCHANGED <<mWaiters, bodyVars, pc, old, outcome>>

Move(c, d) ==
    /\ pc[c] = "running" /\ c \in holders /\ d \notin holders /\ pc[d] = "running"
    /\ holders' = (holders \ {c}) \cup {d}
    /\ UNCHANGED <<refCount, mWaiters, bodyVars, pc, old, outcome>>

\* Mutant: try_detach() compares the count after the subtraction with one.
Destroy_Early(c) ==
    /\ pc[c] = "running" /\ c \in holders
    /\ holders' = holders \ {c}
    /\ refCount' = refCount - 1
    /\ body' = IF refCount = 2 THEN "destroyed" ELSE body
    /\ UNCHANGED <<mWaiters, runner, result, toResume, callee, pc, old, outcome>>

Destroy(c) ==
    /\ pc[c] = "running" /\ c \in holders
    /\ holders' = holders \ {c}
    /\ refCount' = refCount - 1
    /\ body' = IF refCount = 1 THEN "destroyed" ELSE body
    /\ UNCHANGED <<mWaiters, runner, result, toResume, callee, pc, old, outcome>>

-----------------------------------------------------------------------------
(* co_await: await_ready(), try_await() and await_resume()                 *)

Goto(c, where) == pc' = [pc EXCEPT ![c] = where]

\* await_resume() without suspending; a moved-from task has no promise.
Resumed(c, what) == Goto(c, "running") /\ outcome' = [outcome EXCEPT ![c] = what]

AwaitReady(c) ==
    /\ pc[c] = "running"
    /\ \/ c \notin holders /\ Resumed(c, "broken_promise")
       \/ c \in holders /\ mWaiters = Ready /\ Resumed(c, result)
       \/ c \in holders /\ mWaiters # Ready /\ Goto(c, "load") /\ UNCHANGED outcome
    /\ UNCHANGED <<refCount, holders, mWaiters, bodyVars, old>>

\* The load at the top, and that after the body has come to its first stop.
Load(c) ==
    /\ pc[c] \in {"load", "reload"}
    /\ old' = [old EXCEPT ![c] = mWaiters]
    /\ Goto(c, IF pc[c] = "load" /\ mWaiters = NotStarted THEN "start" ELSE "push")
    /\ UNCHANGED <<refCount, holders, mWaiters, bodyVars, outcome>>

\* The exchange that starts the body; who loses it goes on with what it saw.
Start(c) ==
    /\ pc[c] = "start"
    /\ \/ /\ mWaiters = NotStarted
          /\ mWaiters' = Started(<<>>)
          /\ body' = "running" /\ runner' = c
          /\ Goto(c, "resuming")
          /\ UNCHANGED old
       \/ /\ mWaiters # NotStarted
          /\ old' = [old EXCEPT ![c] = mWaiters]
          /\ Goto(c, "push")
          /\ UNCHANGED <<mWaiters, body, runner>>
    /\ UNCHANGED <<refCount, holders, result, toResume, callee, outcome>>

\* Mutant: "ready" is looked for in the first round of the loop only.
Push_Once(c) ==
    /\ pc[c] = "push"
    /\ \/ old[c] = Ready /\ Resumed(c, result) /\ UNCHANGED <<mWaiters, old>>
       \/ /\ old[c] # Ready
          /\ mWaiters' = Started(<<c>> \o mWaiters.list)
          /\ Goto(c, "suspended")
          /\ UNCHANGED <<old, outcome>>
    /\ UNCHANGED <<refCount, holders, bodyVars>>

\* The loop that queues the awaiter unless the task is ready.
Push(c) ==
    /\ pc[c] = "push"
    /\ \/ old[c] = Ready /\ Resumed(c, result) /\ UNCHANGED <<mWaiters, old>>
       \/ /\ old[c] # Ready /\ mWaiters = old[c]
          /\ mWaiters' = Started(<<c>> \o mWaiters.list)
          /\ Goto(c, "suspended")
          /\ UNCHANGED <<old, outcome>>
       \/ /\ old[c] # Ready /\ mWaiters # old[c]
          /\ old' = [old EXCEPT ![c] = mWaiters]
          /\ UNCHANGED <<mWaiters, pc, outcome>>
    /\ UNCHANGED <<refCount, holders, bodyVars>>

-----------------------------------------------------------------------------
(* The task's own coroutine                                                *)

\* resume() returns to the awaiter that started the body, if it was one.
Return ==
    /\ runner' = NoOne
    /\ pc' = IF runner = Other THEN pc ELSE [pc EXCEPT ![runner] = "reload"]

BodySuspend ==
    /\ body = "running" /\ result = "none"
    /\ body' = "suspended"
    /\ Return
    /\ UNCHANGED <<refCount, holders, mWaiters, result, toResume, callee, old, outcome>>

BodyResume ==
    /\ body = "suspended"
    /\ body' = "running" /\ runner' = Other
    /\ UNCHANGED <<refCount, holders, mWaiters, result, toResume, callee, pc, old, outcome>>

\* co_return, or unhandled_exception().
BodyEnd ==
    /\ body = "running" /\ result = "none"
    /\ result' \in {"value", "exception"}
    /\ UNCHANGED <<refCount, holders, mWaiters, body, runner, toResume, callee,
                   pc, old, outcome>>

\* Mutant: the list is read and then "ready" is stored.
FinalSuspend_Drop ==
    /\ body = "running" /\ result # "none"
    /\ body' = "final"
    /\ toResume' = IF mWaiters.list = <<>> THEN <<>> ELSE Tail(mWaiters.list)
    /\ mWaiters' = Ready
    /\ UNCHANGED <<refCount, holders, runner, result, callee, pc, old, outcome>>

\* final_awaitable::await_suspend(): the exchange.
FinalSuspend ==
    /\ body = "running" /\ result # "none"
    /\ body' = "final"
    /\ toResume' = mWaiters.list
    /\ mWaiters' = Ready
    /\ UNCHANGED <<refCount, holders, runner, result, callee, pc, old, outcome>>

\* A waiter is resumed, its successor read first; it runs in this call.
ResumeWaiter ==
    /\ toResume # <<>> /\ callee = NoOne
    /\ callee' = Head(toResume)
    /\ toResume' = Tail(toResume)
    /\ Resumed(Head(toResume), result)
    /\ UNCHANGED <<refCount, holders, mWaiters, body, runner, result, old>>

\* It ends or awaits something else, and resume() returns.
WaiterReturns ==
    /\ callee # NoOne /\ pc[callee] = "running"
    /\ callee' = NoOne
    /\ UNCHANGED <<refCount, holders, mWaiters, body, runner, result, toResume,
                   pc, old, outcome>>

FinalReturn ==
    /\ result # "none" /\ mWaiters = Ready /\ runner # NoOne
    /\ toResume = <<>> /\ callee = NoOne
    /\ Return
    /\ UNCHANGED <<refCount, holders, mWaiters, body, result, toResume, callee,
                   old, outcome>>

Awaiting(c) == Load(c) \/ Start(c) \/ Push(c)
Body == FinalSuspend \/ ResumeWaiter \/ WaiterReturns \/ FinalReturn

Next ==
    \/ \E c, d \in Coroutines : Copy(c, d) \/ Move(c, d)
    \/ \E c \in Coroutines : Destroy(c) \/ AwaitReady(c)
    \/ \E c \in Coroutines : Load(c) \/ Start(c) \/ Push(c)
    \/ BodySuspend \/ BodyResume \/ BodyEnd
    \/ FinalSuspend \/ ResumeWaiter \/ WaiterReturns \/ FinalReturn

\* A body that is suspended is resumed some day and does not go on suspending
\* for ever; threads go on.
SharedTaskFairness ==
    /\ WF_taskVars(Body) /\ WF_taskVars(BodyResume) /\ SF_taskVars(BodyEnd)
    /\ \A c \in Coroutines : WF_taskVars(Awaiting(c))

Spec == Init /\ [][Next]_taskVars /\ SharedTaskFairness

-----------------------------------------------------------------------------

TypeOK ==
    /\ refCount \in Nat /\ holders \subseteq Coroutines
    /\ pc \in [Coroutines -> {"running", "load", "reload", "start", "resuming",
                              "push", "suspended"}]
    /\ body \in {"initial", "running", "suspended", "final", "destroyed"}

\* The count is that of the shared_tasks, and the frame is there exactly as
\* long as there is one; who is inside try_await(), or waits, holds one, and
\* so the frame is never destroyed under a body that has begun and not ended.
FrameOutlivesUse ==
    /\ refCount = Cardinality(holders)
    /\ body = "destroyed" <=> holders = {}
    /\ \A c \in Coroutines : pc[c] # "running" => c \in holders
    /\ body = "destroyed" => mWaiters \in {NotStarted, Ready}

\* A coroutine that waits is on one list, once: that in m_waiters or that of
\* final_suspend(), which there is only when the result is there.
WaitersAreQueued ==
    LET waiting == mWaiters.list \o toResume
    IN  /\ IsInjective(waiting)
        /\ \A c \in Coroutines :
              pc[c] = "suspended" <=> \E i \in DOMAIN waiting : waiting[i] = c
        /\ mWaiters # Ready => toResume = <<>> /\ callee = NoOne
        /\ mWaiters = Ready => result # "none" /\ body \in {"final", "destroyed"}

\* The body is started once, by the one whose exchange succeeded, and an
\* awaiter of the task gets the result it ended with.
OneResult ==
    /\ \A c, d \in Coroutines :
          /\ pc[c] = "resuming" /\ pc[d] = "resuming" => c = d
          /\ pc[c] = "resuming" => runner = c
          /\ outcome[c] \in {"none", "broken_promise", result}
    /\ mWaiters = NotStarted <=> result = "none" /\ body \in {"initial", "destroyed"}

\* The frame, the lists and the result together: neither the walk over the
\* waiters nor a destructor can be right about one of them and wrong about
\* another.
TaskSafe == FrameOutlivesUse /\ WaitersAreQueued /\ OneResult

\* The task is a gate for its awaiters, open from the end of its body on: who
\* has queued itself by then is released by the exchange in final_suspend(), and
\* nobody queues itself later, whatever it has read of m_waiters before.
TaskGate == INSTANCE AbstractGate
                WITH Awaiters <- Coroutines, open <- mWaiters = Ready,
                     waiting <- Range(mWaiters.list), released <- Range(toResume)

TaskIsGate ==
    TaskGate!ASpec /\ [][mWaiters = Ready => mWaiters' = Ready]_taskVars

\* Whoever begins to wait for the task goes on when it is done.
AwaitersGoOn ==
    \A c \in Coroutines : pc[c] # "running" ~> pc[c] = "running"

=============================================================================
