-------------------------------- MODULE WhenAll --------------------------------
(***************************************************************************)
(* sync_wait(when_all(t[1], ..., t[N])): a thread blocks on an event until *)
(* a coroutine, the root, ends; the root starts a when_all_task for every  *)
(* task, each of them awaits its task, and the counter they share resumes  *)
(* the root when the last has notified it.  The root begins on the thread  *)
(* in sync_wait(); a task that has suspended goes on on another, and so    *)
(* does the root when that task is the last one.                           *)
(***************************************************************************)
EXTENDS Naturals, FiniteSets

CONSTANT N    \* the number of tasks

Index == 1..N

VARIABLES
    overload,    \* which when_all(): of a "vector" of tasks, or "variadic"
    task,        \* the tasks: "none" for one without a coroutine
    taskResult,  \* their m_result: "empty", "value" or "exception"
    wrapper,     \* the when_all_tasks
    got,         \* what their promises hold for the root
    started,     \* how many of them the root has started
    inline,      \* the one that runs inside the root's start(), or 0
    mCount, mAwaitingHandle,   \* the when_all_counter
    root, rootResult,          \* the root, and the task whose exception it
                               \* ended with, or 0
    rootThread,                \* "main" or "other"
    main,        \* the thread in sync_wait()
    mIsSet       \* m_is_set of its event

allVars == <<overload, task, taskResult, wrapper, got, started, inline,
             mCount, mAwaitingHandle, root, rootResult, rootThread, main, mIsSet>>

wrappedVars == <<task, taskResult, wrapper, got>>
rootVars == <<root, rootResult, rootThread>>
counterVars == <<mCount, mAwaitingHandle>>

\* A task is new, empty, or was awaited before and is done.
AllInit ==
    /\ overload \in {"vector", "variadic"}
    /\ task \in [Index -> {"none", "initial", "done"}]
    /\ \E r \in {"value", "exception"} :
          taskResult = [i \in Index |-> IF task[i] = "done" THEN r ELSE "empty"]
    /\ wrapper = [i \in Index |-> "initial"] /\ got = [i \in Index |-> "empty"]
    /\ started = 0 /\ inline = 0
    /\ mCount = N + 1 /\ mAwaitingHandle = FALSE
    /\ root = "initial" /\ rootResult = 0 /\ rootThread = "main"
    /\ main = "start" /\ mIsSet = FALSE

-----------------------------------------------------------------------------
(* sync_wait() and lightweight_manual_reset_event                          *)

SyncWait ==
    /\ main = "start"
    /\ main' = "inside" /\ root' = "starting"
    /\ UNCHANGED <<overload, wrappedVars, started, inline, counterVars,
                   rootResult, rootThread, mIsSet>>

\* wait() looks at the flag with the mutex held, and sleeps if it is not set.
Wait ==
    /\ main = "wait"
    /\ main' = IF mIsSet THEN "returned" ELSE "asleep"
    /\ UNCHANGED <<overload, wrappedVars, started, inline, counterVars, rootVars,
                   mIsSet>>

\* The root suspends for the first time or ends: start() returns.
LeaveStart == main' = IF rootThread = "main" THEN "wait" ELSE main

-----------------------------------------------------------------------------
(* The when_all_tasks and the tasks they await                             *)

\* What co_await of a task that need not begin comes to: an empty one throws,
\* one that is done has its result.
Awaited(i) == IF task[i] = "none" THEN "exception" ELSE taskResult[i]

\* The loop of try_await(): the next task is started, and awaits at once.
StartTask ==
    LET i == started + 1
    IN  /\ root = "starting" /\ inline = 0 /\ i \in Index
        /\ started' = i /\ inline' = i
        /\ IF task[i] = "initial"
           THEN /\ task' = [task EXCEPT ![i] = "running"]
                /\ wrapper' = [wrapper EXCEPT ![i] = "awaiting"]
                /\ UNCHANGED got
           ELSE /\ wrapper' = [wrapper EXCEPT ![i] = "notifying"]
                /\ got' = [got EXCEPT ![i] = Awaited(i)]
                /\ UNCHANGED task
        /\ UNCHANGED <<overload, taskResult, counterVars, rootVars, main,
                       mIsSet>>

\* A running task awaits something that is not there yet; the thread returns
\* to whoever resumed the task.
TaskSuspend(i) ==
    /\ task[i] = "running"
    /\ task' = [task EXCEPT ![i] = "suspended"]
    /\ inline' = IF inline = i THEN 0 ELSE inline
    /\ UNCHANGED <<overload, taskResult, wrapper, got, started, counterVars,
                   rootVars, main, mIsSet>>

TaskResume(i) ==
    /\ task[i] = "suspended"
    /\ task' = [task EXCEPT ![i] = "running"]
    /\ UNCHANGED <<overload, taskResult, wrapper, got, started, inline,
                   counterVars,
                   rootVars, main, mIsSet>>

\* The task ends, its final_suspend() transfers to its continuation, and that
\* takes the result or catches the exception.
TaskEnd(i) ==
    /\ task[i] = "running"
    /\ task' = [task EXCEPT ![i] = "done"]
    /\ \E r \in {"value", "exception"} :
          /\ taskResult' = [taskResult EXCEPT ![i] = r]
          /\ got' = [got EXCEPT ![i] = r]
    /\ wrapper' = [wrapper EXCEPT ![i] = "notifying"]
    /\ UNCHANGED <<overload, started, inline, counterVars, rootVars, main,
                   mIsSet>>

\* Mutant: the one that takes the count to one resumes the root.
Notify_Early(i) ==
    /\ wrapper[i] = "notifying"
    /\ wrapper' = [wrapper EXCEPT ![i] = "final"]
    /\ inline' = IF inline = i THEN 0 ELSE inline
    /\ mCount' = mCount - 1
    /\ IF mCount = 2 /\ mAwaitingHandle
       THEN root' = "running" /\ rootThread' = "other"
       ELSE UNCHANGED <<root, rootThread>>
    /\ UNCHANGED <<overload, task, taskResult, got, started, mAwaitingHandle,
                   rootResult, main, mIsSet>>

\* notify_awaitable_completed(): the last one resumes the root.
Notify(i) ==
    /\ wrapper[i] = "notifying"
    /\ wrapper' = [wrapper EXCEPT ![i] = "final"]
    /\ inline' = IF inline = i THEN 0 ELSE inline
    /\ mCount' = mCount - 1
    /\ IF mCount = 1
       THEN root' = "running" /\ rootThread' = "other"
       ELSE UNCHANGED <<root, rootThread>>
    /\ UNCHANGED <<overload, task, taskResult, got, started, mAwaitingHandle,
                   rootResult, main, mIsSet>>

-----------------------------------------------------------------------------
(* The root                                                                *)

\* try_await() of the counter: the handle is stored, then the count is taken.
StoreHandle ==
    /\ root = "starting" /\ inline = 0 /\ started = N
    /\ mAwaitingHandle' = TRUE
    /\ root' = "counting"
    /\ UNCHANGED <<overload, wrappedVars, started, inline, mCount, rootResult,
                   rootThread, main, mIsSet>>

TryAwait ==
    /\ root = "counting"
    /\ mCount' = mCount - 1
    /\ IF mCount > 1
       THEN root' = "suspended" /\ LeaveStart
       ELSE root' = "running" /\ UNCHANGED main
    /\ UNCHANGED <<overload, wrappedVars, started, inline, mAwaitingHandle,
                   rootResult, rootThread, mIsSet>>

Failed(f) == {i \in Index : f[i] = "exception"}

\* when_all() takes the results, and an exception among them ends the root: of a
\* vector in the order of the tasks, so that it is the first one; of variadic
\* tasks as arguments of make_tuple(), in an order that C++ leaves open.
Collect ==
    /\ root = "running"
    /\ IF Failed(got) = {} THEN rootResult' = 0
       ELSE /\ rootResult' \in Failed(got)
            /\ overload = "vector" => \A i \in Failed(got) : rootResult' <= i
    /\ root' = "setting"
    /\ UNCHANGED <<overload, wrappedVars, started, inline, counterVars,
                   rootThread, main, mIsSet>>

\* The root's final_suspend() sets the event: first the flag ...
SetFlag ==
    /\ root = "setting"
    /\ mIsSet' = TRUE
    /\ root' = "notifying"
    /\ UNCHANGED <<overload, wrappedVars, started, inline, counterVars,
                   rootResult, rootThread, main>>

\* ... and then, without the mutex, the condition variable.
NotifyAll ==
    /\ root = "notifying"
    /\ root' = "final"
    /\ IF main = "asleep" THEN main' = "wait" ELSE LeaveStart
    /\ UNCHANGED <<overload, wrappedVars, started, inline, counterVars,
                   rootResult, rootThread, mIsSet>>

\* The condition variable may wake its waiter for no reason.
SpuriousWakeup ==
    /\ main = "asleep"
    /\ main' = "wait"
    /\ UNCHANGED <<overload, wrappedVars, started, inline, counterVars, rootVars,
                   mIsSet>>

Root == StartTask \/ StoreHandle \/ TryAwait \/ Collect \/ SetFlag \/ NotifyAll

AllNext ==
    \/ SyncWait \/ Wait \/ SpuriousWakeup
    \/ StartTask \/ StoreHandle \/ TryAwait \/ Collect \/ SetFlag \/ NotifyAll
    \/ \E i \in Index : TaskSuspend(i) \/ TaskResume(i) \/ TaskEnd(i) \/ Notify(i)

AllSpec == AllInit /\ [][AllNext]_allVars

-----------------------------------------------------------------------------

\* The root goes on past when_all() when every task has ended and notified
\* the counter and not before, whether it suspended or not; never by two
\* threads: the one that resumes it finds it suspended.
AllDoneFirst ==
    LET unfinished == {i \in Index : wrapper[i] # "final"}
        past == root \in {"running", "setting", "notifying", "final"}
    IN  /\ mCount = Cardinality(unfinished)
                    + (IF root \in {"initial", "starting", "counting"} THEN 1 ELSE 0)
        /\ past <=> mCount = 0
        /\ \A i \in Index : wrapper[i] = "notifying" /\ mCount = 1 => root = "suspended"

\* What sync_wait() returns comes from the tasks: their values if all have one,
\* and otherwise the exception of one that was empty or threw, which is the first
\* in order if they are in a vector, in whatever order they ended.  When it has
\* returned and destroys the root, the awaitable and the event, no task runs, nor
\* is any suspended.
SyncWaitResult ==
    LET failed == {i \in Index : task[i] = "none" \/ taskResult[i] = "exception"}
    IN  main = "returned" =>
            /\ \A i \in Index : task[i] \in {"none", "done"} /\ wrapper[i] = "final"
            /\ root \in {"notifying", "final"}
            /\ rootResult \in failed \/ (rootResult = 0 /\ failed = {})
            /\ overload = "vector" => \A i \in failed : rootResult <= i

\* What sync_wait(when_all(...)) promises: it goes on once, after the last task
\* has ended and not before, and with the result that the tasks came to.
JoinsWithResult == AllDoneFirst /\ SyncWaitResult

=============================================================================
