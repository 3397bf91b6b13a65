----------------------------- MODULE MCCoroutines -----------------------------
(***************************************************************************)
(* The ways to wait for coroutines, and the generators: a shared_task,     *)
(* when_all() and sync_wait() on tasks, an async_scope, a recursive        *)
(* generator and a row of asynchronous ones.  A behaviour is of one of     *)
(* them, chosen in the initial state; the others rest in theirs.           *)
(***************************************************************************)
EXTENDS SharedTask, WhenAll, AsyncScope, AsyncGenerator, Generators

VARIABLE object

mcVars == <<object, taskVars, allVars, scopeVars, generatorVars, asyncVars>>

MCInit ==
    /\ object \in {"shared_task", "when_all", "async_scope", "recursive", "async"}
    /\ Init /\ AllInit /\ ScopeInit /\ RowInit
    /\ object # "when_all" => overload = "vector" /\ \A i \in 1..N : task[i] = "initial"
    /\ IF object = "recursive" THEN NestInit
       ELSE NestInitFor([n \in Nodes |-> <<>>], {})

OfTask(A) == object = "shared_task" /\ A
             /\ UNCHANGED <<object, allVars, scopeVars, generatorVars, asyncVars>>
OfAll(A) == object = "when_all" /\ A
            /\ UNCHANGED <<object, taskVars, scopeVars, generatorVars, asyncVars>>
OfScope(A) == object = "async_scope" /\ A
              /\ UNCHANGED <<object, taskVars, allVars, generatorVars, asyncVars>>
OfRecursive(A) == object = "recursive" /\ A
                  /\ UNCHANGED <<object, taskVars, allVars, scopeVars, asyncVars>>
OfAsync(A) == object = "async" /\ A
              /\ UNCHANGED <<object, taskVars, allVars, scopeVars, generatorVars>>

MCNext ==
    \/ OfTask(Next) \/ OfAll(AllNext) \/ OfScope(ScopeNext)
    \/ OfRecursive(NestNext) \/ OfAsync(RowNext)

\* The thread in sync_wait() runs, as do those that run the root and a task;
\* a task does not go on suspending for ever.
MCSpec ==
    /\ MCInit /\ [][MCNext]_mcVars
    /\ SharedTaskFairness
    /\ WF_mcVars(OfAll(SyncWait \/ Wait))
    /\ WF_mcVars(OfAll(Root))
    /\ \A i \in 1..N :
          /\ WF_mcVars(OfAll(TaskResume(i) \/ Notify(i)))
          /\ SF_mcVars(OfAll(TaskEnd(i)))

\* Whoever calls sync_wait() returns from it, and whoever awaits the shared
\* task goes on.
WaitersGoOn ==
    /\ object = "when_all" ~> main = "returned"
    /\ AwaitersGoOn

=============================================================================
