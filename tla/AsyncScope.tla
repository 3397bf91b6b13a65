------------------------------ MODULE AsyncScope ------------------------------
(***************************************************************************)
(* coro::async_scope: coroutines are spawned into a scope, which counts    *)
(* them, by the coroutine that owns the scope and by each other, and the   *)
(* owner joins the scope: it goes on when all of them have finished.       *)
(***************************************************************************)
EXTENDS Naturals, FiniteSets

CONSTANT Works    \* the coroutines that may be spawned

VARIABLES
    scopeCount,  \* m_count
    mHandle,     \* m_handle is set
    owner,       \* the coroutine that owns the scope
    work         \* the spawned coroutines

scopeVars == <<scopeCount, mHandle, owner, work>>

ScopeInit ==
    /\ scopeCount = 1 /\ mHandle = FALSE
    /\ owner = "running"
    /\ work = [w \in Works |-> "none"]

\* Who may spawn: the owner until it joins, and a coroutine of the scope that
\* runs.
Spawners == {w \in Works : work[w] = "running"}

\* Mutant: the coroutine counts itself when it is first resumed.
Spawn_Later(w) ==
    /\ work[w] = "none" /\ (owner = "running" \/ Spawners # {})
    /\ work' = [work EXCEPT ![w] = "suspended"]
    /\ UNCHANGED <<scopeCount, mHandle, owner>>

\* spawn(): on_work_started(); the coroutine runs to its first suspension.
Spawn(w) ==
    /\ work[w] = "none" /\ (owner = "running" \/ Spawners # {})
    /\ scopeCount' = scopeCount + 1
    /\ work' = [work EXCEPT ![w] = "running"]
    /\ UNCHANGED <<mHandle, owner>>

Suspend(w) ==
    /\ work[w] = "running"
    /\ work' = [work EXCEPT ![w] = "suspended"]
    /\ UNCHANGED <<scopeCount, mHandle, owner>>

Resume(w) ==
    /\ work[w] = "suspended"
    /\ work' = [work EXCEPT ![w] = "running"]
    /\ UNCHANGED <<scopeCount, mHandle, owner>>

\* The end of the coroutine: on_work_finished(), by the on_scope_exit.
Finish(w) ==
    /\ work[w] = "running"
    /\ work' = [work EXCEPT ![w] = "finished"]
    /\ scopeCount' = scopeCount - 1
    /\ owner' = IF scopeCount = 1 THEN "joined" ELSE owner
    /\ UNCHANGED mHandle

\* join(): the count is zero only if the scope was joined before.
Join ==
    /\ owner = "running" /\ scopeCount # 0
    /\ mHandle' = TRUE
    /\ owner' = "joining"
    /\ UNCHANGED <<scopeCount, work>>

JoinCount ==
    /\ owner = "joining"
    /\ scopeCount' = scopeCount - 1
    /\ owner' = IF scopeCount > 1 THEN "suspended" ELSE "joined"
    /\ UNCHANGED <<mHandle, work>>

ScopeNext ==
    \/ Join \/ JoinCount
    \/ \E w \in Works : Spawn(w) \/ Suspend(w) \/ Resume(w) \/ Finish(w)

ScopeSpec == ScopeInit /\ [][ScopeNext]_scopeVars

-----------------------------------------------------------------------------

InScope == {w \in Works : work[w] \in {"running", "suspended"}}

\* The owner has joined the scope exactly when it has called join() and there
\* is no work left: none is dropped, whoever spawned it, and no more can come;
\* the assertions in on_work_started() and in the destructor hold.
JoinedWhenDone ==
    /\ scopeCount = Cardinality(InScope) + (IF owner \in {"running", "joining"} THEN 1 ELSE 0)
    /\ owner \in {"suspended", "joined"} => mHandle
    /\ owner = "joined" <=> scopeCount = 0

=============================================================================
