------------------------ MODULE SingleConsumerEvent ------------------------
(***************************************************************************)
(* coro::single_consumer_event: a manual reset event that one coroutine at *)
(* a time may await.  Its word is "not set", "set" or the handle of the    *)
(* coroutine, which set() takes out of it and resumes.                     *)
(***************************************************************************)
EXTENDS Naturals, FiniteSets

CONSTANTS
    Consumer,      \* the coroutine that awaits
    Setters        \* threads that call set() and reset()

VARIABLES
    word,          \* m_state
    consumer,      \* where the coroutine is
    resuming       \* calls of set() that hold its handle

singleVars == <<word, consumer, resuming>>

SingleInit ==
    /\ word \in {"not set", "set"}
    /\ consumer = "running"
    /\ resuming = {}

\* await_ready(): the event is not set.
SingleAwaitReady ==
    /\ consumer = "running"
    /\ word # "set"
    /\ consumer' = "suspending"
    /\ UNCHANGED <<word, resuming>>

\* await_suspend(): the compare-exchange stores the handle and the coroutine
\* is suspended, or the event has been set and it goes on.
SingleAwaitSuspend ==
    /\ consumer = "suspending"
    /\ IF word = "not set"
       THEN word' = Consumer /\ consumer' = "suspended"
       ELSE word' = word /\ consumer' = "running"
    /\ UNCHANGED resuming

\* set(): the exchange, which may return a handle.
SingleSet(t) ==
    /\ t \notin resuming
    /\ word' = "set"
    /\ resuming' = IF word = Consumer THEN resuming \cup {t} ELSE resuming
    /\ UNCHANGED consumer

\* set() resumes the coroutine.
SingleResume(t) ==
    /\ t \in resuming
    /\ resuming' = resuming \ {t}
    /\ consumer' = "running"
    /\ UNCHANGED word

\* Mutant: reset() stores "not set" over whatever there is.
SingleReset_Store(t) ==
    /\ t \notin resuming
    /\ word' = "not set"
    /\ UNCHANGED <<consumer, resuming>>

\* reset(): compare-exchange from "set"; otherwise nothing changes.
SingleReset(t) ==
    /\ t \notin resuming
    /\ word = "set"
    /\ word' = "not set"
    /\ UNCHANGED <<consumer, resuming>>

SingleNext ==
    \/ SingleAwaitReady
    \/ SingleAwaitSuspend
    \/ \E t \in Setters : SingleSet(t) \/ SingleResume(t) \/ SingleReset(t)

SingleSpec == SingleInit /\ [][SingleNext]_singleVars

-----------------------------------------------------------------------------

\* The handle of a suspended coroutine is in exactly one place, the word or
\* one call of set(), and nobody holds the handle of one that is not
\* suspended: no call of reset() loses it and no two calls of set() resume it.
HandleIsInOnePlace ==
    (IF word = Consumer THEN 1 ELSE 0) + Cardinality(resuming)
        = IF consumer = "suspended" THEN 1 ELSE 0

\* It promises what the event for many coroutines promises.
SingleGate == INSTANCE AbstractGate
                  WITH Awaiters <- {Consumer},
                       open <- word = "set",
                       waiting <- {c \in {Consumer} : word = c},
                       released <- {c \in {Consumer} : resuming # {}}

\* Refinement: opening the event releases who waits at it, whatever happens
\* to the event before the coroutine runs.
SingleImplementsGate == SingleGate!ASpec

=============================================================================
