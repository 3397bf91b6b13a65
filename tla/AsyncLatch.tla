---------------------------- MODULE AsyncLatch ----------------------------
(***************************************************************************)
(* coro::async_latch: a counter in front of an async_manual_reset_event    *)
(* that nobody resets.  Whoever counts down to zero or below sets the      *)
(* event, in a later step than the one that changes the counter.  Awaiters *)
(* co_await the latch, Callers call count_down().                          *)
(***************************************************************************)
EXTENDS AsyncManualResetEvent, Integers

CONSTANTS
    InitCounts,    \* the initial counts considered
    Amounts,       \* the amounts count_down() is called with
    MaxCalls       \* bound: calls of count_down() in a behaviour

LatchConstants ==
    /\ InitCounts \subseteq Int
    /\ Amounts \subseteq Nat \ {0}
    /\ MaxCalls \in Nat

VARIABLES
    mCount,        \* m_count
    signalling,    \* threads between fetch_sub and m_event.set()
    calls          \* calls of count_down() so far

latchVars == <<eventVars, mCount, signalling, calls>>

LatchInit ==
    /\ mCount \in InitCounts
    /\ InitEvent(mCount <= 0)
    /\ signalling = {}
    /\ calls = 0

\* Mutant: the event is set only when the count is hit exactly.
CountDown_Exact(t, n) ==
    /\ t \notin signalling
    /\ eResume[t] = <<>>
    /\ calls < MaxCalls
    /\ calls' = calls + 1
    /\ mCount' = mCount - n
    /\ signalling' = IF mCount = n THEN signalling \cup {t} ELSE signalling
    /\ UNCHANGED eventVars

\* count_down(n): the fetch_sub and the comparison of the value before it.
CountDown(t, n) ==
    /\ t \notin signalling
    /\ eResume[t] = <<>>
    /\ calls < MaxCalls
    /\ calls' = calls + 1
    /\ mCount' = mCount - n
    /\ signalling' = IF mCount <= n THEN signalling \cup {t} ELSE signalling
    /\ UNCHANGED eventVars

\* count_down() sets the event.
SignalEvent(t) ==
    /\ t \in signalling
    /\ Set(t)
    /\ signalling' = signalling \ {t}
    /\ UNCHANGED <<mCount, calls>>

EventStep(A) == A /\ UNCHANGED <<mCount, signalling, calls>>

LatchNext ==
    \/ \E t \in Callers, n \in Amounts : CountDown(t, n)
    \/ \E t \in Callers : SignalEvent(t) \/ EventStep(ResumeNext(t))
    \/ \E c \in Awaiters : EventStep(AwaitReady(c))
    \/ \E c \in Awaiters : EventStep(AwaitSuspend(c))

\* A call of count_down() and the set() in it run to their end.
LatchSpec ==
    /\ LatchInit /\ [][LatchNext]_latchVars
    /\ \A t \in Callers :
          WF_latchVars(SignalEvent(t) \/ EventStep(ResumeNext(t)))

-----------------------------------------------------------------------------

\* is_ready() says what the documentation says it does: never true before the
\* count is used up, and false after that only while the call that used it up
\* is still under way.
ReadyMeansCounted ==
    /\ eState.set => mCount <= 0
    /\ mCount <= 0 /\ signalling = {} => eState.set

\* Every coroutine that awaits the latch runs once the count is used up.
AwaitersAreReleased ==
    \A c \in Awaiters :
        (mCount <= 0 /\ ePc[c] = "suspended") ~> ePc[c] = "running"

=============================================================================
