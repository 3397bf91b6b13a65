----------------------- MODULE AsyncManualResetEvent -----------------------
(***************************************************************************)
(* coro::async_manual_reset_event.  m_state is one word: the event's own   *)
(* address ("set"), or a pointer to a list of waiters, last queued first.  *)
(* set() exchanges the list out of the word and resumes it element by      *)
(* element, while others may reset the event, queue again and set it.      *)
(*                                                                         *)
(* An action is one atomic operation.  The push in await_suspend() is a    *)
(* compare-exchange loop that decides again on every value it reloads, so  *)
(* it is one action; so is is_set(), whose first load is not used.  A      *)
(* coroutine stands for the operation object in its frame.                 *)
(***************************************************************************)
EXTENDS Naturals, Sequences, SequencesExt, FiniteSets

CONSTANTS
    Awaiters,      \* coroutines that co_await the event
    Callers        \* threads that call set() and reset()

VARIABLES
    eState,        \* m_state: is it set, and the list of waiters
    ePc,           \* where each awaiter is
    eResume        \* what each set() call still has to resume

eventVars == <<eState, ePc, eResume>>

Set_ == [set |-> TRUE, list |-> <<>>]
NotSet == [set |-> FALSE, list |-> <<>>]

InitEvent(init) ==
    /\ eState = IF init THEN Set_ ELSE NotSet
    /\ ePc = [c \in Awaiters |-> "running"]
    /\ eResume = [t \in Callers |-> <<>>]

EventInit == \E init \in BOOLEAN : InitEvent(init)

\* co_await: await_ready() finds the event not set.  If it is set the
\* coroutine goes on and nothing changes.
AwaitReady(c) ==
    /\ ePc[c] = "running"
    /\ ~eState.set
    /\ ePc' = [ePc EXCEPT ![c] = "suspending"]
    /\ UNCHANGED <<eState, eResume>>

\* await_suspend(): continue if the event was set meanwhile, queue otherwise.
AwaitSuspend(c) ==
    /\ ePc[c] = "suspending"
    /\ IF eState.set
       THEN eState' = eState /\ ePc' = [ePc EXCEPT ![c] = "running"]
       ELSE /\ eState' = [eState EXCEPT !.list = <<c>> \o @]
            /\ ePc' = [ePc EXCEPT ![c] = "suspended"]
    /\ UNCHANGED eResume

\* Mutant: the state is stored after the list was read.
Set_NoExchange(t) ==
    /\ eResume[t] = <<>>
    /\ eState' = [eState EXCEPT !.set = TRUE]
    /\ eResume' = [eResume EXCEPT ![t] = eState.list]
    /\ UNCHANGED ePc

\* set(): the exchange hands the list of waiters to the caller.
Set(t) ==
    /\ eResume[t] = <<>>
    /\ eState' = Set_
    /\ eResume' = [eResume EXCEPT ![t] = eState.list]
    /\ UNCHANGED ePc

\* Mutant: the link is read after the waiter was resumed and stops short.
ResumeNext_Stale(t) ==
    /\ Len(eResume[t]) > 1
    /\ ePc' = [ePc EXCEPT ![Head(eResume[t])] = "running"]
    /\ eResume' = [eResume EXCEPT ![t] = Tail(@)]
    /\ UNCHANGED eState

\* The loop of set(): read the link, resume the waiter, go on to the next.
ResumeNext(t) ==
    /\ eResume[t] # <<>>
    /\ ePc' = [ePc EXCEPT ![Head(eResume[t])] = "running"]
    /\ eResume' = [eResume EXCEPT ![t] = Tail(@)]
    /\ UNCHANGED eState

\* Mutant: reset() stores nullptr whatever the state.
Reset_Store(t) ==
    /\ eResume[t] = <<>>
    /\ eState' = NotSet
    /\ UNCHANGED <<ePc, eResume>>

\* reset(): compare-exchange from set to not set; otherwise nothing changes.
Reset(t) ==
    /\ eResume[t] = <<>>
    /\ eState.set
    /\ eState' = NotSet
    /\ UNCHANGED <<ePc, eResume>>

EventNext ==
    \/ \E c \in Awaiters : AwaitReady(c) \/ AwaitSuspend(c)
    \/ \E t \in Callers : Set(t) \/ ResumeNext(t) \/ Reset(t)

EventFairness == \A t \in Callers : WF_eventVars(ResumeNext(t))

\* A set() call that has taken a list resumes all of it.
EventSpec == EventInit /\ [][EventNext]_eventVars /\ EventFairness

-----------------------------------------------------------------------------

\* Types of the state; an event that is set has no list.
EventTypeOK ==
    /\ eState \in [set : BOOLEAN, list : Seq(Awaiters)]
    /\ eState.set => eState.list = <<>>
    /\ ePc \in [Awaiters -> {"running", "suspending", "suspended"}]
    /\ eResume \in [Callers -> Seq(Awaiters)]

Occurrences(c, s) == Cardinality({i \in 1..Len(s) : s[i] = c})

\* A suspended coroutine is on exactly one list, the event's or that of one
\* set() call, and exactly once: concurrent calls of set() never resume it
\* twice and never lose it, also when it was resumed, found the event reset
\* and queued again while the first set() is still walking its list.
SuspendedOnOneList ==
    \A c \in Awaiters :
        LET places == {t \in Callers : Occurrences(c, eResume[t]) > 0}
            inEvent == Occurrences(c, eState.list)
        IN  IF ePc[c] = "suspended"
            THEN /\ \A t \in Callers : Occurrences(c, eResume[t]) <= 1
                 /\ inEvent + Cardinality(places) = 1
            ELSE inEvent = 0 /\ places = {}

Released == UNION {ToSet(eResume[t]) : t \in Callers}

\* The event implements the gate.
Gate == INSTANCE AbstractGate
            WITH open <- eState.set, waiting <- ToSet(eState.list),
                 released <- Released

ImplementsGate == Gate!ASpec

\* Whoever was queued when the event was set runs again, even if the event is
\* reset before its turn comes.
QueuedAtSetRuns == \A c \in Awaiters : c \in Released ~> ePc[c] = "running"

=============================================================================
