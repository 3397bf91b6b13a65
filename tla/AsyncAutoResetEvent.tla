------------------------ MODULE AsyncAutoResetEvent ------------------------
(***************************************************************************)
(* coro::async_auto_reset_event.  One 64-bit word holds the set count in   *)
(* its low half and the waiter count in its high half; W is the number of  *)
(* values of a half, so arithmetic on the word is modulo W * W and a       *)
(* borrow runs from one half into the other.  Waiters push themselves on   *)
(* m_new_waiters and then count themselves in the word.  Whoever makes     *)
(* both counts positive becomes the one that resumes waiters; it alone     *)
(* uses the list m_waiters.                                                *)
(*                                                                         *)
(* An action is one atomic operation with the local code around it.  A     *)
(* compare-exchange loop that recomputes everything from the value it      *)
(* reloads (set(), the push in await_suspend()) is one action; reset(),    *)
(* which does not, and the single attempt of operator co_await are split.  *)
(* A coroutine stands for its operation object.  A resumed coroutine runs  *)
(* concurrently with its resumer, which adds interleavings to those of the *)
(* code, where it runs on the resumer's thread first.  A local variable is *)
(* put back to its initial value when the code is done with it.            *)
(***************************************************************************)
EXTENDS Integers, Sequences, SequencesExt, FiniteSets

CONSTANTS
    Processes,        \* the coroutines and threads that use the event
    Awaiters,         \* those of them that co_await it
    W,                \* number of values of half the word, 2^32 in the code
    ConcurrentReset   \* may reset() run while others use the event?

ASSUME ConstantsAssumption ==
    /\ Awaiters \subseteq Processes /\ IsFiniteSet(Awaiters)
    /\ W \in Nat /\ W > Cardinality(Awaiters) + 1
    /\ ConcurrentReset \in BOOLEAN

VARIABLES
    mState,        \* the word
    mNewWaiters,   \* waiters in the order last pushed first
    mWaiters,      \* waiters in the order first pushed first
    pc,            \* where each process is
    old,           \* old_state of operator co_await and of reset()
    count,         \* waiters_resume_count of resume_waiters()
    todo,          \* how many of them are still to be moved
    resumeList,    \* resume_list of resume_waiters()
    ret,           \* where resume_waiters() returns to
    refCount       \* m_ref_count of each awaiter's operation

locals == <<old, count, todo, resumeList, ret, refCount>>
vars == <<mState, mNewWaiters, mWaiters, pc, locals>>

PCs == {"idle", "awaitCas", "push", "count", "release", "suspended",
        "reset", "move", "wake"}

SetCount(s) == s % W
WaiterCount(s) == s \div W
Sum64(s, n) == (s + n) % (W * W)

\* How many waiters a word says can be resumed.
Resumable(s) ==
    IF SetCount(s) < WaiterCount(s) THEN SetCount(s) ELSE WaiterCount(s)

Init ==
    /\ mState \in {0, 1}
    /\ mNewWaiters = <<>>
    /\ mWaiters = <<>>
    /\ pc = [p \in Processes |-> "idle"]
    /\ old = [p \in Processes |-> 0]
    /\ count = [p \in Processes |-> 0]
    /\ todo = [p \in Processes |-> 0]
    /\ resumeList = [p \in Processes |-> <<>>]
    /\ ret = [p \in Processes |-> "idle"]
    /\ refCount = [p \in Processes |-> 0]

Goto(p, at) == pc' = [pc EXCEPT ![p] = at]

\* A call may start, unless reset() is running and must not be disturbed.
MayCall(p) ==
    /\ pc[p] = "idle"
    /\ ConcurrentReset \/ \A q \in Processes : pc[q] # "reset"

\* operator co_await reads the word: is there a set to consume?
AwaitLoad(p) ==
    /\ MayCall(p)
    /\ p \in Awaiters
    /\ old' = [old EXCEPT ![p] = mState]
    /\ Goto(p, IF SetCount(mState) > WaiterCount(mState) THEN "awaitCas" ELSE "push")
    /\ UNCHANGED <<mState, mNewWaiters, mWaiters, count, todo, resumeList, ret, refCount>>

\* Its one compare-exchange consumes the set, or the slow path is taken.
AwaitCas(p) ==
    /\ pc[p] = "awaitCas"
    /\ IF mState = old[p]
       THEN mState' = Sum64(mState, -1) /\ Goto(p, "idle")
       ELSE mState' = mState /\ Goto(p, "push")
    /\ old' = [old EXCEPT ![p] = 0]
    /\ UNCHANGED <<mNewWaiters, mWaiters, count, todo, resumeList, ret, refCount>>

\* await_suspend(): the new operation, with two references, is pushed.
AwaitPush(p) ==
    /\ pc[p] = "push"
    /\ mNewWaiters' = <<p>> \o mNewWaiters
    /\ refCount' = [refCount EXCEPT ![p] = 2]
    /\ Goto(p, "count")
    /\ UNCHANGED <<mState, mWaiters, old, count, todo, resumeList, ret>>

\* Entering resume_waiters(word), to continue at `after'.
EnterResume(p, word, after) ==
    /\ count' = [count EXCEPT ![p] = Resumable(word)]
    /\ todo' = [todo EXCEPT ![p] = Resumable(word)]
    /\ resumeList' = [resumeList EXCEPT ![p] = <<>>]
    /\ ret' = [ret EXCEPT ![p] = after]
    /\ Goto(p, "move")

\* Mutant: the waiter counts itself and does not look for a set.
AwaitCount_NoResume(p) ==
    /\ pc[p] = "count"
    /\ mState' = Sum64(mState, W)
    /\ Goto(p, "release")
    /\ UNCHANGED <<mNewWaiters, mWaiters, locals>>

\* The waiter counts itself; if it is the first one and the event is set, it
\* resumes waiters, itself perhaps.
AwaitCount(p) ==
    /\ pc[p] = "count"
    /\ mState' = Sum64(mState, W)
    /\ IF mState # 0 /\ WaiterCount(mState) = 0
       THEN EnterResume(p, mState', "release")
       ELSE Goto(p, "release") /\ UNCHANGED <<count, todo, resumeList, ret>>
    /\ UNCHANGED <<mNewWaiters, mWaiters, old, refCount>>

\* Mutant: the waiter suspends whether or not it was already resumed.
AwaitRelease_Suspend(p) ==
    /\ pc[p] = "release"
    /\ refCount' = [refCount EXCEPT ![p] = @ - 1]
    /\ Goto(p, "suspended")
    /\ UNCHANGED <<mState, mNewWaiters, mWaiters, old, count, todo, resumeList, ret>>

\* await_suspend() drops its reference and suspends if it is not the last.
AwaitRelease(p) ==
    /\ pc[p] = "release"
    /\ refCount' = [refCount EXCEPT ![p] = @ - 1]
    /\ Goto(p, IF refCount[p] = 1 THEN "idle" ELSE "suspended")
    /\ UNCHANGED <<mState, mNewWaiters, mWaiters, old, count, todo, resumeList, ret>>

\* set() of an event that is not set; the first set with waiters resumes.
\* A set() that finds the event set changes nothing.
Set(p) ==
    /\ MayCall(p)
    /\ SetCount(mState) <= WaiterCount(mState)
    /\ mState' = Sum64(mState, 1)
    /\ IF mState # 0 /\ SetCount(mState) = 0
       THEN EnterResume(p, mState', "idle")
       ELSE UNCHANGED <<pc, count, todo, resumeList, ret>>
    /\ UNCHANGED <<mNewWaiters, mWaiters, old, refCount>>

\* reset() reads the word; a word that is not set ends it.
ResetLoad(p) ==
    /\ MayCall(p)
    /\ ConcurrentReset \/ \A q \in Processes : pc[q] \in {"idle", "suspended"}
    /\ SetCount(mState) > WaiterCount(mState)
    /\ old' = [old EXCEPT ![p] = mState]
    /\ Goto(p, "reset")
    /\ UNCHANGED <<mState, mNewWaiters, mWaiters, count, todo, resumeList, ret, refCount>>

\* The loop of reset(): a failed compare-exchange reloads old_state but not
\* the two counts the loop condition looks at.
ResetCas(p) ==
    /\ pc[p] = "reset"
    /\ IF mState = old[p]
       THEN mState' = Sum64(mState, -1) /\ Goto(p, "idle") /\ old' = [old EXCEPT ![p] = 0]
       ELSE old' = [old EXCEPT ![p] = mState] /\ UNCHANGED <<mState, pc>>
    /\ UNCHANGED <<mNewWaiters, mWaiters, count, todo, resumeList, ret, refCount>>

\* resume_waiters() moves a waiter to its own list, oldest first, refilling
\* m_waiters from m_new_waiters when it is empty.
ResumeMove(p) ==
    LET waiters == IF mWaiters = <<>> THEN Reverse(mNewWaiters) ELSE mWaiters
    IN  /\ pc[p] = "move"
        /\ todo[p] > 0
        /\ waiters # <<>>
        /\ mNewWaiters' = IF mWaiters = <<>> THEN <<>> ELSE mNewWaiters
        /\ mWaiters' = Tail(waiters)
        /\ resumeList' = [resumeList EXCEPT ![p] = Append(@, Head(waiters))]
        /\ todo' = [todo EXCEPT ![p] = @ - 1]
        /\ UNCHANGED <<mState, pc, old, count, ret, refCount>>

\* Mutant: only the set count is reduced.
ResumeSubtract_SetOnly(p) ==
    /\ pc[p] = "move"
    /\ todo[p] = 0
    /\ mState' = Sum64(mState, -count[p])
    /\ LET more == Resumable(mState')
       IN  /\ count' = [count EXCEPT ![p] = more]
           /\ todo' = [todo EXCEPT ![p] = more]
           /\ Goto(p, IF more > 0 THEN "move" ELSE "wake")
    /\ UNCHANGED <<mNewWaiters, mWaiters, old, resumeList, ret, refCount>>

\* The moved waiters are taken off both counts.  If sets and waiters arrived
\* meanwhile they are this process's to match, otherwise it stops resuming.
ResumeSubtract(p) ==
    /\ pc[p] = "move"
    /\ todo[p] = 0
    /\ mState' = Sum64(mState, -(count[p] * (W + 1)))
    /\ LET more == Resumable(mState')
       IN  /\ count' = [count EXCEPT ![p] = more]
           /\ todo' = [todo EXCEPT ![p] = more]
           /\ Goto(p, IF more > 0 THEN "move" ELSE "wake")
    /\ UNCHANGED <<mNewWaiters, mWaiters, old, resumeList, ret, refCount>>

\* The head of the list loses the resumer's reference; it is resumed if its
\* await_suspend() has dropped the other one already.
ResumeWake(p) ==
    LET c == Head(resumeList[p])
        rest == Tail(resumeList[p])
    IN  /\ pc[p] = "wake"
        /\ refCount' = [refCount EXCEPT ![c] = @ - 1]
        /\ resumeList' = [resumeList EXCEPT ![p] = rest]
        /\ pc' = [q \in Processes |->
                     CASE q = c /\ refCount[c] = 1 -> "idle"
                       [] q = p /\ rest = <<>>     -> ret[p]
                       [] OTHER                    -> pc[q]]
        /\ ret' = IF rest = <<>> THEN [ret EXCEPT ![p] = "idle"] ELSE ret
        /\ UNCHANGED <<mState, mNewWaiters, mWaiters, old, count, todo>>

\* What a process does once it has started a call.
Continue(p) ==
    \/ AwaitCas(p)
    \/ AwaitPush(p)
    \/ AwaitCount(p)
    \/ AwaitRelease(p)
    \/ ResetCas(p)
    \/ ResumeMove(p)
    \/ ResumeSubtract(p)
    \/ ResumeWake(p)

Next ==
    \E p \in Processes : AwaitLoad(p) \/ Set(p) \/ ResetLoad(p) \/ Continue(p)

Spec == Init /\ [][Next]_vars

\* A call that has started is run to its end.
FairSpec == Spec /\ \A p \in Processes : WF_vars(Continue(p))

-----------------------------------------------------------------------------

Halves == 0..W - 1

\* Types of the state.
TypeOK ==
    /\ mState \in 0..W * W - 1
    /\ mNewWaiters \in Seq(Awaiters)
    /\ mWaiters \in Seq(Awaiters)
    /\ pc \in [Processes -> PCs]
    /\ old \in [Processes -> 0..W * W - 1]
    /\ count \in [Processes -> Halves]
    /\ todo \in [Processes -> Halves]
    /\ resumeList \in [Processes -> Seq(Awaiters)]
    /\ ret \in [Processes -> {"idle", "release"}]
    /\ refCount \in [Processes -> 0..2]

Resumers == {p \in Processes : pc[p] = "move"}

\* m_waiters is a plain pointer: at most one process at a time is in the part
\* of resume_waiters() that uses it, though any set() and any co_await may
\* enter that part.  The word counts the waiters: those on the lists and those
\* a resumer has moved and not yet subtracted, less those that pushed and did
\* not count, so that the asserts of resume_waiters() hold.
WordCountsWaiters ==
    LET Uncounted == {p \in Processes : pc[p] = "count"}
        Moved(p) == count[p] - todo[p]
        listed == Len(mNewWaiters) + Len(mWaiters)
        counted == WaiterCount(mState) + Cardinality(Uncounted)
    IN  /\ Cardinality(Resumers) <= 1
        /\ Resumers = {} => counted = listed
        /\ \A p \in Resumers :
              /\ counted = listed + Moved(p)
              /\ todo[p] > 0 => mWaiters # <<>> \/ mNewWaiters # <<>>

\* A set is never left beside a waiter: when both counts are positive, a
\* process is on its way to match them.
NoStrandedWaiter ==
    SetCount(mState) > 0 /\ WaiterCount(mState) > 0 => Resumers # {}

\* A waiter that was matched with a set runs again, also when the match came
\* before its await_suspend() returned.
MatchedWaiterRuns ==
    \A p \in Processes, c \in Awaiters :
        c \in ToSet(resumeList[p]) ~> pc[c] = "idle"

\* The destructor's asserts: nobody is using the event, so the word counts no
\* waiters and the lists are empty.
DestructorAsserts ==
    (\A p \in Processes : pc[p] = "idle") =>
        /\ WaiterCount(mState) = 0
        /\ mNewWaiters = <<>>
        /\ mWaiters = <<>>

=============================================================================
