---------------------------- MODULE AsyncMutex ----------------------------
(***************************************************************************)
(* coro::async_mutex.  m_state is one atomic word: not_locked,             *)
(* locked_no_waiters, or a pointer to a most-recently-queued-first list of *)
(* waiters.  m_waiters is a second list, oldest first, that only the lock  *)
(* owner touches.  unlock() resumes the next owner inside the call, so the *)
(* coroutine that unlocked runs again only when the one it resumed leaves  *)
(* the thread.                                                             *)
(*                                                                         *)
(* An action is one atomic operation on m_state with the thread-local code *)
(* around it.  A waiter's operation object lives in its coroutine frame,   *)
(* so a coroutine stands for its operation object and its address.  The    *)
(* m_next links are in the objects: the address of the head determines the *)
(* list, and a list is written as the sequence of its elements.            *)
(***************************************************************************)
EXTENDS Sequences, SequencesExt

CONSTANTS
    Coroutines,      \* the coroutines that use the mutex
    None             \* "no coroutine": resumed by a scheduler, not by unlock()

ASSUME CoroutinesAssumption ==
    {None, "not_locked", "locked_no_waiters"} \cap Coroutines = {}

VARIABLES
    mState,     \* the word: is it locked, and the list it points to
    mWaiters,   \* m_waiters, oldest first
    pc,         \* where each coroutine is
    old,        \* old_state of await_suspend(), the word last read
    resumer     \* the coroutine whose unlock() call is running this one

vars == <<mState, mWaiters, pc, old, resumer>>

PCs == {"idle", "lockCas", "suspended", "holding", "unlockTake",
        "resuming", "done"}

NotLocked == [locked |-> FALSE, list |-> <<>>]
LockedNoWaiters == [locked |-> TRUE, list |-> <<>>]

\* What a load of m_state returns.
Word(s) ==
    CASE ~s.locked     -> "not_locked"
      [] s = LockedNoWaiters -> "locked_no_waiters"
      [] OTHER         -> s.list[1]

Words == Coroutines \cup {"not_locked", "locked_no_waiters"}

Init ==
    /\ mState = NotLocked
    /\ mWaiters = <<>>
    /\ pc = [c \in Coroutines |-> "idle"]
    /\ old = [c \in Coroutines |-> "not_locked"]
    /\ resumer = [c \in Coroutines |-> None]

\* c leaves the thread: the resume() that was running it returns.
Leave(c, at) ==
    /\ pc' = [x \in Coroutines |-> CASE x = c          -> at
                                     [] x = resumer[c] -> "idle"
                                     [] OTHER          -> pc[x]]
    /\ resumer' = [resumer EXCEPT ![c] = None]

\* Mutant: test and set as two steps, the test already made.
TryLock_NoTest(c) ==
    /\ pc[c] = "idle"
    /\ mState' = [mState EXCEPT !.locked = TRUE]
    /\ pc' = [pc EXCEPT ![c] = "holding"]
    /\ UNCHANGED <<mWaiters, old, resumer>>

\* try_lock(): one strong compare-exchange.
TryLock(c) ==
    /\ pc[c] = "idle"
    /\ mState = NotLocked
    /\ mState' = LockedNoWaiters
    /\ pc' = [pc EXCEPT ![c] = "holding"]
    /\ UNCHANGED <<mWaiters, old, resumer>>

\* co_await lock_async(): await_suspend() reads the word.
LockLoad(c) ==
    /\ pc[c] = "idle"
    /\ old' = [old EXCEPT ![c] = Word(mState)]
    /\ pc' = [pc EXCEPT ![c] = "lockCas"]
    /\ UNCHANGED <<mState, mWaiters, resumer>>

\* The word still says not_locked: the lock is taken without suspending.
LockAcquire(c) ==
    /\ pc[c] = "lockCas"
    /\ old[c] = "not_locked"
    /\ Word(mState) = old[c]
    /\ mState' = LockedNoWaiters
    /\ pc' = [pc EXCEPT ![c] = "holding"]
    /\ UNCHANGED <<mWaiters, old, resumer>>

\* The word still holds the head read before: c is pushed on it and suspends.
LockEnqueue(c) ==
    /\ pc[c] = "lockCas"
    /\ old[c] # "not_locked"
    /\ Word(mState) = old[c]
    /\ mState' = [locked |-> TRUE, list |-> <<c>> \o mState.list]
    /\ Leave(c, "suspended")
    /\ UNCHANGED <<mWaiters, old>>

\* A failed compare-exchange leaves the current word in old_state.
LockRetry(c) ==
    /\ pc[c] = "lockCas"
    /\ Word(mState) # old[c]
    /\ old' = [old EXCEPT ![c] = Word(mState)]
    /\ UNCHANGED <<mState, mWaiters, pc, resumer>>

\* m_waiters = waiters_head->m_next; waiters_head->m_awaiter.resume();
HandOff(c, waiters) ==
    /\ mWaiters' = Tail(waiters)
    /\ pc' = [pc EXCEPT ![c] = "resuming", ![Head(waiters)] = "holding"]
    /\ resumer' = [resumer EXCEPT ![Head(waiters)] = c]

\* unlock() with waiters already taken from the word.
UnlockHandOff(c) ==
    /\ pc[c] = "holding"
    /\ mWaiters # <<>>
    /\ HandOff(c, mWaiters)
    /\ UNCHANGED <<mState, old>>

\* unlock() with nobody waiting: the compare-exchange frees the mutex.
UnlockFree(c) ==
    /\ pc[c] = "holding"
    /\ mWaiters = <<>>
    /\ mState = LockedNoWaiters
    /\ mState' = NotLocked
    /\ pc' = [pc EXCEPT ![c] = "idle"]
    /\ UNCHANGED <<mWaiters, old, resumer>>

\* The compare-exchange of unlock() finds a list of waiters and fails.
UnlockContended(c) ==
    /\ pc[c] = "holding"
    /\ mWaiters = <<>>
    /\ mState # LockedNoWaiters
    /\ pc' = [pc EXCEPT ![c] = "unlockTake"]
    /\ UNCHANGED <<mState, mWaiters, old, resumer>>

\* Mutant: the list is not reversed.
UnlockTake_Lifo(c) ==
    /\ pc[c] = "unlockTake"
    /\ mState' = LockedNoWaiters
    /\ HandOff(c, mState.list)
    /\ UNCHANGED old

\* Mutant: only the oldest waiter is kept.
UnlockTake_DropRest(c) ==
    /\ pc[c] = "unlockTake"
    /\ mState' = LockedNoWaiters
    /\ HandOff(c, <<Last(mState.list)>>)
    /\ UNCHANGED old

\* unlock() exchanges the list out of the word, reverses it and hands off.
UnlockTake(c) ==
    /\ pc[c] = "unlockTake"
    /\ mState' = LockedNoWaiters
    /\ HandOff(c, Reverse(mState.list))
    /\ UNCHANGED old

\* The coroutine is done with the mutex and finishes.
Finish(c) ==
    /\ pc[c] = "idle"
    /\ Leave(c, "done")
    /\ UNCHANGED <<mState, mWaiters, old>>

Terminated ==
    /\ \A c \in Coroutines : pc[c] = "done"
    /\ UNCHANGED vars

Step(c) ==
    \/ TryLock(c)
    \/ LockLoad(c)
    \/ LockAcquire(c)
    \/ LockEnqueue(c)
    \/ LockRetry(c)
    \/ UnlockHandOff(c)
    \/ UnlockFree(c)
    \/ UnlockContended(c)
    \/ UnlockTake(c)
    \/ Finish(c)

Next == (\E c \in Coroutines : Step(c)) \/ Terminated

Spec == Init /\ [][Next]_vars

\* A running coroutine keeps running, and an owner unlocks in the end.
Fairness ==
    \A c \in Coroutines :
        /\ WF_vars(LockAcquire(c) \/ LockEnqueue(c) \/ LockRetry(c))
        /\ WF_vars(UnlockHandOff(c) \/ UnlockFree(c) \/ UnlockContended(c))
        /\ WF_vars(UnlockTake(c))

FairSpec == Spec /\ Fairness

-----------------------------------------------------------------------------

Owners == {c \in Coroutines : pc[c] \in {"holding", "unlockTake"}}

\* Everyone waiting, longest waiting first.
Queue == mWaiters \o Reverse(mState.list)

\* The state of the mutex has the shape the comments of async_mutex give.
TypeOK ==
    /\ mState \in [locked : BOOLEAN, list : Seq(Coroutines)]
    /\ mWaiters \in Seq(Coroutines)
    /\ pc \in [Coroutines -> PCs]
    /\ old \in [Coroutines -> Words]
    /\ resumer \in [Coroutines -> Coroutines \cup {None}]

\* Mutual exclusion, and the lock word agrees with it: a locked word means
\* exactly one owner, whatever mix of try_lock(), lock_async() and hand-off
\* from unlock() made it so; a free word means no owner and nobody left behind
\* on either list.
WordMatchesOwner ==
    IF mState.locked
    THEN \E c \in Coroutines : Owners = {c}
    ELSE Owners = {} /\ Queue = <<>>

\* The coroutines suspended on the mutex are exactly those on its two lists:
\* none is forgotten by a racing unlock(), none is resumed while still queued.
SuspendedAreQueued ==
    {c \in Coroutines : pc[c] = "suspended"} = ToSet(Queue)

\* A coroutine is on the lists at most once, so it is resumed once per wait.
QueuedOnce == \A i, j \in 1..Len(Queue) : Queue[i] = Queue[j] => i = j

\* The assert after the failed compare-exchange of unlock(): whatever happened
\* before the exchange, the word is a list of waiters.  The owner's own list is
\* still empty, so the reversal starts from the end of the queue.
UnlockAsserts ==
    \A c \in Coroutines :
        pc[c] = "unlockTake" => mState.list # <<>> /\ mWaiters = <<>>

\* The nested resume() calls form stacks, never a knot: a coroutine inside
\* unlock() waits for exactly one coroutine, and that one is on the thread, so
\* when it suspends the call returns to the right place.
NestedResume ==
    /\ \A c \in Coroutines :
         pc[c] = "resuming" => \E d \in Coroutines : resumer[d] = c
    /\ \A d \in Coroutines : resumer[d] # None =>
         /\ pc[resumer[d]] = "resuming"
         /\ pc[d] \notin {"suspended", "done"}
         /\ \A e \in Coroutines : resumer[e] = resumer[d] => e = d

\* The mutex is in order: one owner at most and in agreement with the word,
\* every suspended coroutine queued exactly once, unlock()'s assertions true
\* and the calls of resume() nested.
MutexSafe ==
    /\ WordMatchesOwner
    /\ SuspendedAreQueued /\ QueuedOnce
    /\ UnlockAsserts
    /\ NestedResume

\* async_mutex is the abstract FIFO mutex of AbstractMutex.
Abstract == INSTANCE AbstractMutex WITH owner <- Owners, queue <- Queue

\* Every step is a step of the abstract mutex or leaves it unchanged.
FifoMutex == Abstract!ASpec

\* A suspended coroutine eventually gets the mutex when owners unlock.
WaitersAreServed ==
    \A c \in Coroutines : pc[c] = "suspended" ~> pc[c] = "holding"

=============================================================================
