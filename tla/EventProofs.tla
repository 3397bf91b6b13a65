---------------------------- MODULE EventProofs -----------------------------
(***************************************************************************)
(* Proofs about the objects that coroutines wait at, for any coroutines    *)
(* and any callers: AsyncMutex; AsyncManualResetEvent; AsyncLatch, for any *)
(* amounts and initial counts, those below zero included;                  *)
(* SingleConsumerEvent, for any number of threads that set and reset it;   *)
(* SingleConsumerAutoResetEvent, likewise; SequenceBarrier.                *)
(***************************************************************************)
EXTENDS AsyncMutex, AsyncLatch, SingleConsumerEvent, SingleConsumerAutoResetEvent,
        SequenceBarrier, Lemmas, SequenceTheorems, FunctionTheorems

-----------------------------------------------------------------------------
(* AsyncMutex.  Its two lists are reasoned about through Queue alone:      *)
(* locking appends to it, unlocking takes its head, and taking the list    *)
(* out of the word leaves it as it is.                                     *)

\* The inductive invariant.
MutexInv ==
    /\ TypeOK
    /\ WordMatchesOwner
    /\ SuspendedAreQueued
    /\ QueuedOnce
    /\ UnlockAsserts
    /\ NestedResume

\* Reversing a sequence yields a sequence of the same length.
LEMMA ReverseIsSeq ==
    ASSUME NEW S, NEW s \in Seq(S)
    PROVE  /\ Reverse(s) \in Seq(S)
           /\ Len(Reverse(s)) = Len(s)
           /\ \A i \in 1..Len(s) : Reverse(s)[i] = s[Len(s) - i + 1]
BY DEF Reverse

\* Pushing on the front of a list appends to its reverse.
LEMMA ReversePush ==
    ASSUME NEW S, NEW s \in Seq(S), NEW c \in S
    PROVE  Reverse(<<c>> \o s) = Append(Reverse(s), c)
<1> DEFINE t == <<c>> \o s
<1>1. t \in Seq(S) /\ Len(t) = Len(s) + 1
  OBVIOUS
<1>2. t[1] = c /\ \A i \in 2..Len(t) : t[i] = s[i - 1]
  OBVIOUS
<1> HIDE DEF t
<1>3. Len(Reverse(t)) = Len(Append(Reverse(s), c))
  BY <1>1, ReverseIsSeq
<1>4. ASSUME NEW i \in 1..Len(t)
      PROVE  Reverse(t)[i] = Append(Reverse(s), c)[i]
  <2>1. Reverse(t)[i] = t[Len(t) - i + 1]
    BY <1>1, ReverseIsSeq
  <2>2. CASE i = Len(t)
    BY <2>1, <2>2, <1>1, <1>2, ReverseIsSeq
  <2>3. CASE i # Len(t)
    <3>1. i \in 1..Len(s) /\ Len(t) - i + 1 \in 2..Len(t)
      BY <1>1, <2>3
    <3>2. Reverse(t)[i] = s[Len(s) - i + 1]
      BY <1>1, <1>2, <2>1, <3>1
    <3>3. Append(Reverse(s), c)[i] = Reverse(s)[i]
      BY <3>1, ReverseIsSeq
    <3> QED BY <3>1, <3>2, <3>3, ReverseIsSeq
  <2> QED BY <2>2, <2>3
<1>5. Reverse(t) \in Seq(S) /\ Append(Reverse(s), c) \in Seq(S)
  BY <1>1, ReverseIsSeq
<1>6. Len(Reverse(t)) = Len(t)
  BY <1>1, ReverseIsSeq
<1> QED
  BY <1>3, <1>4, <1>5, <1>6, SeqEqual DEF t

\* What Append, Head and Tail do to the elements of a queue.
LEMMA QueueElements ==
    ASSUME NEW S, NEW s \in Seq(S)
    PROVE  /\ \A c \in S : ToSet(Append(s, c)) = ToSet(s) \cup {c}
           /\ s # <<>> => ToSet(s) = ToSet(Tail(s)) \cup {Head(s)}
<1>1. ASSUME NEW c \in S
      PROVE  ToSet(Append(s, c)) = ToSet(s) \cup {c}
  <2>1. ToSet(Append(s, c)) \subseteq ToSet(s) \cup {c}
    BY DEF ToSet
  <2>2. ASSUME NEW i \in 1..Len(s)
        PROVE  s[i] = Append(s, c)[i] /\ i \in 1..Len(Append(s, c))
    OBVIOUS
  <2>3. Append(s, c)[Len(s) + 1] = c /\ Len(s) + 1 \in 1..Len(Append(s, c))
    OBVIOUS
  <2> QED BY <2>1, <2>2, <2>3 DEF ToSet
<1>2. ASSUME s # <<>>
      PROVE  ToSet(s) = ToSet(Tail(s)) \cup {Head(s)}
  <2>1. Tail(s) \in Seq(S) /\ Len(Tail(s)) = Len(s) - 1 /\ Len(s) >= 1
    BY <1>2
  <2>2. \A i \in 1..Len(Tail(s)) : Tail(s)[i] = s[i + 1]
    BY <1>2
  <2>3. Head(s) = s[1]
    BY <1>2
  <2>4. ASSUME NEW i \in 1..Len(s)
        PROVE  s[i] \in ToSet(Tail(s)) \cup {Head(s)}
    <3>1. CASE i = 1 BY <3>1, <2>3
    <3>2. CASE i # 1
      <4>1. i - 1 \in 1..Len(Tail(s)) /\ Tail(s)[i - 1] = s[i]
        BY <2>1, <2>2, <3>2
      <4>2. DOMAIN Tail(s) = 1..Len(Tail(s))
        BY <2>1
      <4>3. Tail(s)[i - 1] \in ToSet(Tail(s))
        BY <4>1, <4>2 DEF ToSet
      <4> QED BY <4>1, <4>3
    <3> QED BY <3>1, <3>2
  <2>5. ToSet(Tail(s)) \subseteq ToSet(s)
    BY <2>1, <2>2 DEF ToSet
  <2>6. Head(s) \in ToSet(s)
    BY <2>1, <2>3 DEF ToSet
  <2> QED BY <2>4, <2>5, <2>6 DEF ToSet
<1> QED BY <1>1, <1>2

\* A queue without repetitions stays so: a newcomer is appended, and the head
\* that is removed does not occur in the rest.
LEMMA QueueInjective ==
    ASSUME NEW S, NEW s \in Seq(S),
           \A i, j \in 1..Len(s) : s[i] = s[j] => i = j
    PROVE  /\ \A c \in S \ ToSet(s) :
                LET t == Append(s, c)
                IN  \A i, j \in 1..Len(t) : t[i] = t[j] => i = j
           /\ s # <<>> => /\ Head(s) \notin ToSet(Tail(s))
                          /\ \A i, j \in 1..Len(Tail(s)) :
                                 Tail(s)[i] = Tail(s)[j] => i = j
<1>1. ASSUME NEW c \in S \ ToSet(s),
             NEW i \in 1..Len(Append(s, c)), NEW j \in 1..Len(Append(s, c)),
             Append(s, c)[i] = Append(s, c)[j]
      PROVE  i = j
  <2>1. \A k \in 1..Len(s) : Append(s, c)[k] = s[k] /\ s[k] # c
    BY DEF ToSet
  <2>2. Append(s, c)[Len(s) + 1] = c /\ Len(Append(s, c)) = Len(s) + 1
    OBVIOUS
  <2> QED BY <1>1, <2>1, <2>2
<1>2. ASSUME s # <<>>
      PROVE  /\ Head(s) \notin ToSet(Tail(s))
             /\ \A i, j \in 1..Len(Tail(s)) : Tail(s)[i] = Tail(s)[j] => i = j
  <2>1. /\ Tail(s) \in Seq(S)
        /\ Len(Tail(s)) = Len(s) - 1
        /\ Len(s) >= 1
        /\ \A i \in 1..Len(Tail(s)) : Tail(s)[i] = s[i + 1]
        /\ Head(s) = s[1]
    BY <1>2
  <2>2. \A i \in 1..Len(Tail(s)) : i + 1 \in 1..Len(s) /\ i + 1 # 1
    BY <2>1
  <2> QED BY <2>1, <2>2 DEF ToSet
<1> QED BY <1>1, <1>2

\* How each kind of step changes the queue, given the shape of the state.
LEMMA QueueIsSeq == TypeOK => Queue \in Seq(Coroutines)
BY ReverseIsSeq DEF TypeOK, Queue

LEMMA QueueOnEnqueue ==
    ASSUME TypeOK, NEW c \in Coroutines, LockEnqueue(c)
    PROVE  Queue' = Append(Queue, c)
<1> DEFINE r == Reverse(mState.list)
<1>1. r \in Seq(Coroutines) /\ mWaiters \in Seq(Coroutines)
  BY ReverseIsSeq DEF TypeOK
<1>2. Queue' = mWaiters \o Append(r, c)
  <2>1. /\ mState.list \in Seq(Coroutines) /\ mWaiters' = mWaiters
        /\ mState'.list = <<c>> \o mState.list
    BY DEF LockEnqueue, TypeOK
  <2>2. Reverse(<<c>> \o mState.list) = Append(Reverse(mState.list), c)
    BY <2>1, ReversePush
  <2> QED BY <2>1, <2>2 DEF Queue
<1> HIDE DEF r
<1>3. mWaiters \o Append(r, c) = Append(mWaiters \o r, c)
  BY <1>1
<1> QED BY <1>2, <1>3 DEF r, Queue

LEMMA QueueOnHandOff ==
    ASSUME TypeOK, NEW c \in Coroutines, UnlockHandOff(c)
    PROVE  /\ Queue # <<>>
           /\ Head(mWaiters) = Head(Queue)
           /\ Queue' = Tail(Queue)
<1> DEFINE r == Reverse(mState.list)
<1>1. r \in Seq(Coroutines) /\ mWaiters \in Seq(Coroutines) /\ mWaiters # <<>>
  BY ReverseIsSeq DEF TypeOK, UnlockHandOff
<1>2. Queue = mWaiters \o r /\ Queue' = Tail(mWaiters) \o r
  BY DEF UnlockHandOff, HandOff, Queue
<1> HIDE DEF r
<1> QED BY <1>1, <1>2

LEMMA QueueOnTake ==
    ASSUME TypeOK, UnlockAsserts, NEW c \in Coroutines, UnlockTake(c)
    PROVE  /\ Queue # <<>>
           /\ Reverse(mState.list) = Queue
           /\ Queue' = Tail(Queue)
<1> DEFINE r == Reverse(mState.list)
<1>1. mWaiters = <<>> /\ mState.list # <<>>
  BY DEF UnlockAsserts, UnlockTake
<1>2. r \in Seq(Coroutines) /\ r # <<>>
  BY <1>1, ReverseIsSeq DEF TypeOK
<1>3. Queue = r
  BY <1>1, <1>2 DEF Queue
<1>4. mWaiters' = Tail(r) /\ mState'.list = <<>>
  BY DEF UnlockTake, HandOff, LockedNoWaiters
<1>5. Reverse(mState'.list) = <<>>
  BY <1>4 DEF Reverse
<1>6. Queue' = Tail(r) \o <<>>
  BY <1>4, <1>5 DEF Queue
<1> QED BY <1>2, <1>3, <1>6

\* Type correctness, one step per action.
LEMMA MutexTypeStep == TypeOK /\ UnlockAsserts /\ [Next]_vars => TypeOK'
<1> SUFFICES ASSUME TypeOK, UnlockAsserts, [Next]_vars PROVE TypeOK'
  OBVIOUS
<1>0. ASSUME NEW s \in [locked : BOOLEAN, list : Seq(Coroutines)]
      PROVE  Word(s) \in Words
  BY <1>0 DEF Word, Words, LockedNoWaiters
<1>1. CASE UNCHANGED vars
  BY <1>1 DEF TypeOK, vars
<1>2. ASSUME NEW c \in Coroutines, Step(c) PROVE TypeOK'
  <2>1. CASE TryLock(c)
    BY <2>1 DEF TryLock, TypeOK, PCs, LockedNoWaiters
  <2>2. CASE LockLoad(c)
    BY <2>2, <1>0 DEF LockLoad, TypeOK, PCs
  <2>3. CASE LockAcquire(c)
    BY <2>3 DEF LockAcquire, TypeOK, PCs, LockedNoWaiters
  <2>4. CASE LockEnqueue(c)
    BY <2>4 DEF LockEnqueue, Leave, TypeOK, PCs
  <2>5. CASE LockRetry(c)
    BY <2>5, <1>0 DEF LockRetry, TypeOK
  <2>6. CASE UnlockHandOff(c)
    BY <2>6 DEF UnlockHandOff, HandOff, TypeOK, PCs
  <2>7. CASE UnlockFree(c)
    BY <2>7 DEF UnlockFree, TypeOK, PCs, NotLocked
  <2>8. CASE UnlockContended(c)
    BY <2>8 DEF UnlockContended, TypeOK, PCs
  <2>9. CASE UnlockTake(c)
    <3>1. Queue \in Seq(Coroutines) /\ Queue # <<>>
      BY <2>9, QueueIsSeq, QueueOnTake
    <3>2. HandOff(c, Queue)
      BY <2>9, QueueOnTake DEF UnlockTake
    <3>3. mState' = LockedNoWaiters /\ UNCHANGED old
      BY <2>9 DEF UnlockTake
    <3> QED
      BY <3>1, <3>2, <3>3 DEF HandOff, TypeOK, PCs, LockedNoWaiters
  <2>10. CASE Finish(c)
    BY <2>10 DEF Finish, Leave, TypeOK, PCs
  <2> QED
    BY <1>2, <2>1, <2>2, <2>3, <2>4, <2>5, <2>6, <2>7, <2>8, <2>9, <2>10 DEF Step
<1> QED
  BY <1>1, <1>2 DEF Next, Terminated

\* The owner and the waiters as a step sees them.
LEMMA OwnerStep ==
    ASSUME MutexInv, NEW c \in Coroutines, pc[c] \in {"holding", "unlockTake"}
    PROVE  mState.locked /\ Owners = {c}
BY DEF MutexInv, WordMatchesOwner, Owners

LEMMA HeadOfQueue ==
    ASSUME MutexInv, Queue # <<>>
    PROVE  Head(Queue) \in Coroutines /\ pc[Head(Queue)] = "suspended"
<1>1. Queue \in Seq(Coroutines)
  BY QueueIsSeq DEF MutexInv
<1>2. Head(Queue) \in Coroutines /\ Head(Queue) \in ToSet(Queue)
  BY <1>1, QueueElements
<1> QED BY <1>2 DEF MutexInv, SuspendedAreQueued

\* A step that enqueues keeps the invariant.
LEMMA EnqueueStep ==
    ASSUME MutexInv, TypeOK', NEW c \in Coroutines, LockEnqueue(c)
    PROVE  MutexInv'
<1>1. Queue \in Seq(Coroutines) /\ Queue' = Append(Queue, c)
  BY QueueIsSeq, QueueOnEnqueue DEF MutexInv
<1>2. c \notin ToSet(Queue)
  BY DEF LockEnqueue, MutexInv, SuspendedAreQueued
<1>3. mState.locked
  <2>1. SUFFICES ASSUME mState.locked = FALSE PROVE Word(mState) = "not_locked"
    BY DEF LockEnqueue, MutexInv, TypeOK
  <2>2. mState # LockedNoWaiters
    BY <2>1 DEF LockedNoWaiters
  <2> QED BY <2>1, <2>2 DEF Word
<1>4. /\ pc' \in [Coroutines -> PCs]
      /\ pc[c] = "lockCas" /\ pc'[c] = "suspended"
      /\ \A x \in Coroutines \ {c} :
            \/ pc'[x] = pc[x]
            \/ x = resumer[c] /\ pc[x] = "resuming" /\ pc'[x] = "idle"
  BY CoroutinesAssumption DEF LockEnqueue, Leave, MutexInv, TypeOK, NestedResume
<1>5. WordMatchesOwner'
  <2>1. Owners' = Owners
    BY <1>4 DEF Owners
  <2> QED BY <1>3, <2>1 DEF MutexInv, WordMatchesOwner, LockEnqueue
<1>6. SuspendedAreQueued'
  <2>1. {x \in Coroutines : pc'[x] = "suspended"}
          = {x \in Coroutines : pc[x] = "suspended"} \cup {c}
    BY <1>4
  <2>2. ToSet(Queue') = ToSet(Queue) \cup {c}
    BY <1>1, QueueElements
  <2> QED BY <2>1, <2>2 DEF MutexInv, SuspendedAreQueued
<1>7. QueuedOnce'
  BY <1>1, <1>2, QueueInjective DEF MutexInv, QueuedOnce
<1>8. UnlockAsserts'
  <2>1. mState'.list # <<>> /\ mWaiters' = mWaiters
    BY DEF LockEnqueue, MutexInv, TypeOK
  <2> QED BY <1>4, <2>1 DEF MutexInv, UnlockAsserts
<1>9. NestedResume'
  BY <1>4, CoroutinesAssumption DEF LockEnqueue, Leave, MutexInv, TypeOK, NestedResume
<1> QED BY <1>5, <1>6, <1>7, <1>8, <1>9 DEF MutexInv

\* A step that hands the mutex to the head of the queue keeps the invariant.
LEMMA HandOffStep ==
    ASSUME MutexInv, TypeOK', NEW c \in Coroutines,
           pc[c] \in {"holding", "unlockTake"},
           Queue # <<>>, Queue' = Tail(Queue), mState'.locked,
           pc' = [pc EXCEPT ![c] = "resuming", ![Head(Queue)] = "holding"],
           resumer' = [resumer EXCEPT ![Head(Queue)] = c]
    PROVE  MutexInv'
<1> DEFINE h == Head(Queue)
<1>1. Queue \in Seq(Coroutines)
  BY QueueIsSeq DEF MutexInv
<1>2. h \in Coroutines /\ pc[h] = "suspended" /\ h # c
  BY HeadOfQueue
<1>3. Owners = {c}
  BY OwnerStep
<1> HIDE DEF h
<1>4. pc' = [pc EXCEPT ![c] = "resuming", ![h] = "holding"]
  BY DEF h
<1>5. resumer' = [resumer EXCEPT ![h] = c]
  BY DEF h
<1>6. /\ pc'[c] = "resuming" /\ pc'[h] = "holding"
      /\ \A x \in Coroutines \ {c, h} : pc'[x] = pc[x]
  BY <1>2, <1>4 DEF MutexInv, TypeOK
<1>7. WordMatchesOwner'
  <2>1. Owners' = {h}
    BY <1>2, <1>3, <1>6 DEF Owners
  <2> QED BY <1>2, <2>1 DEF WordMatchesOwner
<1>8. SuspendedAreQueued'
  <2>1. {x \in Coroutines : pc'[x] = "suspended"}
          = {x \in Coroutines : pc[x] = "suspended"} \ {h}
    BY <1>2, <1>6
  <2>2. ToSet(Queue) = ToSet(Tail(Queue)) \cup {h} /\ h \notin ToSet(Tail(Queue))
    BY <1>1, QueueElements, QueueInjective DEF h, MutexInv, QueuedOnce
  <2> QED BY <2>1, <2>2 DEF MutexInv, SuspendedAreQueued
<1>9. QueuedOnce'
  BY <1>1, QueueInjective DEF MutexInv, QueuedOnce
<1>10. UnlockAsserts'
  BY <1>2, <1>3, <1>6 DEF UnlockAsserts, Owners
<1>11. NestedResume'
  BY <1>2, <1>5, <1>6, CoroutinesAssumption DEF MutexInv, TypeOK, NestedResume
<1> QED BY <1>7, <1>8, <1>9, <1>10, <1>11 DEF MutexInv

\* A step that leaves the queue and the set of owners alone keeps the
\* invariant when it keeps the nesting of the resume() calls.
LEMMA QuietStep ==
    ASSUME MutexInv, TypeOK', UNCHANGED <<mState, mWaiters>>,
           Owners' = Owners,
           \A x \in Coroutines : pc'[x] = "suspended" <=> pc[x] = "suspended",
           UnlockAsserts', NestedResume'
    PROVE  MutexInv'
<1>1. Queue' = Queue
  BY DEF Queue
<1> QED
  BY <1>1 DEF MutexInv, WordMatchesOwner, SuspendedAreQueued, QueuedOnce

\* A step that takes or frees the mutex while nobody is queued.
LEMMA OwnerChangeStep ==
    ASSUME MutexInv, TypeOK', NEW c \in Coroutines,
           mState.list = <<>>, mState'.list = <<>>,
           mWaiters = <<>>, mWaiters' = <<>>,
           NEW at \in PCs \ {"suspended", "unlockTake", "resuming", "done"},
           pc[c] \in {"idle", "lockCas", "holding"},
           pc' = [pc EXCEPT ![c] = at], resumer' = resumer,
           IF mState'.locked THEN Owners' = {c} ELSE Owners' = {}
    PROVE  MutexInv'
<1>1. Queue = <<>> /\ Queue' = <<>>
  BY DEF Queue, Reverse
<1>2. WordMatchesOwner'
  BY <1>1 DEF WordMatchesOwner
<1>3. /\ pc \in [Coroutines -> PCs]
      /\ pc'[c] = at /\ \A x \in Coroutines \ {c} : pc'[x] = pc[x]
  BY DEF MutexInv, TypeOK
<1>4. SuspendedAreQueued'
  BY <1>1, <1>3 DEF MutexInv, SuspendedAreQueued
<1>5. QueuedOnce'
  BY <1>1 DEF QueuedOnce
<1>6. UnlockAsserts'
  BY <1>3 DEF MutexInv, UnlockAsserts
<1>7. NestedResume'
  BY <1>3 DEF MutexInv, NestedResume, TypeOK
<1> QED BY <1>2, <1>4, <1>5, <1>6, <1>7 DEF MutexInv

\* The invariant is inductive.
LEMMA MutexInvStep == MutexInv /\ [Next]_vars => MutexInv'
<1> SUFFICES ASSUME MutexInv, [Next]_vars PROVE MutexInv'
  OBVIOUS
<1>t. TypeOK'
  BY MutexTypeStep DEF MutexInv
<1>1. CASE UNCHANGED vars
  BY <1>1, <1>t DEF vars, MutexInv, Queue, Owners, WordMatchesOwner,
     SuspendedAreQueued, QueuedOnce, UnlockAsserts, NestedResume
<1>2. ASSUME NEW c \in Coroutines, Step(c) PROVE MutexInv'
  <2>f. mState.locked = FALSE => mState.list = <<>> /\ mWaiters = <<>> /\ Owners = {}
    <3>1. SUFFICES ASSUME mState.locked = FALSE, Queue = <<>>
                   PROVE  mState.list = <<>> /\ mWaiters = <<>>
      BY DEF MutexInv, WordMatchesOwner
    <3>2. /\ Reverse(mState.list) \in Seq(Coroutines)
          /\ Len(Reverse(mState.list)) = Len(mState.list)
          /\ mWaiters \in Seq(Coroutines) /\ mState.list \in Seq(Coroutines)
      BY ReverseIsSeq DEF MutexInv, TypeOK
    <3>3. Len(Queue) = Len(mWaiters) + Len(mState.list)
      BY <3>2 DEF Queue
    <3> QED BY <3>1, <3>2, <3>3
  <2>1. CASE TryLock(c)
    <3>1. mState.list = <<>> /\ mState.locked = FALSE /\ mState'.list = <<>> /\ mState'.locked
      BY <2>1 DEF TryLock, NotLocked, LockedNoWaiters
    <3>2. Owners' = {c}
      BY <2>1, <2>f, <3>1 DEF TryLock, Owners, MutexInv, TypeOK
    <3> QED
      BY <2>1, <2>f, <1>t, <3>1, <3>2, OwnerChangeStep DEF TryLock, PCs
  <2>2. CASE LockLoad(c)
    <3>1. Owners' = Owners
      BY <2>2 DEF LockLoad, Owners, MutexInv, TypeOK
    <3>2. UnlockAsserts' /\ NestedResume'
      BY <2>2 DEF LockLoad, MutexInv, TypeOK, UnlockAsserts, NestedResume
    <3> QED
      BY <2>2, <1>t, <3>1, <3>2, QuietStep DEF LockLoad, MutexInv, TypeOK
  <2>3. CASE LockAcquire(c)
    <3>1. mState.locked = FALSE
      <4>1. SUFFICES ASSUME mState.locked PROVE Word(mState) # "not_locked"
        BY <2>3 DEF LockAcquire, MutexInv, TypeOK
      <4>2. CASE mState = LockedNoWaiters
        BY <4>1, <4>2 DEF Word
      <4>3. CASE mState # LockedNoWaiters
        <5>1. mState.list # <<>>
          BY <4>1, <4>3 DEF LockedNoWaiters, MutexInv, TypeOK
        <5>2. mState.list[1] \in Coroutines
          BY <5>1 DEF MutexInv, TypeOK
        <5> QED BY <4>1, <4>3, <5>2, CoroutinesAssumption DEF Word
      <4> QED BY <4>2, <4>3
    <3>2. mState'.list = <<>> /\ mState'.locked
      BY <2>3 DEF LockAcquire, LockedNoWaiters
    <3>3. Owners' = {c}
      BY <2>3, <2>f, <3>1 DEF LockAcquire, Owners, MutexInv, TypeOK
    <3> QED
      BY <2>3, <2>f, <1>t, <3>1, <3>2, <3>3, OwnerChangeStep DEF LockAcquire, PCs
  <2>4. CASE LockEnqueue(c)
    BY <2>4, <1>t, EnqueueStep
  <2>5. CASE LockRetry(c)
    <3>1. UNCHANGED <<mState, mWaiters, pc, resumer>>
      BY <2>5 DEF LockRetry
    <3>2. Owners' = Owners /\ UnlockAsserts' /\ NestedResume'
      BY <3>1 DEF Owners, MutexInv, UnlockAsserts, NestedResume
    <3> QED
      BY <3>1, <1>t, <3>2, QuietStep
  <2>6. CASE UnlockHandOff(c)
    <3>1. Queue # <<>> /\ Head(mWaiters) = Head(Queue) /\ Queue' = Tail(Queue)
      BY <2>6, QueueOnHandOff DEF MutexInv
    <3>2. pc[c] = "holding" /\ mState' = mState /\ HandOff(c, mWaiters)
      BY <2>6 DEF UnlockHandOff
    <3>3. mState'.locked
      BY <3>2, OwnerStep
    <3> QED
      BY <1>t, <3>1, <3>2, <3>3, HandOffStep DEF HandOff
  <2>7. CASE UnlockFree(c)
    <3>1. /\ mState.list = <<>> /\ mState'.list = <<>> /\ mState'.locked = FALSE
          /\ mWaiters = <<>> /\ mWaiters' = <<>>
          /\ pc[c] = "holding"
      BY <2>7 DEF UnlockFree, NotLocked, LockedNoWaiters
    <3>2. Owners = {c}
      BY <3>1, OwnerStep
    <3>3. Owners' = {}
      BY <2>7, <3>2 DEF UnlockFree, Owners, MutexInv, TypeOK
    <3> QED
      BY <2>7, <1>t, <3>1, <3>3, OwnerChangeStep DEF UnlockFree, PCs
  <2>8. CASE UnlockContended(c)
    <3>1. Owners' = Owners
      BY <2>8 DEF UnlockContended, Owners, MutexInv, TypeOK
    <3>2. mState.list # <<>>
      BY <2>8, OwnerStep DEF UnlockContended, LockedNoWaiters, MutexInv, TypeOK
    <3>3. UnlockAsserts' /\ NestedResume'
      BY <2>8, <3>2 DEF UnlockContended, MutexInv, TypeOK, UnlockAsserts, NestedResume
    <3> QED
      BY <2>8, <1>t, <3>1, <3>3, QuietStep DEF UnlockContended, MutexInv, TypeOK
  <2>9. CASE UnlockTake(c)
    <3>1. /\ Queue # <<>> /\ Reverse(mState.list) = Queue
          /\ Queue' = Tail(Queue)
      BY <2>9, QueueOnTake DEF MutexInv
    <3>2. pc[c] = "unlockTake" /\ HandOff(c, Queue)
      BY <2>9, <3>1 DEF UnlockTake
    <3>3. mState'.locked
      BY <2>9 DEF UnlockTake, LockedNoWaiters
    <3> QED
      BY <1>t, <3>1, <3>2, <3>3, HandOffStep DEF HandOff
  <2>10. CASE Finish(c)
    <3>1. /\ pc[c] = "idle" /\ pc'[c] = "done"
          /\ \A x \in Coroutines \ {c} :
                \/ pc'[x] = pc[x]
                \/ x = resumer[c] /\ pc[x] = "resuming" /\ pc'[x] = "idle"
      BY <2>10, CoroutinesAssumption DEF Finish, Leave, MutexInv, TypeOK, NestedResume
    <3>2. Owners' = Owners
      BY <3>1 DEF Owners
    <3>3. UnlockAsserts'
      BY <2>10, <3>1 DEF Finish, MutexInv, UnlockAsserts
    <3>4. NestedResume'
      BY <2>10, <3>1, CoroutinesAssumption DEF Finish, Leave, MutexInv, TypeOK, NestedResume
    <3>5. \A x \in Coroutines : pc'[x] = "suspended" <=> pc[x] = "suspended"
      BY <3>1
    <3> QED
      BY <2>10, <1>t, <3>2, <3>3, <3>4, <3>5, QuietStep DEF Finish
  <2> QED
    BY <1>2, <2>1, <2>2, <2>3, <2>4, <2>5, <2>6, <2>7, <2>8, <2>9, <2>10 DEF Step
<1> QED
  BY <1>1, <1>2 DEF Next, Terminated

LEMMA MutexHoldsFirst == Init => MutexInv
<1> SUFFICES ASSUME Init PROVE MutexInv
  OBVIOUS
<1>1. TypeOK
  BY CoroutinesAssumption DEF Init, TypeOK, NotLocked, PCs, Words
<1>2. Queue = <<>> /\ Owners = {}
  BY DEF Init, Queue, NotLocked, Reverse, Owners
<1> QED
  BY <1>1, <1>2 DEF Init, NotLocked, MutexInv, WordMatchesOwner, SuspendedAreQueued,
     ToSet, QueuedOnce, UnlockAsserts, NestedResume

\* In every reachable state, for any set of coroutines, the types are right,
\* the mutex has at most one owner and its word says so, the suspended
\* coroutines are those on the lists, each once, the assert of unlock() holds
\* and the nested resume() calls form stacks.
THEOREM MutexSafety == Spec => [](TypeOK /\ MutexSafe)
<1>1. MutexInv => TypeOK /\ MutexSafe
  BY DEF MutexInv, MutexSafe
<1> QED
  BY <1>1, MutexHoldsFirst, MutexInvStep, PTL DEF Spec

\* Every step of async_mutex is a step of the abstract FIFO mutex, or changes
\* neither the owner nor the queue.
LEMMA MutexRefinementStep ==
    MutexInv /\ MutexInv' /\ [Next]_vars => [Abstract!ANext]_(Abstract!avars)
<1> SUFFICES ASSUME MutexInv, MutexInv', [Next]_vars
             PROVE  [Abstract!ANext]_(Abstract!avars)
  OBVIOUS
<1> USE DEF Abstract!avars
<1>1. CASE UNCHANGED vars
  BY <1>1 DEF vars, Queue, Owners
<1>2. ASSUME NEW c \in Coroutines, Step(c)
      PROVE  [Abstract!ANext]_(Abstract!avars)
  <2>q. Queue \in Seq(Coroutines)
    BY QueueIsSeq DEF MutexInv
  <2>1. CASE TryLock(c) \/ LockAcquire(c)
    <3>1. Owners' = {c} /\ mState'.list = <<>>
      <4>1. mState' = LockedNoWaiters /\ pc'[c] = "holding"
        BY <2>1 DEF TryLock, LockAcquire, MutexInv, TypeOK
      <4>2. c \in Owners' /\ \E d \in Coroutines : Owners' = {d}
        BY <4>1 DEF Owners, MutexInv, WordMatchesOwner, LockedNoWaiters
      <4> QED BY <4>1, <4>2 DEF LockedNoWaiters
    <3>2. mState.locked = FALSE
      <4>1. SUFFICES ASSUME mState.locked PROVE FALSE
        BY DEF MutexInv, TypeOK
      <4>2. CASE TryLock(c)
        BY <4>1, <4>2 DEF TryLock, NotLocked
      <4>3. CASE LockAcquire(c)
        <5>1. CASE mState = LockedNoWaiters
          BY <4>1, <4>3, <5>1 DEF LockAcquire, Word
        <5>2. CASE mState # LockedNoWaiters
          <6>1. mState.list # <<>>
            BY <4>1, <5>2 DEF LockedNoWaiters, MutexInv, TypeOK
          <6>2. mState.list[1] \in Coroutines
            BY <6>1 DEF MutexInv, TypeOK
          <6> QED
            BY <4>1, <4>3, <5>2, <6>2, CoroutinesAssumption DEF LockAcquire, Word
        <5> QED BY <5>1, <5>2
      <4> QED BY <2>1, <4>2, <4>3
    <3>3. Owners = {} /\ Queue = <<>>
      BY <3>2 DEF MutexInv, WordMatchesOwner
    <3>4. Queue' = <<>>
      <4>1. mWaiters' = mWaiters
        BY <2>1 DEF TryLock, LockAcquire
      <4>2. /\ Reverse(mState.list) \in Seq(Coroutines)
            /\ mWaiters \in Seq(Coroutines)
        BY ReverseIsSeq DEF MutexInv, TypeOK
      <4>3. mWaiters = <<>>
        BY <3>3, <4>2 DEF Queue
      <4> QED BY <3>1, <4>1, <4>3 DEF Queue, Reverse
    <3>5. Abstract!AAcquire(c)
      BY <3>1, <3>3, <3>4 DEF Abstract!AAcquire
    <3> QED BY <3>5 DEF Abstract!ANext
  <2>2. CASE LockEnqueue(c)
    <3>1. Queue' = Append(Queue, c)
      BY <2>2, QueueOnEnqueue DEF MutexInv
    <3>2. mState'.locked
      BY <2>2 DEF LockEnqueue
    <3>3. \E d \in Coroutines : Owners' = {d}
      BY <3>2 DEF MutexInv, WordMatchesOwner
    <3>4. Owners' = Owners
      BY <2>2, CoroutinesAssumption
      DEF LockEnqueue, Leave, Owners, MutexInv, TypeOK, NestedResume
    <3>5. Owners # {}
      BY <3>3, <3>4
    <3>6. Abstract!AEnqueue(c)
      BY <3>1, <3>4, <3>5 DEF Abstract!AEnqueue
    <3> QED BY <3>6 DEF Abstract!ANext
  <2>3. CASE UnlockHandOff(c) \/ UnlockTake(c)
    <3>1. /\ Queue # <<>> /\ Queue' = Tail(Queue)
          /\ HandOff(c, mWaiters) \/ HandOff(c, Queue)
          /\ UnlockHandOff(c) => Head(mWaiters) = Head(Queue)
          /\ UnlockTake(c) => HandOff(c, Queue)
          /\ UnlockHandOff(c) => HandOff(c, mWaiters)
      BY <2>3, QueueOnHandOff, QueueOnTake DEF MutexInv, UnlockHandOff, UnlockTake
    <3>2. pc' = [pc EXCEPT ![c] = "resuming", ![Head(Queue)] = "holding"]
      BY <2>3, <3>1 DEF HandOff
    <3>3. Head(Queue) \in Coroutines
      BY <3>1, HeadOfQueue
    <3>4. Owners = {c}
      BY <2>3, OwnerStep DEF UnlockHandOff, UnlockTake
    <3>5. Owners' = {Head(Queue)}
      BY <3>2, <3>3, <3>4 DEF Owners, MutexInv, TypeOK
    <3>6. Abstract!AHandOff
      BY <3>1, <3>4, <3>5 DEF Abstract!AHandOff
    <3> QED BY <3>6 DEF Abstract!ANext
  <2>4. CASE UnlockFree(c)
    <3>1. Owners = {c}
      BY <2>4, OwnerStep DEF UnlockFree
    <3>2. Owners' = {} /\ Queue' = <<>>
      BY <2>4 DEF UnlockFree, NotLocked, MutexInv, WordMatchesOwner
    <3>3. Queue = <<>>
      BY <2>4 DEF UnlockFree, LockedNoWaiters, Queue, Reverse
    <3>4. Abstract!ARelease
      BY <3>1, <3>2, <3>3 DEF Abstract!ARelease
    <3> QED BY <3>4 DEF Abstract!ANext
  <2>5. CASE LockLoad(c) \/ LockRetry(c) \/ UnlockContended(c) \/ Finish(c)
    <3>1. UNCHANGED <<mState, mWaiters>>
      BY <2>5 DEF LockLoad, LockRetry, UnlockContended, Finish
    <3>2. Owners' = Owners
      <4>1. CASE LockLoad(c)
        BY <4>1 DEF LockLoad, Owners, MutexInv, TypeOK
      <4>2. CASE LockRetry(c)
        BY <4>2 DEF LockRetry, Owners
      <4>3. CASE UnlockContended(c)
        BY <4>3 DEF UnlockContended, Owners, MutexInv, TypeOK
      <4>4. CASE Finish(c)
        BY <4>4, CoroutinesAssumption
        DEF Finish, Leave, Owners, MutexInv, TypeOK, NestedResume
      <4> QED BY <2>5, <4>1, <4>2, <4>3, <4>4
    <3> QED BY <3>1, <3>2 DEF Queue
  <2> QED
    BY <1>2, <2>1, <2>2, <2>3, <2>4, <2>5 DEF Step
<1> QED
  BY <1>1, <1>2 DEF Next, Terminated

\* async_mutex implements the abstract FIFO mutex: one owner, waiters served
\* in the order in which they queued, no acquisition that overtakes them.
THEOREM MutexRefinement == Spec => FifoMutex
<1>1. Init => Abstract!AInit
  BY DEF Init, Abstract!AInit, Queue, Owners, NotLocked, Reverse
<1> QED
  BY <1>1, MutexHoldsFirst, MutexInvStep, MutexRefinementStep, PTL
  DEF Spec, FifoMutex, Abstract!ASpec

-----------------------------------------------------------------------------
(* AsyncManualResetEvent *)

\* Who is suspended is on a list, who is on a list is suspended, and on that
\* one list only, in one place.
ListInv ==
    /\ Distinct(eState.list)
    /\ \A t \in Callers : Distinct(eResume[t])
    /\ \A c \in Awaiters : In(c, eState.list) =>
          ePc[c] = "suspended" /\ \A t \in Callers : ~In(c, eResume[t])
    /\ \A c \in Awaiters : \A t \in Callers : In(c, eResume[t]) =>
          ePc[c] = "suspended" /\ \A u \in Callers : In(c, eResume[u]) => u = t
    /\ \A c \in Awaiters : ePc[c] = "suspended" =>
          In(c, eState.list) \/ \E t \in Callers : In(c, eResume[t])

\* The inductive invariant.
EventInv == EventTypeOK /\ ListInv

LEMMA EmptyList == \A c : ~In(c, <<>>) /\ Distinct(<<>>)
BY DEF In, Distinct

\* Queueing a waiter that is not on the list.
LEMMA PushFront ==
    ASSUME NEW s \in Seq(Awaiters), NEW c \in Awaiters, Distinct(s), ~In(c, s)
    PROVE  /\ <<c>> \o s \in Seq(Awaiters)
           /\ Distinct(<<c>> \o s)
           /\ \A d \in Awaiters : In(d, <<c>> \o s) <=> d = c \/ In(d, s)
<1>1. <<c>> \in Seq(Awaiters) /\ Distinct(<<c>>) /\ \A d : In(d, <<c>>) <=> d = c
  BY SingleHolds
<1>2. \A d \in Awaiters : ~(In(d, <<c>>) /\ In(d, s))
  BY <1>1
<1>3. /\ <<c>> \o s \in Seq(Awaiters) /\ Distinct(<<c>> \o s)
      /\ \A d : In(d, <<c>> \o s) <=> In(d, <<c>>) \/ In(d, s)
  BY <1>1, <1>2, ConcatHolds
<1> QED BY <1>1, <1>3

\* Taking the first waiter off a list.
LEMMA PopFront ==
    ASSUME NEW s \in Seq(Awaiters), s # <<>>, Distinct(s)
    PROVE  /\ Head(s) \in Awaiters /\ In(Head(s), s)
           /\ Tail(s) \in Seq(Awaiters)
           /\ Distinct(Tail(s))
           /\ \A d \in Awaiters : In(d, Tail(s)) <=> d # Head(s) /\ In(d, s)
BY TailHolds

LEMMA InitEventInv == ASSUME EventInit PROVE EventInv
<1>1. /\ eState \in [set : BOOLEAN, list : Seq(Awaiters)] /\ eState.list = <<>>
      /\ ePc = [c \in Awaiters |-> "running"] /\ eResume = [t \in Callers |-> <<>>]
  BY DEF EventInit, InitEvent, Set_, NotSet
<1> QED BY <1>1, EmptyList DEF EventInv, EventTypeOK, ListInv

-----------------------------------------------------------------------------
(* The steps                                                               *)

LEMMA StepSuspend ==
    ASSUME EventInv, NEW c \in Awaiters, AwaitSuspend(c), ~eState.set PROVE EventInv'
<1>1. /\ eState' = [eState EXCEPT !.list = <<c>> \o @]
      /\ ePc' = [ePc EXCEPT ![c] = "suspended"] /\ eResume' = eResume
      /\ ePc[c] = "suspending"
  BY DEF AwaitSuspend
<1>2. ~In(c, eState.list) /\ \A t \in Callers : ~In(c, eResume[t])
  BY <1>1 DEF EventInv, ListInv
<1>3. eState.list \in Seq(Awaiters) /\ Distinct(eState.list)
  BY DEF EventInv, EventTypeOK, ListInv
<1>4. /\ eState'.list \in Seq(Awaiters) /\ Distinct(eState'.list)
      /\ \A d \in Awaiters : In(d, eState'.list) <=> d = c \/ In(d, eState.list)
  <2>1. eState'.list = <<c>> \o eState.list
    BY <1>1 DEF EventInv, EventTypeOK
  <2> QED BY <1>2, <1>3, <2>1, PushFront
<1>5. EventTypeOK'
  BY <1>1, <1>4 DEF EventInv, EventTypeOK
<1>6. ListInv'
  BY <1>1, <1>2, <1>4 DEF EventInv, EventTypeOK, ListInv
<1> QED BY <1>5, <1>6 DEF EventInv

LEMMA StepSet == ASSUME EventInv, NEW t \in Callers, Set(t) PROVE EventInv'
<1>1. /\ eState' = [set |-> TRUE, list |-> <<>>] /\ ePc' = ePc
      /\ eResume' = [eResume EXCEPT ![t] = eState.list]
      /\ eResume[t] = <<>>
  BY DEF Set, Set_
<1>2. /\ eResume'[t] = eState.list
      /\ \A u \in Callers \ {t} : eResume'[u] = eResume[u]
  BY <1>1 DEF EventInv, EventTypeOK
<1>3. EventTypeOK'
  BY <1>1 DEF EventInv, EventTypeOK
<1>4. ListInv'
  BY <1>1, <1>2, EmptyList DEF EventInv, ListInv
<1> QED BY <1>3, <1>4 DEF EventInv

\* The waiter that is resumed is on no list any more.
LEMMA StepResume == ASSUME EventInv, NEW t \in Callers, ResumeNext(t) PROVE EventInv'
<1> DEFINE s == eResume[t]
           h == Head(s)
<1>1. /\ ePc' = [ePc EXCEPT ![h] = "running"] /\ eState' = eState /\ s # <<>>
      /\ eResume' = [eResume EXCEPT ![t] = Tail(s)]
  BY DEF ResumeNext
<1>2. s \in Seq(Awaiters) /\ Distinct(s)
  BY DEF EventInv, EventTypeOK, ListInv
<1> HIDE DEF s
<1>3. /\ h \in Awaiters /\ In(h, s) /\ Tail(s) \in Seq(Awaiters) /\ Distinct(Tail(s))
      /\ \A d \in Awaiters : In(d, Tail(s)) <=> d # h /\ In(d, s)
  BY <1>1, <1>2, PopFront
<1> HIDE DEF h
<1>4. /\ eResume'[t] = Tail(s)
      /\ \A u \in Callers \ {t} : eResume'[u] = eResume[u]
  BY <1>1 DEF EventInv, EventTypeOK
<1>5. EventTypeOK'
  BY <1>1, <1>3 DEF EventInv, EventTypeOK
<1>6. ~In(h, eState.list) /\ \A u \in Callers \ {t} : ~In(h, eResume[u])
  BY <1>3 DEF EventInv, ListInv, s
<1>7. \A d \in Awaiters : ePc'[d] = IF d = h THEN "running" ELSE ePc[d]
  BY <1>1, <1>3 DEF EventInv, EventTypeOK
<1>8. \A d \in Awaiters : \A u \in Callers :
         In(d, eResume'[u]) <=> In(d, eResume[u]) /\ d # h
  BY <1>3, <1>4, <1>6 DEF s
<1>9. /\ Distinct(eState'.list)
      /\ \A u \in Callers : Distinct(eResume'[u])
  BY <1>1, <1>3, <1>4 DEF EventInv, ListInv
<1>10. \A d \in Awaiters : In(d, eState'.list) =>
          ePc'[d] = "suspended" /\ \A u \in Callers : ~In(d, eResume'[u])
  BY <1>1, <1>6, <1>7, <1>8 DEF EventInv, ListInv
<1>11. \A d \in Awaiters : \A u \in Callers : In(d, eResume'[u]) =>
          ePc'[d] = "suspended" /\ \A v \in Callers : In(d, eResume'[v]) => v = u
  BY <1>7, <1>8 DEF EventInv, ListInv
<1>12. \A d \in Awaiters : ePc'[d] = "suspended" =>
          In(d, eState'.list) \/ \E u \in Callers : In(d, eResume'[u])
  BY <1>1, <1>7, <1>8 DEF EventInv, ListInv
<1> QED BY <1>5, <1>9, <1>10, <1>11, <1>12 DEF EventInv, ListInv

LEMMA StepEventInv == ASSUME EventInv, [EventNext]_eventVars PROVE EventInv'
<1>1. ASSUME NEW c \in Awaiters, AwaitReady(c) PROVE EventInv'
  BY <1>1 DEF AwaitReady, EventInv, EventTypeOK, ListInv
<1>2. ASSUME NEW c \in Awaiters, AwaitSuspend(c) PROVE EventInv'
  <2>1. CASE eState.set
    <3>1. /\ eState' = eState /\ eResume' = eResume
          /\ ePc[c] = "suspending" /\ ePc' = [ePc EXCEPT ![c] = "running"]
      BY <1>2, <2>1 DEF AwaitSuspend
    <3>2. \A d \in Awaiters : ePc'[d] = "suspended" <=> ePc[d] = "suspended"
      BY <3>1 DEF EventInv, EventTypeOK
    <3>3. EventTypeOK'
      BY <3>1 DEF EventInv, EventTypeOK
    <3>4. ListInv'
      BY <3>1, <3>2 DEF EventInv, ListInv
    <3> QED BY <3>3, <3>4 DEF EventInv
  <2> QED BY <1>2, <2>1, StepSuspend
<1>3. ASSUME NEW t \in Callers, Reset(t) PROVE EventInv'
  BY <1>3, EmptyList DEF Reset, NotSet, EventInv, EventTypeOK, ListInv
<1>4. CASE UNCHANGED eventVars
  BY <1>4 DEF eventVars, EventInv, EventTypeOK, ListInv
<1> QED BY <1>1, <1>2, <1>3, <1>4, StepSet, StepResume DEF EventNext

-----------------------------------------------------------------------------
(* SuspendedOnOneList                                                      *)

LEMMA CountOnList ==
    ASSUME NEW s \in Seq(Awaiters), NEW c, Distinct(s)
    PROVE  Occurrences(c, s) = IF In(c, s) THEN 1 ELSE 0
<1> DEFINE where == {i \in 1..Len(s) : s[i] = c}
<1>2. CASE In(c, s)
  <2>1. PICK i \in 1..Len(s) : s[i] = c
    BY <1>2 DEF In
  <2>2. where = {i}
    BY <2>1 DEF Distinct
  <2>3. Cardinality(where) = 1
    BY <2>2, FS_Singleton
  <2> QED BY <1>2, <2>3 DEF Occurrences
<1>3. CASE ~In(c, s)
  <2>1. where = {}
    BY <1>3 DEF In
  <2> QED BY <1>3, <2>1, FS_EmptySet DEF Occurrences
<1> QED BY <1>2, <1>3

LEMMA EventInvOnOneList == ASSUME EventInv PROVE SuspendedOnOneList
<1> SUFFICES ASSUME NEW c \in Awaiters
             PROVE  LET places == {t \in Callers : Occurrences(c, eResume[t]) > 0}
                        inEvent == Occurrences(c, eState.list)
                    IN  IF ePc[c] = "suspended"
                        THEN /\ \A t \in Callers : Occurrences(c, eResume[t]) <= 1
                             /\ inEvent + Cardinality(places) = 1
                        ELSE inEvent = 0 /\ places = {}
  BY DEF SuspendedOnOneList
<1> DEFINE places == {t \in Callers : Occurrences(c, eResume[t]) > 0}
           inEvent == Occurrences(c, eState.list)
<1>1. \A t \in Callers : Occurrences(c, eResume[t]) =
                            IF In(c, eResume[t]) THEN 1 ELSE 0
  BY CountOnList DEF EventInv, EventTypeOK, ListInv
<1>2. inEvent = IF In(c, eState.list) THEN 1 ELSE 0
  BY CountOnList DEF EventInv, EventTypeOK, ListInv
<1>3. places = {t \in Callers : In(c, eResume[t])}
  BY <1>1
<1>4. \A t \in Callers : Occurrences(c, eResume[t]) <= 1
  BY <1>1
<1> HIDE DEF places, inEvent
<1>5. CASE ePc[c] # "suspended"
  BY <1>2, <1>3, <1>5 DEF EventInv, ListInv, places, inEvent
<1>6. CASE ePc[c] = "suspended" /\ In(c, eState.list)
  <2>1. places = {}
    BY <1>3, <1>6 DEF EventInv, ListInv
  <2> QED BY <1>2, <1>4, <1>6, <2>1, FS_EmptySet DEF places, inEvent
<1>7. CASE ePc[c] = "suspended" /\ ~In(c, eState.list)
  <2>1. PICK t \in Callers : In(c, eResume[t])
    BY <1>7 DEF EventInv, ListInv
  <2>2. places = {t}
    BY <1>3, <2>1 DEF EventInv, ListInv
  <2>3. Cardinality(places) = 1
    BY <2>2, FS_Singleton
  <2>4. inEvent + Cardinality(places) = 1
    BY <1>2, <1>7, <2>3
  <2> QED BY <1>4, <1>7, <2>4 DEF places, inEvent
<1> QED BY <1>5, <1>6, <1>7

\* Concurrent calls of set() share the waiters out: each suspended coroutine is
\* on one list, once, until it is resumed.
THEOREM WaiterSafety == EventSpec => []SuspendedOnOneList
BY InitEventInv, StepEventInv, EventInvOnOneList, PTL DEF EventSpec

-----------------------------------------------------------------------------
(* The event implements the gate                                           *)

LEMMA Elements ==
    ASSUME NEW s \in Seq(Awaiters)
    PROVE  /\ ToSet(s) \subseteq Awaiters
           /\ \A c \in Awaiters : c \in ToSet(s) <=> In(c, s)
BY DEF ToSet, In

LEMMA NoElements == ToSet(<<>>) = {}
BY DEF ToSet

\* Queueing is AWait.
LEMMA GateSuspend ==
    ASSUME EventInv, NEW c \in Awaiters, AwaitSuspend(c), ~eState.set
    PROVE  Gate!AWait(c)
<1>1. /\ eState'.list = <<c>> \o eState.list /\ eState'.set = eState.set
      /\ eResume' = eResume /\ ePc[c] = "suspending"
  BY DEF AwaitSuspend, EventInv, EventTypeOK
<1>2. ~In(c, eState.list) /\ \A t \in Callers : ~In(c, eResume[t])
  BY <1>1 DEF EventInv, ListInv
<1>3. /\ eState.list \in Seq(Awaiters) /\ Distinct(eState.list)
      /\ \A t \in Callers : eResume[t] \in Seq(Awaiters)
  BY DEF EventInv, EventTypeOK, ListInv
<1>4. c \notin ToSet(eState.list) \cup Released
  BY <1>2, <1>3, Elements DEF Released
<1>5. ToSet(eState'.list) = ToSet(eState.list) \cup {c}
  <2>1. /\ eState'.list \in Seq(Awaiters)
        /\ \A d \in Awaiters : In(d, eState'.list) <=> d = c \/ In(d, eState.list)
    BY <1>1, <1>2, <1>3, PushFront
  <2> QED BY <1>3, <2>1, Elements
<1>6. Released' = Released
  BY <1>1 DEF Released
<1> QED BY <1>1, <1>4, <1>5, <1>6 DEF Gate!AWait

\* set() is AOpen, also when it finds nobody.
LEMMA GateSet == ASSUME EventInv, NEW t \in Callers, Set(t) PROVE Gate!AOpen
<1>1. /\ eState'.set = TRUE /\ eState'.list = <<>>
      /\ eResume[t] = <<>> /\ eResume'[t] = eState.list
      /\ \A u \in Callers \ {t} : eResume'[u] = eResume[u]
  BY DEF Set, Set_, EventInv, EventTypeOK
<1>2. Released' = Released \cup ToSet(eState.list)
  BY <1>1, NoElements DEF Released
<1> QED BY <1>1, <1>2, NoElements DEF Gate!AOpen

\* Resuming a waiter is APass.
LEMMA GateResume ==
    ASSUME EventInv, NEW t \in Callers, ResumeNext(t)
    PROVE  Gate!APass(Head(eResume[t])) /\ Head(eResume[t]) \in Awaiters
<1> DEFINE s == eResume[t]
           h == Head(s)
<1>1. /\ eState' = eState /\ s # <<>> /\ s \in Seq(Awaiters) /\ Distinct(s)
      /\ eResume'[t] = Tail(s)
      /\ \A u \in Callers \ {t} : eResume'[u] = eResume[u]
      /\ \A u \in Callers : eResume[u] \in Seq(Awaiters)
  BY DEF ResumeNext, EventInv, EventTypeOK, ListInv
<1>2. /\ h \in Awaiters /\ In(h, s) /\ Tail(s) \in Seq(Awaiters)
      /\ \A d \in Awaiters : In(d, Tail(s)) <=> d # h /\ In(d, s)
  BY <1>1, PopFront
<1>3. \A u \in Callers \ {t} : ~In(h, eResume[u])
  BY <1>2 DEF EventInv, ListInv
<1> HIDE DEF h
<1>4. ToSet(eResume'[t]) = ToSet(eResume[t]) \ {h} /\ h \in ToSet(eResume[t])
  BY <1>1, <1>2, Elements
<1>5. \A u \in Callers \ {t} : h \notin ToSet(eResume[u])
  BY <1>1, <1>2, <1>3, Elements
<1>6. h \in Released /\ Released' = Released \ {h}
  <2>1. \A u \in Callers : ToSet(eResume'[u]) = ToSet(eResume[u]) \ {h}
    BY <1>1, <1>4, <1>5
  <2> QED BY <1>4, <2>1 DEF Released
<1> QED BY <1>1, <1>2, <1>6 DEF Gate!APass, h

LEMMA StepEventGate == ASSUME EventInv, [EventNext]_eventVars PROVE [Gate!ANext]_Gate!avars
<1> USE DEF Gate!avars
<1>1. ASSUME NEW c \in Awaiters, AwaitReady(c) PROVE UNCHANGED Gate!avars
  BY <1>1 DEF AwaitReady, Released
<1>2. ASSUME NEW c \in Awaiters, AwaitSuspend(c) PROVE [Gate!ANext]_Gate!avars
  <2>1. CASE eState.set
    BY <1>2, <2>1 DEF AwaitSuspend, Released
  <2>2. CASE ~eState.set
    BY <1>2, <2>2, GateSuspend DEF Gate!ANext
  <2> QED BY <2>1, <2>2
<1>3. ASSUME NEW t \in Callers, Set(t) PROVE Gate!ANext
  BY <1>3, GateSet DEF Gate!ANext
<1>4. ASSUME NEW t \in Callers, ResumeNext(t) PROVE Gate!ANext
  BY <1>4, GateResume DEF Gate!ANext
<1>5. ASSUME NEW t \in Callers, Reset(t) PROVE Gate!AClose
  <2>1. eState.list = <<>>
    BY <1>5 DEF Reset, EventInv, EventTypeOK
  <2> QED BY <1>5, <2>1 DEF Reset, NotSet, Released, Gate!AClose
<1>6. CASE UNCHANGED eventVars
  BY <1>6 DEF eventVars, Released
<1> QED BY <1>1, <1>2, <1>3, <1>4, <1>5, <1>6 DEF EventNext, Gate!ANext

LEMMA InitEventGate == ASSUME EventInit PROVE Gate!AInit
<1>1. /\ eState.set \in BOOLEAN /\ eState.list = <<>>
      /\ \A t \in Callers : eResume[t] = <<>>
  BY DEF EventInit, InitEvent, Set_, NotSet
<1>2. Released = {}
  BY <1>1, NoElements DEF Released
<1> QED BY <1>1, <1>2, NoElements DEF Gate!AInit

\* The event implements the gate: set() releases whoever waits at once, and a
\* reset() afterwards takes nobody back.
THEOREM EventRefinement == EventSpec => ImplementsGate
BY InitEventInv, StepEventInv, InitEventGate, StepEventGate, PTL DEF EventSpec, ImplementsGate, Gate!ASpec

-----------------------------------------------------------------------------
(* AsyncLatch *)

LatchTypeInv ==
    /\ eState \in [set : BOOLEAN, list : Seq(Awaiters)]
    /\ mCount \in Int
    /\ signalling \subseteq Callers

\* A thread is on its way to the event only when the count is used up, so
\* ReadyMeansCounted still holds after its set().
CountInv ==
    /\ signalling # {} => mCount <= 0
    /\ ReadyMeansCounted

LatchInv == LatchTypeInv /\ CountInv

LEMMA InitLatchInv == ASSUME LatchConstants, LatchInit PROVE LatchInv
BY DEF LatchConstants, LatchInit, InitEvent, Set_, NotSet, LatchInv, LatchTypeInv,
       CountInv, ReadyMeansCounted

\* What the latch leaves alone.
LEMMA EventStepKeeps ==
    ASSUME LatchInv, UNCHANGED <<mCount, signalling>>,
           eState' \in [set : BOOLEAN, list : Seq(Awaiters)], eState'.set = eState.set
    PROVE  LatchInv'
BY DEF LatchInv, LatchTypeInv, CountInv, ReadyMeansCounted

LEMMA StepLatchInv == ASSUME LatchConstants, LatchInv, [LatchNext]_latchVars PROVE LatchInv'
<1>1. ASSUME NEW t \in Callers, NEW n \in Amounts, CountDown(t, n) PROVE LatchInv'
  <2>1. n \in Nat /\ n > 0 /\ mCount' = mCount - n /\ eState' = eState
    BY <1>1 DEF LatchConstants, CountDown, eventVars
  <2>2. CASE mCount <= n
    <3>1. mCount' <= 0 /\ signalling' = signalling \cup {t}
      BY <1>1, <2>1, <2>2 DEF CountDown, LatchInv, LatchTypeInv
    <3> QED BY <2>1, <3>1 DEF LatchInv, LatchTypeInv, CountInv, ReadyMeansCounted
  <2>3. CASE mCount > n
    <3>1. mCount' > 0 /\ mCount > 0 /\ signalling' = signalling
      BY <1>1, <2>1, <2>3 DEF CountDown, LatchInv, LatchTypeInv
    <3> QED BY <2>1, <3>1 DEF LatchInv, LatchTypeInv, CountInv, ReadyMeansCounted
  <2> QED BY <2>1, <2>2, <2>3 DEF LatchInv, LatchTypeInv
<1>2. ASSUME NEW t \in Callers, SignalEvent(t) PROVE LatchInv'
  <2>1. mCount <= 0 /\ mCount' = mCount
    BY <1>2 DEF SignalEvent, LatchInv, CountInv
  <2>2. eState' = [set |-> TRUE, list |-> <<>>] /\ signalling' = signalling \ {t}
    BY <1>2 DEF SignalEvent, Set, Set_
  <2> QED BY <2>1, <2>2 DEF LatchInv, LatchTypeInv, CountInv, ReadyMeansCounted
<1>3. ASSUME NEW t \in Callers, EventStep(ResumeNext(t)) PROVE LatchInv'
  BY <1>3, EventStepKeeps DEF EventStep, ResumeNext, LatchInv, LatchTypeInv
<1>4. ASSUME NEW c \in Awaiters, EventStep(AwaitReady(c)) PROVE LatchInv'
  BY <1>4, EventStepKeeps DEF EventStep, AwaitReady, LatchInv, LatchTypeInv
<1>5. ASSUME NEW c \in Awaiters, EventStep(AwaitSuspend(c)) PROVE LatchInv'
  <2>1. UNCHANGED <<mCount, signalling>>
    BY <1>5 DEF EventStep
  <2>2. CASE eState.set
    BY <1>5, <2>1, <2>2, EventStepKeeps DEF EventStep, AwaitSuspend, LatchInv, LatchTypeInv
  <2>3. CASE ~eState.set
    <3>1. eState' = [eState EXCEPT !.list = <<c>> \o @]
      BY <1>5, <2>3 DEF EventStep, AwaitSuspend
    <3>2. <<c>> \o eState.list \in Seq(Awaiters)
      BY DEF LatchInv, LatchTypeInv
    <3> QED BY <2>1, <3>1, <3>2, EventStepKeeps DEF LatchInv, LatchTypeInv
  <2> QED BY <2>2, <2>3
<1>6. CASE UNCHANGED latchVars
  BY <1>6 DEF latchVars, eventVars, LatchInv, LatchTypeInv, CountInv, ReadyMeansCounted
<1> QED BY <1>1, <1>2, <1>3, <1>4, <1>5, <1>6 DEF LatchNext

\* is_ready() of the latch: true only when the count is used up, and true then
\* unless the call that used it up is still under way.
THEOREM CountSafety == ASSUME LatchConstants PROVE LatchSpec => []ReadyMeansCounted
<1>1. LatchInv => ReadyMeansCounted
  BY DEF LatchInv, CountInv
<1> QED BY InitLatchInv, StepLatchInv, <1>1, PTL DEF LatchSpec

\* What the latch does to its event is what any program may do to one.
LEMMA LatchStartsEvent == ASSUME LatchConstants, LatchInit PROVE EventInit
<1>1. (mCount <= 0) \in BOOLEAN /\ InitEvent(mCount <= 0)
  BY DEF LatchConstants, LatchInit
<1> QED BY <1>1 DEF EventInit

LEMMA LatchStepsEvent ==
    ASSUME [LatchNext]_latchVars
    PROVE  [EventNext]_eventVars /\ (eState.set => eState'.set \/ UNCHANGED eState)
<1>1. ASSUME NEW t \in Callers, NEW n \in Amounts, CountDown(t, n)
      PROVE  UNCHANGED eventVars
  BY <1>1 DEF CountDown
<1>2. ASSUME NEW t \in Callers, SignalEvent(t) PROVE EventNext /\ eState'.set
  BY <1>2 DEF SignalEvent, EventNext, Set, Set_
<1>3. ASSUME NEW t \in Callers, EventStep(ResumeNext(t))
      PROVE  EventNext /\ UNCHANGED eState
  BY <1>3 DEF EventStep, EventNext, ResumeNext
<1>4. ASSUME NEW c \in Awaiters, EventStep(AwaitReady(c)) \/ EventStep(AwaitSuspend(c))
      PROVE  EventNext /\ (eState.set => UNCHANGED eState)
  BY <1>4 DEF EventStep, EventNext, AwaitReady, AwaitSuspend
<1>5. CASE UNCHANGED latchVars
  BY <1>5 DEF latchVars, eventVars
<1> QED BY <1>1, <1>2, <1>3, <1>4, <1>5 DEF LatchNext, eventVars

\* The latch is a gate that opens once and for all: the count_down() that uses
\* the count up releases whoever waits, each of them once, nobody starts to wait
\* after that, and no later call takes it back.
THEOREM LatchRefinement ==
    ASSUME LatchConstants
    PROVE  LatchSpec =>
              /\ ImplementsGate
              /\ []SuspendedOnOneList
              /\ [][eState.set => eState'.set]_latchVars
<1>1. [LatchNext]_latchVars => [eState.set => eState'.set]_latchVars
  BY LatchStepsEvent
<1> QED BY LatchStartsEvent, LatchStepsEvent, InitEventInv, StepEventInv, InitEventGate,
           StepEventGate, EventInvOnOneList, <1>1, PTL
        DEF LatchSpec, ImplementsGate, Gate!ASpec

-----------------------------------------------------------------------------
(* SingleConsumerEvent *)

\* The inductive invariant: instead of counting the places where the handle
\* is, it says which they can be.
SingleInv ==
    /\ word \in {"not set", "set", Consumer}
    /\ consumer \in {"running", "suspending", "suspended"}
    /\ consumer # "suspended" => word # Consumer /\ resuming = {}
    /\ consumer = "suspended" =>
          \/ word = Consumer /\ resuming = {}
          \/ word # Consumer /\ \E t \in Setters : resuming = {t}

\* The handle of a coroutine is neither of the two values of its own.
HandleIsApart == Consumer \notin {"not set", "set"}

LEMMA InitSingleInv == ASSUME HandleIsApart, SingleInit PROVE SingleInv
BY DEF HandleIsApart, SingleInit, SingleInv

LEMMA StepSingleInv == ASSUME HandleIsApart, SingleInv, [SingleNext]_singleVars PROVE SingleInv'
<1> USE DEF SingleInv, HandleIsApart
<1>1. CASE SingleAwaitReady
  BY <1>1 DEF SingleAwaitReady
<1>2. CASE SingleAwaitSuspend
  BY <1>2 DEF SingleAwaitSuspend
<1>3. ASSUME NEW t \in Setters, SingleSet(t) PROVE SingleInv'
  <2>1. CASE word = Consumer
    BY <1>3, <2>1 DEF SingleSet
  <2>2. CASE word # Consumer
    BY <1>3, <2>2 DEF SingleSet
  <2> QED BY <2>1, <2>2
<1>4. ASSUME NEW t \in Setters, SingleResume(t) PROVE SingleInv'
  BY <1>4 DEF SingleResume
<1>5. ASSUME NEW t \in Setters, SingleReset(t) PROVE SingleInv'
  BY <1>5 DEF SingleReset
<1>6. CASE UNCHANGED singleVars
  BY <1>6 DEF singleVars
<1> QED BY <1>1, <1>2, <1>3, <1>4, <1>5, <1>6 DEF SingleNext

LEMMA HandleCounted == ASSUME SingleInv PROVE HandleIsInOnePlace
<1>1. CASE resuming = {}
  <2>1. Cardinality(resuming) = 0
    BY <1>1, FS_EmptySet
  <2>2. word = Consumer <=> consumer = "suspended"
    BY <1>1 DEF SingleInv
  <2> QED BY <2>1, <2>2 DEF HandleIsInOnePlace
<1>2. CASE consumer = "suspended" /\ word # Consumer
  <2>1. PICK t \in Setters : resuming = {t}
    BY <1>2 DEF SingleInv
  <2>2. Cardinality(resuming) = 1
    BY <2>1, FS_Singleton
  <2> QED BY <1>2, <2>2 DEF HandleIsInOnePlace
<1> QED BY <1>1, <1>2 DEF SingleInv

\* However many threads set and reset the event, and in whatever order, the
\* handle of a suspended consumer is in the word or with one call of set(),
\* so that it is resumed, and once.
THEOREM HandleSafety == ASSUME HandleIsApart PROVE SingleSpec => []HandleIsInOnePlace
BY InitSingleInv, StepSingleInv, HandleCounted, PTL DEF SingleSpec

\* A step of the event is a step of the gate or changes nothing in it.
LEMMA StepSingleGate ==
    ASSUME HandleIsApart, SingleInv, [SingleNext]_singleVars
    PROVE  [SingleGate!ANext]_(SingleGate!avars)
<1> USE DEF SingleInv, HandleIsApart, SingleGate!ANext, SingleGate!avars
<1>1. CASE SingleAwaitReady
  BY <1>1 DEF SingleAwaitReady
<1>2. CASE SingleAwaitSuspend
  <2>1. CASE word = "not set"
    <3>1. SingleGate!AWait(Consumer)
      BY <1>2, <2>1 DEF SingleAwaitSuspend, SingleGate!AWait
    <3> QED BY <3>1
  <2>2. CASE word # "not set"
    BY <1>2, <2>2 DEF SingleAwaitSuspend
  <2> QED BY <2>1, <2>2
<1>3. ASSUME NEW t \in Setters, SingleSet(t) PROVE SingleGate!ANext
  <2>1. SingleGate!AOpen
    <3>1. CASE word = Consumer
      BY <1>3, <3>1 DEF SingleSet, SingleGate!AOpen
    <3>2. CASE word # Consumer
      BY <1>3, <3>2 DEF SingleSet, SingleGate!AOpen
    <3> QED BY <3>1, <3>2
  <2> QED BY <2>1
<1>4. ASSUME NEW t \in Setters, SingleResume(t) PROVE SingleGate!ANext
  <2>1. resuming = {t} /\ resuming' = {} /\ word' = word
    BY <1>4 DEF SingleResume
  <2>2. SingleGate!APass(Consumer)
    BY <2>1 DEF SingleGate!APass
  <2> QED BY <2>2
<1>5. ASSUME NEW t \in Setters, SingleReset(t) PROVE SingleGate!ANext
  <2>1. SingleGate!AClose
    BY <1>5 DEF SingleReset, SingleGate!AClose
  <2> QED BY <2>1
<1>6. CASE UNCHANGED singleVars
  BY <1>6 DEF singleVars
<1> QED BY <1>1, <1>2, <1>3, <1>4, <1>5, <1>6 DEF SingleNext

LEMMA InitSingleGate == ASSUME HandleIsApart, SingleInit PROVE SingleGate!AInit
BY DEF HandleIsApart, SingleInit, SingleGate!AInit

\* The event for one consumer implements the gate: once set() has been called
\* the consumer is let through, even if the event is reset before it runs.
THEOREM SingleRefinement == ASSUME HandleIsApart PROVE SingleSpec => SingleImplementsGate
BY InitSingleInv, StepSingleInv, InitSingleGate, StepSingleGate, PTL
   DEF SingleSpec, SingleImplementsGate, SingleGate!ASpec

-----------------------------------------------------------------------------
(* SingleConsumerAutoResetEvent *)

\* While no two calls of set() have held the address at a time, at most one is past
\* its load, the coroutine is suspended until that call resumes it, and the word is
\* cleared once the call has exchanged it.
OneCallInv ==
    /\ aWaiter # "undefined"
    /\ aState = "waiter" => aWaiter = "suspended"
    /\ \A t \in AutoSetters :
          /\ aSetter[t] # "idle" => aWaiter = "suspended"
          /\ aSetter[t] = "resuming" => aState # "waiter"
    /\ \A t, u \in AutoSetters : aSetter[t] # "idle" /\ aSetter[u] # "idle" => t = u

AutoInv ==
    /\ aSetter \in [AutoSetters -> {"idle", "loaded", "read", "resuming"}]
    /\ aState \in {"null", "set", "waiter"}
    /\ aWaiter = "suspended" =>
          aState = "waiter" \/ \E t \in AutoSetters : aSetter[t] # "idle"
    /\ ~sharedAddress => OneCallInv

LEMMA StepAutoInv == ASSUME AutoInv, [AutoNext]_autoVars PROVE AutoInv'
<1> USE DEF AutoInv, OneCallInv
<1>1. CASE AwaitStore
  BY <1>1 DEF AwaitStore
<1>2. CASE AwaitFails
  BY <1>2 DEF AwaitFails
<1>3. CASE AwaitUsesUp
  BY <1>3 DEF AwaitUsesUp
<1>4. ASSUME NEW t \in AutoSetters, SetLoad(t) PROVE AutoInv'
  <2>1. ~sharedAddress' => \A u \in AutoSetters : aSetter[u] = "idle"
    BY <1>4 DEF SetLoad, HoldsAddress
  <2> QED BY <1>4, <2>1 DEF SetLoad
<1>5. ASSUME NEW t \in AutoSetters, SetReadHandle(t) PROVE AutoInv'
  BY <1>5 DEF SetReadHandle
<1>6. ASSUME NEW t \in AutoSetters, SetExchange(t) PROVE AutoInv'
  BY <1>6 DEF SetExchange
<1>7. ASSUME NEW t \in AutoSetters, SetResume(t) PROVE AutoInv'
  BY <1>7 DEF SetResume
<1>8. CASE UNCHANGED autoVars
  BY <1>8 DEF autoVars
<1> QED BY <1>1, <1>2, <1>3, <1>4, <1>5, <1>6, <1>7, <1>8 DEF AutoNext

\* Any number of threads may set the auto-reset event: its consumer is never lost,
\* and is resumed once for each time it is suspended unless one call of set()
\* loads its address before another that has loaded it clears the word.
THEOREM AutoHandleSafety == AutoSpec => []SuspendedOnceResumedOnce
<1>1. AutoInit => AutoInv
  BY DEF AutoInit, AutoInv, OneCallInv
<1>2. AutoInv => SuspendedOnceResumedOnce
  BY DEF AutoInv, OneCallInv, SuspendedOnceResumedOnce
<1> QED BY <1>1, <1>2, StepAutoInv, PTL DEF AutoSpec

-----------------------------------------------------------------------------
(* SequenceBarrier *)

\* Where the threads are, and when they have lists in their hands.
BarrierHands ==
    /\ bPc[Producer] \in {"running", "store", "takeAll", "putBack", "resume"}
    /\ \A a \in BarrierAwaiters :
          bPc[a] \in {"running", "enqueue", "check", "take", "resume", "suspended"}
    /\ \A p \in Threads : requeue[p] # <<>> => bPc[p] \in {"enqueue", "putBack"}
    /\ \A p \in Threads :
          toResume[p] # <<>> => bPc[p] \in {"enqueue", "check", "take", "putBack", "resume"}

PutsBack(p, c) == In(c, requeue[p])
WillResume(p, c) == In(c, toResume[p])

\* No list holds an awaiter twice, no two lists hold the same one.
BarrierDistinct ==
    /\ Distinct(bAwaiters)
    /\ \A p \in Threads : Distinct(requeue[p]) /\ Distinct(toResume[p])

BarrierExclusive ==
    \A c \in BarrierAwaiters : \A p \in Threads :
        /\ PutsBack(p, c) =>
              /\ ~In(c, bAwaiters)
              /\ \A q \in Threads : ~WillResume(q, c)
              /\ \A q \in Threads \ {p} : ~PutsBack(q, c)
        /\ WillResume(p, c) =>
              /\ ~In(c, bAwaiters)
              /\ \A q \in Threads \ {p} : ~WillResume(q, c)

Listed(c) ==
    In(c, bAwaiters) \/ \E p \in Threads : PutsBack(p, c) \/ WillResume(p, c)

\* An awaiter is in a list until one side of the handshake has come: those that
\* sleep, and those on their way there whom nobody has resumed.
Waiting(c) ==
    \/ bPc[c] = "suspended"
    \/ bPc[c] \in {"enqueue", "check", "take", "resume"} /\ ~ready[c]

BarrierHeld ==
    \A c \in BarrierAwaiters :
        /\ Listed(c) <=> Waiting(c)
        /\ bPc[c] = "suspended" => ready[c]

BarrierLists == BarrierDistinct /\ BarrierExclusive /\ BarrierHeld

\* How many numbers have been published up to s: unlike the numbers, this does
\* not wrap.
Upto(s) == (s + 1) % W
Top == MaxPublished + Ahead

NumberInv ==
    /\ published \in 0..MaxPublished
    /\ Upto(known[Producer]) = published
    /\ Upto(lastPublished) <= published
    /\ bPc[Producer] # "store" => lastPublished = known[Producer]
    /\ \A a \in BarrierAwaiters :
          /\ Upto(target[a]) <= Top /\ Upto(known[a]) <= Top
          /\ bPc[a] \in {"enqueue", "check"} => Upto(until[a]) <= Top

\* An awaiter that puts others back looks after the earliest of them; the
\* producer puts back only those whose number is to come.
PutBackInv ==
    \A c \in BarrierAwaiters :
        /\ \A p \in BarrierAwaiters : PutsBack(p, c) => Upto(until[p]) <= Upto(target[c])
        /\ PutsBack(Producer, c) => Upto(lastPublished) < Upto(target[c])

\* Awaiters that are about to take the list.
Takers == {p \in BarrierAwaiters :
              \/ bPc[p] = "take"
              \/ bPc[p] = "check" /\ Upto(until[p]) <= Upto(lastPublished)}

\* An awaiter in the list whose number has come is found by the producer or by
\* another awaiter, but for one that came between publish()'s look and its store.
FoundInv ==
    ~unseen /\ bPc[Producer] \notin {"store", "takeAll"} =>
        \A c \in BarrierAwaiters :
            In(c, bAwaiters) /\ Upto(target[c]) <= Upto(lastPublished) => Takers # {}

BarrierInv == BarrierTypeOK /\ BarrierHands /\ BarrierLists
LookInv == NumberInv /\ PutBackInv /\ FoundInv

-----------------------------------------------------------------------------

\* A list is divided into those who wait and those who are ready.
LEMMA Divided ==
    ASSUME NEW s \in Seq(BarrierAwaiters), Distinct(s), NEW n
    PROVE  /\ StillWaits(s, n) \in Seq(BarrierAwaiters) /\ Distinct(StillWaits(s, n))
           /\ IsReady(s, n) \in Seq(BarrierAwaiters) /\ Distinct(IsReady(s, n))
           /\ \A c \in BarrierAwaiters :
                 /\ In(c, StillWaits(s, n)) <=> In(c, s) /\ Difference(target[c], n) > 0
                 /\ In(c, IsReady(s, n)) <=> In(c, s) /\ Difference(target[c], n) <= 0
BY EntriesHold DEF StillWaits, IsReady

\* Differences of numbers that have not moved apart by more than half of the
\* range are differences of counts.
LEMMA DifferenceRange ==
    ASSUME NEW a \in Sequence, NEW b \in Sequence
    PROVE  Difference(a, b) \in -(W \div 2)..(W \div 2 - 1)
<1>1. PICK d : d = (a - b) % W
  OBVIOUS
<1>2. d \in 0..W - 1
  BY <1>1, BarrierAssumption DEF Sequence
<1>3. Difference(a, b) = IF d >= W \div 2 THEN d - W ELSE d
  BY <1>1 DEF Difference
<1> QED BY <1>2, <1>3, BarrierAssumption

LEMMA UptoValue ==
    ASSUME NEW a \in Sequence
    PROVE  Upto(a) \in 0..W - 1 /\ Upto(a) = IF a = W - 1 THEN 0 ELSE a + 1
<1>1. a \in 0..W - 1 /\ W \in Nat \ {0}
  BY BarrierAssumption DEF Sequence
<1>2. PICK x \in Int : x = a + 1
  BY <1>1
<1>3. Upto(a) = x % W
  BY <1>2 DEF Upto
<1>4. /\ x \in 0..W - 1 => x % W = x
      /\ x \in W..2 * W - 1 => x % W = x - W
  BY <1>1, ModNear
<1> QED BY <1>1, <1>2, <1>3, <1>4

LEMMA DifferenceOfCounts ==
    ASSUME NEW a \in Sequence, NEW b \in Sequence, Upto(a) <= Top, Upto(b) <= Top
    PROVE  Difference(a, b) = Upto(a) - Upto(b)
<1> DEFINE h == W \div 2
<1>1. h \in Nat /\ W = 2 * h /\ Top < h /\ Top \in Nat /\ h > 0
  BY BarrierAssumption DEF Top
<1>2. /\ Upto(a) \in Nat /\ Upto(a) = IF a = W - 1 THEN 0 ELSE a + 1
      /\ Upto(b) \in Nat /\ Upto(b) = IF b = W - 1 THEN 0 ELSE b + 1
      /\ a \in 0..W - 1 /\ b \in 0..W - 1
  BY <1>1, UptoValue DEF Sequence
<1>3. PICK d : d = (a - b) % W
  OBVIOUS
<1>4. /\ a - b \in 0..W - 1 => d = a - b
      /\ a - b \in (-W)..(-1) => d = a - b + W
  <2>1. PICK x \in Int : x = a - b
    BY <1>2
  <2>2. W \in Nat \ {0} /\ d = x % W
    BY <1>1, <1>3, <2>1
  <2>3. /\ x \in 0..W - 1 => d = x
        /\ x \in (-W)..(-1) => d = x + W
    BY <2>2, ModNear
  <2> QED BY <2>1, <2>3
<1>5. Difference(a, b) = IF d >= h THEN d - W ELSE d
  BY <1>3 DEF Difference
<1> HIDE DEF h
<1>6. CASE a - b \in 0..W - 1
  BY <1>1, <1>2, <1>4, <1>5, <1>6
<1>7. CASE a - b \in (-W)..(-1)
  BY <1>1, <1>2, <1>4, <1>5, <1>7
<1> QED BY <1>1, <1>2, <1>6, <1>7

LEMMA UptoPlus ==
    ASSUME NEW a \in Sequence, NEW n \in Nat, Upto(a) + n <= Top
    PROVE  (a + n) % W \in Sequence /\ Upto((a + n) % W) = Upto(a) + n
<1>1. /\ W \in Nat \ {0} /\ Top < W /\ Top \in Nat /\ a \in 0..W - 1
  BY BarrierAssumption DEF Top, Sequence
<1>2. Upto(a) \in 0..W - 1 /\ Upto(a) = IF a = W - 1 THEN 0 ELSE a + 1
  BY UptoValue
<1>3. (a + n) % W \in Sequence
  BY <1>1 DEF Sequence
<1>4. PICK x \in Int : x = a + n /\ x % W \in Sequence
  BY <1>1, <1>3
<1>5. /\ x \in 0..W - 1 => x % W = x
      /\ x \in W..2 * W - 1 => x % W = x - W
  BY <1>1, <1>4, ModNear
<1>6. PICK y \in Sequence : y = x % W
  BY <1>4
<1>7. Upto(y) = IF y = W - 1 THEN 0 ELSE y + 1
  BY <1>6, UptoValue
<1>8. Upto(y) = Upto(a) + n
  <2>1. CASE a = W - 1 /\ n = 0
    BY <1>1, <1>2, <1>4, <1>5, <1>6, <1>7, <2>1
  <2>2. CASE a = W - 1 /\ n # 0
    <3>1. x \in W..2 * W - 1 /\ n < W
      BY <1>1, <1>2, <1>4, <2>2
    <3>2. y = n - 1
      BY <1>1, <1>4, <1>5, <1>6, <2>2, <3>1
    <3> QED BY <1>1, <1>2, <1>7, <2>2, <3>1, <3>2
  <2>3. CASE a # W - 1
    <3>1. x \in 0..W - 1 /\ x # W - 1
      BY <1>1, <1>2, <1>4, <2>3
    <3> QED BY <1>1, <1>2, <1>4, <1>5, <1>6, <1>7, <2>3, <3>1
  <2> QED BY <2>1, <2>2, <2>3
<1> QED BY <1>4, <1>6, <1>8

\* The least difference is the difference of an entry, and is found.
LEMMA MinDiffIsLeast ==
    ASSUME NEW s \in Seq(BarrierAwaiters), NEW n \in Sequence,
           target \in [BarrierAwaiters -> Sequence]
    PROVE  /\ MinDiff(s, n) \in Int
           /\ \A c \in BarrierAwaiters : In(c, s) => MinDiff(s, n) <= Difference(target[c], n)
           /\ \/ \E c \in BarrierAwaiters : In(c, s) /\ MinDiff(s, n) = Difference(target[c], n)
              \/ MinDiff(s, n) = W \div 2 - 1
<1> DEFINE h == W \div 2
           diffs == {Difference(target[s[i]], n) : i \in DOMAIN s} \cup {h - 1}
           up == {d + h : d \in diffs}
<1>1. h \in Nat /\ h > 0
  BY BarrierAssumption
<1>2. \A i \in DOMAIN s : s[i] \in BarrierAwaiters /\ i \in 1..Len(s)
  OBVIOUS
<1>3. \A d \in diffs : d \in Int /\ d >= -h
  <2>1. \A i \in DOMAIN s : Difference(target[s[i]], n) \in -h..(h - 1)
    <3> HIDE DEF h
    <3> QED BY <1>2, DifferenceRange DEF h
  <2> QED BY <1>1, <2>1
<1>4. MinDiff(s, n) = CHOOSE d \in diffs : \A e \in diffs : d <= e
  BY DEF MinDiff
<1>5. h - 1 \in diffs
  OBVIOUS
<1> HIDE DEF diffs, h
<1>6. up \subseteq Nat /\ up # {}
  BY <1>1, <1>3, <1>5
<1>7. PICK x \in up : \A y \in up : x <= y
  BY <1>6, LeastNatural
<1>8. \E d \in diffs : \A e \in diffs : d <= e
  <2>1. PICK d \in diffs : x = d + h
    BY <1>7
  <2>2. \A e \in diffs : e + h \in up
    OBVIOUS
  <2>3. \A e \in diffs : d + h <= e + h
    BY <1>7, <2>1, <2>2
  <2> QED BY <1>1, <1>3, <2>1, <2>3
<1>9. MinDiff(s, n) \in diffs /\ \A e \in diffs : MinDiff(s, n) <= e
  BY <1>4, <1>8
<1>10. MinDiff(s, n) \in Int
  BY <1>3, <1>9
<1>11. \A c : In(c, s) => Difference(target[c], n) \in diffs
  BY DEF In, diffs
<1>12. \/ \E i \in DOMAIN s : MinDiff(s, n) = Difference(target[s[i]], n)
       \/ MinDiff(s, n) = W \div 2 - 1
  BY <1>9 DEF diffs, h
<1> QED BY <1>2, <1>9, <1>10, <1>11, <1>12 DEF In

LEMMA BarrierTypesStep ==
    ASSUME BarrierTypeOK, [BarrierNext]_barrierVars
    PROVE  BarrierTypeOK'
<1> USE BarrierAssumption DEF BarrierTypeOK, Goto, With, counts, Threads
<1>1. ASSUME NEW a \in BarrierAwaiters, NEW n \in 0..Ahead,
            WaitUntilPublished(a, (lastPublished + n) % W)
      PROVE  BarrierTypeOK'
  <2>1. (lastPublished + n) % W \in Sequence /\ <<a>> \in Seq(BarrierAwaiters)
    BY <1>1, BarrierAssumption, SingleHolds DEF Sequence
  <2>2. /\ target' = [target EXCEPT ![a] = (lastPublished + n) % W]
        /\ lastKnown' = [lastKnown EXCEPT ![a] = lastPublished]
        /\ ready' = [ready EXCEPT ![a] = FALSE]
        /\ \/ /\ requeue' = [requeue EXCEPT ![a] = <<a>>]
              /\ until' = [until EXCEPT ![a] = (lastPublished + n) % W]
              /\ bPc' = [bPc EXCEPT ![a] = "enqueue"]
           \/ UNCHANGED <<requeue, until, bPc>>
        /\ UNCHANGED <<lastPublished, bAwaiters, toResume, known>>
    BY <1>1 DEF WaitUntilPublished
  <2>3. ready' \in [BarrierAwaiters -> BOOLEAN]
    BY <2>2, Zenon
  <2>4. CASE /\ requeue' = [requeue EXCEPT ![a] = <<a>>]
             /\ until' = [until EXCEPT ![a] = (lastPublished + n) % W]
             /\ bPc' = [bPc EXCEPT ![a] = "enqueue"]
    BY <2>1, <2>2, <2>3, <2>4
  <2>5. CASE UNCHANGED <<requeue, until, bPc>>
    BY <2>1, <2>2, <2>3, <2>5
  <2> QED BY <2>2, <2>4, <2>5
<1>2. ASSUME NEW a \in BarrierAwaiters, Enqueue(a) PROVE BarrierTypeOK'
  <2>1. requeue[a] \o bAwaiters \in Seq(BarrierAwaiters)
    BY <1>2, JoinTypes
  <2> QED BY <1>2, <2>1 DEF Enqueue
<1>3. ASSUME NEW a \in BarrierAwaiters, Check(a) PROVE BarrierTypeOK'
  BY <1>3 DEF Check
<1>4. ASSUME NEW a \in BarrierAwaiters, Take(a) PROVE BarrierTypeOK'
  <2>1. /\ StillWaits(bAwaiters, known[a]) \in Seq(BarrierAwaiters)
        /\ IsReady(bAwaiters, known[a]) \in Seq(BarrierAwaiters)
    BY EntriesHold DEF StillWaits, IsReady
  <2>2. toResume[a] \o IsReady(bAwaiters, known[a]) \in Seq(BarrierAwaiters)
    BY <1>4, <2>1, JoinTypes
  <2>3. (known[a] + MinDiff(StillWaits(bAwaiters, known[a]), known[a])) % W \in Sequence
    <3>1. MinDiff(StillWaits(bAwaiters, known[a]), known[a]) \in Int
      BY <1>4, <2>1, MinDiffIsLeast
    <3>2. \A x \in Int : x % W \in Sequence
      BY BarrierAssumption DEF Sequence
    <3>3. known[a] \in Int
      BY <1>4, BarrierAssumption DEF Sequence
    <3> QED BY <3>1, <3>2, <3>3
  <2> QED BY <1>4, <2>1, <2>2, <2>3 DEF Take
<1>5. ASSUME NEW a \in BarrierAwaiters, Suspend(a) PROVE BarrierTypeOK'
  BY <1>5 DEF Suspend
<1>6. ASSUME NEW p \in Threads, Resume(p) PROVE BarrierTypeOK'
  <2>1. Head(toResume[p]) \in BarrierAwaiters /\ Tail(toResume[p]) \in Seq(BarrierAwaiters)
    BY <1>6, TailTypes DEF Resume
  <2> QED BY <1>6, <2>1 DEF Resume
<1>7. ASSUME NEW n \in 1..2, Publish(n) PROVE BarrierTypeOK'
  <2>1. (lastPublished + n) % W \in Sequence
    BY <1>7, BarrierAssumption DEF Sequence
  <2> QED BY <1>7, <2>1 DEF Publish
<1>8. ASSUME Store PROVE BarrierTypeOK'
  BY <1>8 DEF Store
<1>9. ASSUME TakeAll PROVE BarrierTypeOK'
  <2>1. /\ StillWaits(bAwaiters, known[Producer]) \in Seq(BarrierAwaiters)
        /\ IsReady(bAwaiters, known[Producer]) \in Seq(BarrierAwaiters)
    BY EntriesHold DEF StillWaits, IsReady
  <2> QED BY <1>9, <2>1 DEF TakeAll
<1>10. ASSUME PutBack PROVE BarrierTypeOK'
  <2>1. requeue[Producer] \o bAwaiters \in Seq(BarrierAwaiters)
    BY <1>10, JoinTypes
  <2> QED BY <1>10, <2>1 DEF PutBack
<1>11. ASSUME PublishReturn PROVE BarrierTypeOK'
  BY <1>11 DEF PublishReturn
<1>12. CASE UNCHANGED barrierVars
  BY <1>12 DEF barrierVars, counts
<1> QED
  BY <1>1, <1>2, <1>3, <1>4, <1>5, <1>6, <1>7, <1>8, <1>9, <1>10, <1>11, <1>12
     DEF BarrierNext, Awaiter, Publisher, Threads

LEMMA NoneDivided ==
    ASSUME NEW n PROVE StillWaits(<<>>, n) = <<>> /\ IsReady(<<>>, n) = <<>>
<1>1. <<>> \in Seq(BarrierAwaiters) /\ \A c : ~In(c, <<>>)
  BY EmptyHolds
<1>2. ASSUME NEW keep PROVE Entries(<<>>, keep) = <<>>
  <2>1. /\ Entries(<<>>, keep) \in Seq(BarrierAwaiters)
        /\ \A c \in BarrierAwaiters : ~In(c, Entries(<<>>, keep))
    BY <1>1, EntriesHold
  <2> QED BY <2>1, NothingIn
<1> QED BY <1>2 DEF StillWaits, IsReady

LEMMA BarrierHandsStep ==
    ASSUME BarrierTypeOK, BarrierHands, BarrierLists, [BarrierNext]_barrierVars
    PROVE  BarrierHands'
<1> USE BarrierAssumption DEF BarrierHands, BarrierTypeOK, Goto, With, counts, Threads
<1>1. ASSUME NEW a \in BarrierAwaiters, NEW n \in 0..Ahead,
            WaitUntilPublished(a, (lastPublished + n) % W)
      PROVE  BarrierHands'
  BY <1>1 DEF WaitUntilPublished
<1>2. ASSUME NEW a \in BarrierAwaiters, Enqueue(a) PROVE BarrierHands'
  BY <1>2 DEF Enqueue
<1>3. ASSUME NEW a \in BarrierAwaiters, Check(a) PROVE BarrierHands'
  BY <1>3 DEF Check
<1>4. ASSUME NEW a \in BarrierAwaiters, Take(a) PROVE BarrierHands'
  BY <1>4 DEF Take
<1>5. ASSUME NEW a \in BarrierAwaiters, Suspend(a) PROVE BarrierHands'
  BY <1>5 DEF Suspend
<1>6. ASSUME NEW p \in Threads, Resume(p) PROVE BarrierHands'
  <2>1. /\ Head(toResume[p]) \in BarrierAwaiters
        /\ Tail(toResume[p]) \in Seq(BarrierAwaiters)
        /\ In(Head(toResume[p]), toResume[p])
    BY <1>6, TailHolds DEF Resume, BarrierLists, BarrierDistinct
  <2>2. Waiting(Head(toResume[p]))
    BY <1>6, <2>1 DEF Listed, WillResume, BarrierLists, BarrierHeld
  <2> QED BY <1>6, <2>1, <2>2 DEF Resume, Waiting
<1>7. ASSUME NEW n \in 1..2, Publish(n) PROVE BarrierHands'
  BY <1>7 DEF Publish
<1>8. ASSUME Store PROVE BarrierHands'
  BY <1>8 DEF Store
<1>9. ASSUME TakeAll PROVE BarrierHands'
  BY <1>9, NoneDivided DEF TakeAll
<1>10. ASSUME PutBack PROVE BarrierHands'
  BY <1>10 DEF PutBack
<1>11. ASSUME PublishReturn PROVE BarrierHands'
  BY <1>11 DEF PublishReturn
<1>12. CASE UNCHANGED barrierVars
  BY <1>12 DEF barrierVars, counts
<1> QED
  BY <1>1, <1>2, <1>3, <1>4, <1>5, <1>6, <1>7, <1>8, <1>9, <1>10, <1>11, <1>12
     DEF BarrierNext, Awaiter, Publisher, Threads

\* Steps that move nobody.
LEMMA ListsKept ==
    ASSUME BarrierLists, UNCHANGED <<bAwaiters, requeue, toResume>>,
           \A c \in BarrierAwaiters :
              /\ Waiting(c)' <=> Waiting(c)
              /\ bPc'[c] = "suspended" => ready'[c]
    PROVE  BarrierLists'
<1>1. \A p, c : (PutsBack(p, c)' <=> PutsBack(p, c)) /\ (WillResume(p, c)' <=> WillResume(p, c))
  BY DEF PutsBack, WillResume
<1>2. BarrierDistinct'
  BY DEF BarrierLists, BarrierDistinct
<1>3. BarrierExclusive'
  BY <1>1 DEF BarrierLists, BarrierExclusive
<1>4. BarrierHeld'
  BY <1>1 DEF BarrierLists, BarrierHeld, Listed
<1> QED BY <1>2, <1>3, <1>4 DEF BarrierLists

LEMMA BarrierListsStep ==
    ASSUME BarrierTypeOK, BarrierHands, BarrierLists, [BarrierNext]_barrierVars
    PROVE  BarrierLists'
<1> USE DEF BarrierTypeOK, Goto, With, counts, Threads
<1>1. ASSUME NEW a \in BarrierAwaiters, NEW n \in 0..Ahead,
            WaitUntilPublished(a, (lastPublished + n) % W)
      PROVE  BarrierLists'
  <2> DEFINE s == (lastPublished + n) % W
  <2>1. bPc[a] = "running" /\ requeue[a] = <<>> /\ ~Waiting(a) /\ ~Listed(a)
    BY <1>1, BarrierAssumption DEF WaitUntilPublished, Waiting, BarrierHands, BarrierLists, BarrierHeld
  <2>2. CASE ~Precedes(lastPublished, s)
    <3>1. \A c \in BarrierAwaiters :
             /\ Waiting(c)' <=> Waiting(c)
             /\ bPc'[c] = "suspended" => ready'[c]
      BY <1>1, <2>1, <2>2 DEF WaitUntilPublished, Waiting, BarrierLists, BarrierHeld
    <3>2. UNCHANGED <<bAwaiters, requeue, toResume>>
      BY <1>1, <2>2 DEF WaitUntilPublished
    <3> QED BY <3>1, <3>2, ListsKept
  <2>3. CASE Precedes(lastPublished, s)
    <3>1. /\ requeue' = [requeue EXCEPT ![a] = <<a>>]
          /\ UNCHANGED <<bAwaiters, toResume>>
          /\ bPc' = [bPc EXCEPT ![a] = "enqueue"] /\ ready' = [ready EXCEPT ![a] = FALSE]
      BY <1>1, <2>3 DEF WaitUntilPublished
    <3>2. Distinct(<<a>>) /\ \A c : In(c, <<a>>) <=> c = a
      BY <1>1, SingleHolds
    <3>3. \A c \in BarrierAwaiters :
             /\ In(c, bAwaiters)' <=> In(c, bAwaiters)
             /\ \A q \in Threads : PutsBack(q, c)' <=> PutsBack(q, c) \/ (q = a /\ c = a)
             /\ \A q \in Threads : WillResume(q, c)' <=> WillResume(q, c)
             /\ Waiting(c)' <=> Waiting(c) \/ c = a
             /\ bPc'[c] = "suspended" => ready'[c]
      <4>1. ~PutsBack(a, a) /\ \A c : ~In(c, requeue[a])
        BY <2>1, EmptyHolds DEF PutsBack
      <4>2. ASSUME NEW c \in BarrierAwaiters, NEW q \in Threads
            PROVE  /\ PutsBack(q, c)' <=> PutsBack(q, c) \/ (q = a /\ c = a)
                   /\ WillResume(q, c)' <=> WillResume(q, c)
        <5>1. CASE q = a
          BY <3>1, <3>2, <4>1, <5>1 DEF PutsBack, WillResume
        <5>2. CASE q # a
          BY <3>1, <5>2 DEF PutsBack, WillResume
        <5> QED BY <5>1, <5>2
      <4>3. ASSUME NEW c \in BarrierAwaiters
            PROVE  /\ Waiting(c)' <=> Waiting(c) \/ c = a
                   /\ bPc'[c] = "suspended" => ready'[c]
        BY <3>1 DEF Waiting, BarrierLists, BarrierHeld
      <4> QED BY <3>1, <4>2, <4>3
    <3>4. ~In(a, bAwaiters) /\ \A q \in Threads : ~PutsBack(q, a) /\ ~WillResume(q, a)
      BY <2>1 DEF Listed
    <3>5. BarrierDistinct'
      BY <3>1, <3>2 DEF BarrierLists, BarrierDistinct
    <3>6. BarrierExclusive'
      <4> SUFFICES ASSUME NEW c \in BarrierAwaiters, NEW q \in Threads
                   PROVE  /\ PutsBack(q, c)' =>
                                /\ ~In(c, bAwaiters)'
                                /\ \A r \in Threads : ~WillResume(r, c)'
                                /\ \A r \in Threads \ {q} : ~PutsBack(r, c)'
                          /\ WillResume(q, c)' =>
                                /\ ~In(c, bAwaiters)'
                                /\ \A r \in Threads \ {q} : ~WillResume(r, c)'
        BY DEF BarrierExclusive
      <4>1. CASE c = a
        BY <3>3, <3>4, <4>1
      <4>2. CASE c # a
        BY <3>3, <4>2 DEF BarrierLists, BarrierExclusive
      <4> QED BY <4>1, <4>2
    <3>7. BarrierHeld'
      BY <1>1, <3>3 DEF BarrierLists, BarrierHeld, Listed
    <3> QED BY <3>5, <3>6, <3>7 DEF BarrierLists
  <2> QED BY <2>2, <2>3
<1>2. ASSUME NEW a \in BarrierAwaiters, Enqueue(a) PROVE BarrierLists'
  <2>1. /\ bAwaiters' = requeue[a] \o bAwaiters
        /\ requeue' = [requeue EXCEPT ![a] = <<>>]
        /\ UNCHANGED <<toResume, ready>>
        /\ a \in Threads
    BY <1>2 DEF Enqueue
  <2>2. \A c \in BarrierAwaiters : ~(In(c, requeue[a]) /\ In(c, bAwaiters))
    BY <2>1 DEF BarrierLists, BarrierExclusive, PutsBack
  <2>3. Distinct(bAwaiters') /\ \A c : In(c, bAwaiters') <=> In(c, requeue[a]) \/ In(c, bAwaiters)
    BY <2>1, <2>2, ConcatHolds DEF BarrierLists, BarrierDistinct
  <2>4. \A c \in BarrierAwaiters :
           /\ In(c, bAwaiters)' <=> In(c, bAwaiters) \/ PutsBack(a, c)
           /\ \A q \in Threads : PutsBack(q, c)' <=> PutsBack(q, c) /\ q # a
           /\ \A q \in Threads : WillResume(q, c)' <=> WillResume(q, c)
    BY <2>1, <2>3, EmptyHolds DEF PutsBack, WillResume
  <2>5. \A c \in BarrierAwaiters :
           /\ Waiting(c)' <=> Waiting(c)
           /\ bPc'[c] = "suspended" => ready'[c]
    BY <1>2, BarrierAssumption DEF Enqueue, Waiting, BarrierLists, BarrierHeld
  <2>6. BarrierDistinct'
    BY <2>1, <2>3, EmptyHolds DEF BarrierLists, BarrierDistinct
  <2>7. BarrierExclusive'
    BY <2>1, <2>4 DEF BarrierLists, BarrierExclusive
  <2>8. BarrierHeld'
    BY <2>1, <2>4, <2>5 DEF BarrierLists, BarrierHeld, Listed
  <2> QED BY <2>6, <2>7, <2>8 DEF BarrierLists
<1>3. ASSUME NEW a \in BarrierAwaiters, Check(a) PROVE BarrierLists'
  <2>1. \A c \in BarrierAwaiters :
           /\ Waiting(c)' <=> Waiting(c)
           /\ bPc'[c] = "suspended" => ready'[c]
    BY <1>3, BarrierAssumption DEF Check, Waiting, BarrierLists, BarrierHeld, BarrierHands
  <2>2. UNCHANGED <<bAwaiters, requeue, toResume>>
    BY <1>3 DEF Check
  <2> QED BY <2>1, <2>2, ListsKept
<1>4. ASSUME NEW a \in BarrierAwaiters, Take(a) PROVE BarrierLists'
  <2> DEFINE later == StillWaits(bAwaiters, known[a])
             now == IsReady(bAwaiters, known[a])
             Later(c) == Difference(target[c], known[a]) > 0
  <2>1. /\ bAwaiters' = <<>> /\ a \in Threads /\ UNCHANGED ready
        /\ requeue' = [requeue EXCEPT ![a] = later] /\ requeue[a] = <<>>
        /\ toResume' = [toResume EXCEPT ![a] = toResume[a] \o now]
    BY <1>4 DEF Take, BarrierHands
  <2>2. /\ later \in Seq(BarrierAwaiters) /\ Distinct(later)
        /\ now \in Seq(BarrierAwaiters) /\ Distinct(now)
        /\ \A c \in BarrierAwaiters :
              /\ In(c, later) <=> In(c, bAwaiters) /\ Later(c)
              /\ In(c, now) <=> In(c, bAwaiters) /\ ~Later(c)
    <3>1. \A c \in BarrierAwaiters : Difference(target[c], known[a]) \in Int
      BY <2>1, DifferenceRange, BarrierAssumption
    <3> HIDE DEF BarrierTypeOK
    <3>2. bAwaiters \in Seq(BarrierAwaiters) /\ Distinct(bAwaiters)
      BY DEF BarrierTypeOK, BarrierLists, BarrierDistinct
    <3>3. /\ later \in Seq(BarrierAwaiters) /\ Distinct(later)
          /\ now \in Seq(BarrierAwaiters) /\ Distinct(now)
          /\ \A c \in BarrierAwaiters :
                /\ In(c, later) <=> In(c, bAwaiters) /\ Difference(target[c], known[a]) > 0
                /\ In(c, now) <=> In(c, bAwaiters) /\ Difference(target[c], known[a]) <= 0
      BY <3>2, Divided
    <3> QED BY <3>1, <3>3
  <2> HIDE DEF later, now, Later
  <2>3. /\ Distinct(toResume[a] \o now)
        /\ \A c : In(c, toResume[a] \o now) <=> WillResume(a, c) \/ In(c, now)
    <3>1. \A c \in BarrierAwaiters : ~(In(c, toResume[a]) /\ In(c, now))
      BY <2>1, <2>2 DEF BarrierLists, BarrierExclusive, WillResume
    <3>2. toResume[a] \in Seq(BarrierAwaiters) /\ Distinct(toResume[a])
      BY <2>1 DEF BarrierLists, BarrierDistinct
    <3> QED BY <2>2, <3>1, <3>2, ConcatHolds DEF WillResume
  <2>4. \A c \in BarrierAwaiters :
           /\ ~In(c, bAwaiters)'
           /\ \A q \in Threads : PutsBack(q, c)' <=>
                  PutsBack(q, c) \/ (q = a /\ In(c, bAwaiters) /\ Later(c))
           /\ \A q \in Threads : WillResume(q, c)' <=>
                  WillResume(q, c) \/ (q = a /\ In(c, bAwaiters) /\ ~Later(c))
    <3>1. ASSUME NEW c \in BarrierAwaiters, NEW q \in Threads
          PROVE  /\ PutsBack(q, c)' <=>
                        PutsBack(q, c) \/ (q = a /\ In(c, bAwaiters) /\ Later(c))
                 /\ WillResume(q, c)' <=>
                        WillResume(q, c) \/ (q = a /\ In(c, bAwaiters) /\ ~Later(c))
      <4>1. CASE q = a
        BY <2>1, <2>2, <2>3, <4>1, EmptyHolds DEF PutsBack, WillResume
      <4>2. CASE q # a
        BY <2>1, <4>2 DEF PutsBack, WillResume
      <4> QED BY <4>1, <4>2
    <3>2. \A c : ~In(c, bAwaiters')
      BY <2>1, EmptyHolds
    <3> QED BY <3>1, <3>2
  <2>5. \A c \in BarrierAwaiters :
           /\ Waiting(c)' <=> Waiting(c)
           /\ bPc'[c] = "suspended" => ready'[c]
    BY <1>4, <2>1, BarrierAssumption DEF Take, Waiting, BarrierLists, BarrierHeld
  <2>6. BarrierDistinct'
    BY <2>1, <2>2, <2>3, EmptyHolds DEF BarrierLists, BarrierDistinct
  <2>7. BarrierExclusive'
    <3> HIDE DEF BarrierTypeOK
    <3>1. ASSUME NEW c \in BarrierAwaiters, NEW q \in Threads, PutsBack(q, c)'
          PROVE  /\ \A r \in Threads : ~WillResume(r, c)'
                 /\ \A r \in Threads \ {q} : ~PutsBack(r, c)'
      BY <2>4, <3>1 DEF BarrierLists, BarrierExclusive
    <3>2. ASSUME NEW c \in BarrierAwaiters, NEW q \in Threads, WillResume(q, c)'
          PROVE  \A r \in Threads \ {q} : ~WillResume(r, c)'
      BY <2>4, <3>2 DEF BarrierLists, BarrierExclusive
    <3> QED BY <2>4, <3>1, <3>2 DEF BarrierExclusive
  <2>8. BarrierHeld'
    BY <2>1, <2>4, <2>5 DEF BarrierLists, BarrierHeld, Listed
  <2> QED BY <2>6, <2>7, <2>8 DEF BarrierLists
<1>5. ASSUME NEW a \in BarrierAwaiters, Suspend(a) PROVE BarrierLists'
  <2>1. \A c \in BarrierAwaiters :
           /\ Waiting(c)' <=> Waiting(c)
           /\ bPc'[c] = "suspended" => ready'[c]
    BY <1>5, BarrierAssumption DEF Suspend, Waiting, BarrierLists, BarrierHeld, BarrierHands
  <2>2. UNCHANGED <<bAwaiters, requeue, toResume>>
    BY <1>5 DEF Suspend
  <2> QED BY <2>1, <2>2, ListsKept
<1>6. ASSUME NEW p \in Threads, Resume(p) PROVE BarrierLists'
  <2>1. /\ toResume[p] # <<>> /\ UNCHANGED <<bAwaiters, requeue>>
        /\ toResume[p] \in Seq(BarrierAwaiters) /\ Distinct(toResume[p])
    BY <1>6 DEF Resume, BarrierLists, BarrierDistinct
  <2>2. PICK a \in BarrierAwaiters : a = Head(toResume[p])
    BY <2>1, TailHolds
  <2>3. /\ WillResume(p, a)
        /\ Tail(toResume[p]) \in Seq(BarrierAwaiters) /\ Distinct(Tail(toResume[p]))
        /\ \A c : In(c, Tail(toResume[p])) <=> WillResume(p, c) /\ c # a
        /\ toResume' = [toResume EXCEPT ![p] = Tail(toResume[p])]
        /\ ready' = [ready EXCEPT ![a] = TRUE]
        /\ bPc' = IF ready[a] THEN [bPc EXCEPT ![a] = "running"] ELSE bPc
    BY <1>6, <2>1, <2>2, TailHolds DEF WillResume, Resume
  <2>4. \A c \in BarrierAwaiters :
           /\ In(c, bAwaiters)' <=> In(c, bAwaiters)
           /\ \A q \in Threads : PutsBack(q, c)' <=> PutsBack(q, c)
           /\ \A q \in Threads : WillResume(q, c)' <=> WillResume(q, c) /\ ~(q = p /\ c = a)
    <3>1. ASSUME NEW c \in BarrierAwaiters, NEW q \in Threads
          PROVE  WillResume(q, c)' <=> WillResume(q, c) /\ ~(q = p /\ c = a)
      <4>1. CASE q = p
        BY <2>3, <4>1 DEF WillResume
      <4>2. CASE q # p
        BY <2>3, <4>2 DEF WillResume
      <4> QED BY <4>1, <4>2
    <3> QED BY <2>1, <3>1 DEF PutsBack
  <2>5. \A c \in BarrierAwaiters :
           /\ Waiting(c)' <=> Waiting(c) /\ c # a
           /\ bPc'[c] = "suspended" => ready'[c]
    <3>1. Waiting(a)
      BY <1>6, <2>3 DEF Listed, BarrierLists, BarrierHeld
    <3> QED BY <2>3, <3>1 DEF Waiting, BarrierLists, BarrierHeld
  <2>6. BarrierDistinct'
    BY <1>6, <2>1, <2>3 DEF BarrierLists, BarrierDistinct
  <2>7. BarrierExclusive'
    BY <1>6, <2>4 DEF BarrierLists, BarrierExclusive
  <2>8. BarrierHeld'
    <3>1. \A q \in Threads \ {p} : ~WillResume(q, a)
      BY <1>6, <2>3 DEF BarrierLists, BarrierExclusive
    <3>2. ~In(a, bAwaiters) /\ \A q \in Threads : ~PutsBack(q, a)
      BY <1>6, <2>3 DEF BarrierLists, BarrierExclusive
    <3>3. ~Listed(a)' /\ \A c \in BarrierAwaiters \ {a} : Listed(c)' <=> Listed(c)
      <4>1. ~Listed(a)'
        BY <1>6, <2>4, <3>1, <3>2 DEF Listed
      <4>2. ASSUME NEW c \in BarrierAwaiters \ {a} PROVE Listed(c)' <=> Listed(c)
        BY <2>4 DEF Listed
      <4> QED BY <4>1, <4>2
    <3>4. \A c \in BarrierAwaiters : Listed(c)' <=> Listed(c) /\ c # a
      BY <3>3
    <3> QED BY <2>5, <3>4 DEF BarrierLists, BarrierHeld
  <2> QED BY <2>6, <2>7, <2>8 DEF BarrierLists
<1>7. ASSUME NEW n \in 1..2, Publish(n) PROVE BarrierLists'
  <2>1. \A c \in BarrierAwaiters :
           /\ Waiting(c)' <=> Waiting(c)
           /\ bPc'[c] = "suspended" => ready'[c]
    BY <1>7, BarrierAssumption DEF Publish, Waiting, BarrierLists, BarrierHeld, BarrierHands
  <2>2. UNCHANGED <<bAwaiters, requeue, toResume>>
    BY <1>7 DEF Publish
  <2> QED BY <2>1, <2>2, ListsKept
<1>8. ASSUME Store PROVE BarrierLists'
  <2>1. \A c \in BarrierAwaiters :
           /\ Waiting(c)' <=> Waiting(c)
           /\ bPc'[c] = "suspended" => ready'[c]
    BY <1>8, BarrierAssumption DEF Store, Waiting, BarrierLists, BarrierHeld, BarrierHands
  <2>2. UNCHANGED <<bAwaiters, requeue, toResume>>
    BY <1>8 DEF Store
  <2> QED BY <2>1, <2>2, ListsKept
<1>9. ASSUME TakeAll PROVE BarrierLists'
  <2> DEFINE later == StillWaits(bAwaiters, known[Producer])
             now == IsReady(bAwaiters, known[Producer])
             Later(c) == Difference(target[c], known[Producer]) > 0
  <2>1. /\ bAwaiters' = <<>> /\ Producer \in Threads /\ UNCHANGED ready
        /\ requeue' = [requeue EXCEPT ![Producer] = later] /\ requeue[Producer] = <<>>
        /\ toResume' = [toResume EXCEPT ![Producer] = now]
        /\ toResume[Producer] = <<>>
    BY <1>9 DEF TakeAll, BarrierHands
  <2>2. /\ later \in Seq(BarrierAwaiters) /\ Distinct(later)
        /\ now \in Seq(BarrierAwaiters) /\ Distinct(now)
        /\ \A c \in BarrierAwaiters :
              /\ In(c, later) <=> In(c, bAwaiters) /\ Later(c)
              /\ In(c, now) <=> In(c, bAwaiters) /\ ~Later(c)
    <3>1. \A c \in BarrierAwaiters : Difference(target[c], known[Producer]) \in Int
      BY <2>1, DifferenceRange, BarrierAssumption
    <3> HIDE DEF BarrierTypeOK
    <3>2. bAwaiters \in Seq(BarrierAwaiters) /\ Distinct(bAwaiters)
      BY DEF BarrierTypeOK, BarrierLists, BarrierDistinct
    <3>3. /\ later \in Seq(BarrierAwaiters) /\ Distinct(later)
          /\ now \in Seq(BarrierAwaiters) /\ Distinct(now)
          /\ \A c \in BarrierAwaiters :
                /\ In(c, later) <=> In(c, bAwaiters) /\ Difference(target[c], known[Producer]) > 0
                /\ In(c, now) <=> In(c, bAwaiters) /\ Difference(target[c], known[Producer]) <= 0
      BY <3>2, Divided
    <3> QED BY <3>1, <3>3
  <2> HIDE DEF later, now, Later
  <2>3. \A c : ~WillResume(Producer, c)
    BY <2>1, EmptyHolds DEF WillResume
  <2>4. \A c \in BarrierAwaiters :
           /\ ~In(c, bAwaiters)'
           /\ \A q \in Threads : PutsBack(q, c)' <=>
                  PutsBack(q, c) \/ (q = Producer /\ In(c, bAwaiters) /\ Later(c))
           /\ \A q \in Threads : WillResume(q, c)' <=>
                  WillResume(q, c) \/ (q = Producer /\ In(c, bAwaiters) /\ ~Later(c))
    <3>1. ASSUME NEW c \in BarrierAwaiters, NEW q \in Threads
          PROVE  /\ PutsBack(q, c)' <=>
                        PutsBack(q, c) \/ (q = Producer /\ In(c, bAwaiters) /\ Later(c))
                 /\ WillResume(q, c)' <=>
                        WillResume(q, c) \/ (q = Producer /\ In(c, bAwaiters) /\ ~Later(c))
      <4>1. CASE q = Producer
        BY <2>1, <2>2, <2>3, <4>1, EmptyHolds DEF PutsBack, WillResume
      <4>2. CASE q # Producer
        BY <2>1, <4>2 DEF PutsBack, WillResume
      <4> QED BY <4>1, <4>2
    <3>2. \A c : ~In(c, bAwaiters')
      BY <2>1, EmptyHolds
    <3> QED BY <3>1, <3>2
  <2>5. \A c \in BarrierAwaiters :
           /\ Waiting(c)' <=> Waiting(c)
           /\ bPc'[c] = "suspended" => ready'[c]
    BY <1>9, <2>1, BarrierAssumption DEF TakeAll, Waiting, BarrierLists, BarrierHeld
  <2>6. BarrierDistinct'
    BY <2>1, <2>2, <2>3, EmptyHolds DEF BarrierLists, BarrierDistinct
  <2>7. BarrierExclusive'
    BY <2>1, <2>4 DEF BarrierLists, BarrierExclusive
  <2>8. BarrierHeld'
    BY <2>1, <2>4, <2>5 DEF BarrierLists, BarrierHeld, Listed
  <2> QED BY <2>6, <2>7, <2>8 DEF BarrierLists
<1>10. ASSUME PutBack PROVE BarrierLists'
  <2>1. /\ bAwaiters' = requeue[Producer] \o bAwaiters
        /\ requeue' = [requeue EXCEPT ![Producer] = <<>>]
        /\ UNCHANGED <<toResume, ready>>
        /\ Producer \in Threads
    BY <1>10 DEF PutBack
  <2>2. \A c \in BarrierAwaiters : ~(In(c, requeue[Producer]) /\ In(c, bAwaiters))
    BY <2>1 DEF BarrierLists, BarrierExclusive, PutsBack
  <2>3. Distinct(bAwaiters') /\ \A c : In(c, bAwaiters') <=> In(c, requeue[Producer]) \/ In(c, bAwaiters)
    BY <2>1, <2>2, ConcatHolds DEF BarrierLists, BarrierDistinct
  <2>4. \A c \in BarrierAwaiters :
           /\ In(c, bAwaiters)' <=> In(c, bAwaiters) \/ PutsBack(Producer, c)
           /\ \A q \in Threads : PutsBack(q, c)' <=> PutsBack(q, c) /\ q # Producer
           /\ \A q \in Threads : WillResume(q, c)' <=> WillResume(q, c)
    BY <2>1, <2>3, EmptyHolds DEF PutsBack, WillResume
  <2>5. \A c \in BarrierAwaiters :
           /\ Waiting(c)' <=> Waiting(c)
           /\ bPc'[c] = "suspended" => ready'[c]
    BY <1>10, BarrierAssumption DEF PutBack, Waiting, BarrierLists, BarrierHeld
  <2>6. BarrierDistinct'
    BY <2>1, <2>3, EmptyHolds DEF BarrierLists, BarrierDistinct
  <2>7. BarrierExclusive'
    BY <2>1, <2>4 DEF BarrierLists, BarrierExclusive
  <2>8. BarrierHeld'
    BY <2>1, <2>4, <2>5 DEF BarrierLists, BarrierHeld, Listed
  <2> QED BY <2>6, <2>7, <2>8 DEF BarrierLists
<1>11. ASSUME PublishReturn PROVE BarrierLists'
  <2>1. \A c \in BarrierAwaiters :
           /\ Waiting(c)' <=> Waiting(c)
           /\ bPc'[c] = "suspended" => ready'[c]
    BY <1>11, BarrierAssumption DEF PublishReturn, Waiting, BarrierLists, BarrierHeld, BarrierHands
  <2>2. UNCHANGED <<bAwaiters, requeue, toResume>>
    BY <1>11 DEF PublishReturn
  <2> QED BY <2>1, <2>2, ListsKept
<1>12. CASE UNCHANGED barrierVars
  <2>1. \A c \in BarrierAwaiters :
           /\ Waiting(c)' <=> Waiting(c)
           /\ bPc'[c] = "suspended" => ready'[c]
    BY <1>12 DEF barrierVars, Waiting, BarrierLists, BarrierHeld
  <2> QED BY <1>12, <2>1, ListsKept DEF barrierVars
<1> QED
  BY <1>1, <1>2, <1>3, <1>4, <1>5, <1>6, <1>7, <1>8, <1>9, <1>10, <1>11, <1>12
     DEF BarrierNext, Awaiter, Publisher, Threads

\* Counts of the numbers in the state.
LEMMA Uptos ==
    ASSUME BarrierTypeOK
    PROVE  /\ Upto(lastPublished) \in Nat /\ \A p \in Threads : Upto(known[p]) \in Nat
           /\ \A a \in BarrierAwaiters : Upto(target[a]) \in Nat /\ Upto(until[a]) \in Nat
           /\ Top \in Nat
<1>1. \A s \in Sequence : Upto(s) \in Nat
  BY UptoValue
<1> QED BY <1>1, BarrierAssumption DEF BarrierTypeOK, Top

\* How an awaiter that takes the list divides it and which number it chooses.
LEMMA TakeNumber ==
    ASSUME BarrierTypeOK, BarrierLists, NumberInv, NEW p \in Threads,
           Upto(known[p]) <= Top
    PROVE  /\ \A c \in BarrierAwaiters :
                 In(c, StillWaits(bAwaiters, known[p])) <=>
                    In(c, bAwaiters) /\ Upto(known[p]) < Upto(target[c])
           /\ LET later == StillWaits(bAwaiters, known[p])
                  s == (known[p] + MinDiff(later, known[p])) % W
              IN  later # <<>> =>
                     /\ Upto(s) <= Top
                     /\ \A c \in BarrierAwaiters : In(c, later) => Upto(s) <= Upto(target[c])
<1> DEFINE later == StillWaits(bAwaiters, known[p])
           d == MinDiff(later, known[p])
<1>1. /\ known[p] \in Sequence /\ target \in [BarrierAwaiters -> Sequence]
      /\ bAwaiters \in Seq(BarrierAwaiters) /\ Distinct(bAwaiters)
      /\ \A c \in BarrierAwaiters : Upto(target[c]) <= Top
  BY DEF BarrierTypeOK, BarrierLists, BarrierDistinct, NumberInv
<1>2. \A c \in BarrierAwaiters : Difference(target[c], known[p]) = Upto(target[c]) - Upto(known[p])
  BY <1>1, DifferenceOfCounts
<1>3. /\ later \in Seq(BarrierAwaiters)
      /\ \A c \in BarrierAwaiters :
            In(c, later) <=> In(c, bAwaiters) /\ Difference(target[c], known[p]) > 0
  BY <1>1, Divided
<1>4. Upto(known[p]) \in Nat /\ \A c \in BarrierAwaiters : Upto(target[c]) \in Nat
  BY Uptos
<1>5. \A c \in BarrierAwaiters :
          In(c, later) <=> In(c, bAwaiters) /\ Upto(known[p]) < Upto(target[c])
  BY <1>2, <1>3, <1>4
<1>6. ASSUME later # <<>>
      PROVE  /\ Upto((known[p] + d) % W) <= Top
             /\ \A c \in BarrierAwaiters :
                   In(c, later) => Upto((known[p] + d) % W) <= Upto(target[c])
  <2>1. PICK c \in BarrierAwaiters : In(c, later)
    BY <1>3, <1>6, NothingIn
  <2>2. /\ d \in Int
        /\ \A b \in BarrierAwaiters : In(b, later) => d <= Difference(target[b], known[p])
        /\ \/ \E b \in BarrierAwaiters : In(b, later) /\ d = Difference(target[b], known[p])
           \/ d = W \div 2 - 1
    BY <1>1, <1>3, MinDiffIsLeast
  <2> HIDE DEF d, later
  <2>3. d > 0
    <3>1. W \div 2 - 1 >= Upto(target[c]) - Upto(known[p])
      BY <1>1, <1>4, BarrierAssumption DEF Top
    <3> QED BY <1>2, <1>4, <1>5, <2>1, <2>2, <3>1
  <2>4. d <= Upto(target[c]) - Upto(known[p])
    BY <1>2, <2>1, <2>2
  <2>5. d \in Nat /\ Upto(known[p]) + d <= Top /\ Top \in Nat
    BY <1>1, <1>4, <2>2, <2>3, <2>4, Uptos
  <2>6. Upto((known[p] + d) % W) = Upto(known[p]) + d
    BY <1>1, <2>5, UptoPlus
  <2>7. ASSUME NEW b \in BarrierAwaiters, In(b, later)
        PROVE  Upto(known[p]) + d <= Upto(target[b])
    BY <1>2, <1>4, <2>2, <2>7
  <2> QED BY <2>5, <2>6, <2>7
<1> QED BY <1>5, <1>6

LEMMA NumberStep ==
    ASSUME BarrierTypeOK, BarrierHands, BarrierLists, NumberInv, [BarrierNext]_barrierVars
    PROVE  NumberInv'
<1> USE DEF NumberInv, BarrierTypeOK, Goto, With, counts, Threads
<1>1. ASSUME NEW a \in BarrierAwaiters, NEW n \in 0..Ahead,
            WaitUntilPublished(a, (lastPublished + n) % W)
      PROVE  NumberInv'
  <2>1. n \in Nat /\ Upto(lastPublished) + n <= Top
    BY <1>1, Uptos, BarrierAssumption DEF Top
  <2>2. Upto((lastPublished + n) % W) = Upto(lastPublished) + n
    BY <2>1, UptoPlus DEF BarrierTypeOK
  <2> QED BY <1>1, <2>1, <2>2, BarrierAssumption DEF WaitUntilPublished
<1>2. ASSUME NEW a \in BarrierAwaiters, Enqueue(a) PROVE NumberInv'
  BY <1>2, BarrierAssumption DEF Enqueue
<1>3. ASSUME NEW a \in BarrierAwaiters, Check(a) PROVE NumberInv'
  <2>1. Upto(lastPublished) <= Top
    BY Uptos, BarrierAssumption DEF Top
  <2> QED BY <1>3, <2>1, BarrierAssumption DEF Check
<1>4. ASSUME NEW a \in BarrierAwaiters, Take(a) PROVE NumberInv'
  <2> DEFINE later == StillWaits(bAwaiters, known[a])
  <2>1. later # <<>> => Upto((known[a] + MinDiff(later, known[a])) % W) <= Top
    BY <1>4, TakeNumber
  <2> QED BY <1>4, <2>1, BarrierAssumption DEF Take
<1>5. ASSUME NEW a \in BarrierAwaiters, Suspend(a) PROVE NumberInv'
  BY <1>5, BarrierAssumption DEF Suspend
<1>6. ASSUME NEW p \in Threads, Resume(p) PROVE NumberInv'
  <2>1. bPc'[Producer] = bPc[Producer]
    BY <1>6, TailHolds, BarrierAssumption DEF Resume, BarrierLists, BarrierDistinct
  <2>2. Head(toResume[p]) \in BarrierAwaiters
    BY <1>6, TailHolds DEF Resume, BarrierLists, BarrierDistinct
  <2>3. \A c \in BarrierAwaiters : bPc'[c] \in {"enqueue", "check"} => bPc[c] \in {"enqueue", "check"}
    BY <1>6, <2>2 DEF Resume
  <2> QED BY <1>6, <2>1, <2>3 DEF Resume
<1>7. ASSUME NEW n \in 1..2, Publish(n) PROVE NumberInv'
  <2>1. /\ lastPublished = known[Producer] /\ Upto(lastPublished) = published
        /\ published + n \in 0..MaxPublished
    BY <1>7, BarrierAssumption DEF Publish
  <2>2. n \in Nat /\ Upto(lastPublished) + n <= Top
    BY <1>7, <2>1, BarrierAssumption DEF Top
  <2>3. Upto((lastPublished + n) % W) = published + n
    BY <2>1, <2>2, UptoPlus DEF BarrierTypeOK
  <2>4. /\ published' = published + n /\ bPc' = [bPc EXCEPT ![Producer] = "store"]
        /\ known' = [known EXCEPT ![Producer] = (lastPublished + n) % W]
        /\ UNCHANGED <<lastPublished, target, until>>
    BY <1>7 DEF Publish
  <2>5. /\ known'[Producer] = (lastPublished + n) % W /\ bPc'[Producer] = "store"
        /\ \A a \in BarrierAwaiters : known'[a] = known[a] /\ bPc'[a] = bPc[a]
    BY <2>4, BarrierAssumption
  <2>6. published' \in 0..MaxPublished /\ Upto(known'[Producer]) = published'
    BY <2>1, <2>3, <2>4, <2>5
  <2>7. Upto(lastPublished') <= published'
    BY <2>1, <2>4
  <2>8. \A a \in BarrierAwaiters :
           /\ Upto(target'[a]) <= Top /\ Upto(known'[a]) <= Top
           /\ bPc'[a] \in {"enqueue", "check"} => Upto(until'[a]) <= Top
    BY <2>4, <2>5
  <2> QED BY <2>5, <2>6, <2>7, <2>8
<1>8. ASSUME Store PROVE NumberInv'
  <2>1. Upto(known[Producer]) = published
    OBVIOUS
  <2> QED BY <1>8, <2>1, Uptos, BarrierAssumption DEF Store
<1>9. ASSUME TakeAll PROVE NumberInv'
  BY <1>9, BarrierAssumption DEF TakeAll
<1>10. ASSUME PutBack PROVE NumberInv'
  BY <1>10, BarrierAssumption DEF PutBack
<1>11. ASSUME PublishReturn PROVE NumberInv'
  BY <1>11, BarrierAssumption DEF PublishReturn
<1>12. CASE UNCHANGED barrierVars
  BY <1>12 DEF barrierVars, counts
<1> QED
  BY <1>1, <1>2, <1>3, <1>4, <1>5, <1>6, <1>7, <1>8, <1>9, <1>10, <1>11, <1>12
     DEF BarrierNext, Awaiter, Publisher, Threads

LEMMA PutBackStep ==
    ASSUME BarrierTypeOK, BarrierHands, BarrierLists, NumberInv, PutBackInv, [BarrierNext]_barrierVars
    PROVE  PutBackInv'
<1> USE DEF PutBackInv, BarrierTypeOK, Goto, With, counts, Threads
<1>1. ASSUME NEW a \in BarrierAwaiters, NEW n \in 0..Ahead,
            WaitUntilPublished(a, (lastPublished + n) % W)
      PROVE  PutBackInv'
  <2>1. /\ bPc[a] = "running" /\ requeue[a] = <<>> /\ ~Listed(a) /\ a # Producer
    BY <1>1, BarrierAssumption DEF WaitUntilPublished, Waiting, BarrierHands, BarrierLists, BarrierHeld
  <2>2. \A c \in BarrierAwaiters : \A q \in Threads : PutsBack(q, c) => c # a
    BY <2>1 DEF Listed
  <2>3. \A c : ~In(c, <<>>) /\ (In(c, <<a>>) <=> c = a)
    BY EmptyHolds, SingleHolds
  <2> DEFINE s == (lastPublished + n) % W
  <2>4. /\ target' = [target EXCEPT ![a] = s] /\ lastPublished' = lastPublished
        /\ \/ requeue' = [requeue EXCEPT ![a] = <<a>>] /\ until' = [until EXCEPT ![a] = s]
           \/ UNCHANGED <<requeue, until>>
    BY <1>1 DEF WaitUntilPublished
  <2>5. \A c \in BarrierAwaiters : \A q \in Threads :
           PutsBack(q, c)' => (PutsBack(q, c) /\ q # a) \/ (q = a /\ c = a /\ until'[a] = s)
    BY <2>1, <2>3, <2>4 DEF PutsBack
  <2>6. Upto(s) \in Nat
    <3>1. s \in Sequence
      BY BarrierAssumption DEF Sequence
    <3> QED BY <3>1, UptoValue
  <2> HIDE DEF s
  <2>7. ASSUME NEW c \in BarrierAwaiters, NEW q \in BarrierAwaiters, PutsBack(q, c)'
        PROVE  Upto(until'[q]) <= Upto(target'[c])
    <3>1. CASE PutsBack(q, c) /\ q # a
      BY <2>2, <2>4, <3>1
    <3>2. CASE q = a /\ c = a /\ until'[a] = s
      BY <2>4, <2>6, <3>2
    <3> QED BY <2>5, <2>7, <3>1, <3>2
  <2>8. ASSUME NEW c \in BarrierAwaiters, PutsBack(Producer, c)'
        PROVE  Upto(lastPublished') < Upto(target'[c])
    BY <2>1, <2>2, <2>4, <2>5, <2>8
  <2> QED BY <2>7, <2>8
<1>2. ASSUME NEW a \in BarrierAwaiters, Enqueue(a) PROVE PutBackInv'
  <2>1. /\ requeue' = [requeue EXCEPT ![a] = <<>>] /\ a \in Threads
        /\ UNCHANGED <<target, until, lastPublished>>
    BY <1>2 DEF Enqueue
  <2>2. \A c \in BarrierAwaiters : \A q \in Threads : PutsBack(q, c)' => PutsBack(q, c)
    BY <2>1, EmptyHolds DEF PutsBack
  <2> QED BY <2>1, <2>2
<1>3. ASSUME NEW a \in BarrierAwaiters, Check(a) PROVE PutBackInv'
  <2>1. UNCHANGED <<requeue, target, until, lastPublished>>
    BY <1>3 DEF Check
  <2> QED BY <2>1 DEF PutsBack
<1>4. ASSUME NEW a \in BarrierAwaiters, Take(a) PROVE PutBackInv'
  <2> DEFINE later == StillWaits(bAwaiters, known[a])
             s == (known[a] + MinDiff(later, known[a])) % W
  <2>1. /\ requeue' = [requeue EXCEPT ![a] = later] /\ until' = [until EXCEPT ![a] = s]
        /\ UNCHANGED <<target, lastPublished>>
    BY <1>4 DEF Take
  <2>2. \A c \in BarrierAwaiters : In(c, later) => Upto(s) <= Upto(target[c])
    <3>1. later = <<>> => \A c : ~In(c, later)
      BY EmptyHolds
    <3>2. Upto(known[a]) <= Top
      BY DEF NumberInv
    <3> QED BY <3>1, <3>2, TakeNumber
  <2> HIDE DEF later, s
  <2>3. \A c \in BarrierAwaiters : \A q \in Threads :
           PutsBack(q, c)' <=> IF q = a THEN In(c, later) ELSE PutsBack(q, c)
    BY <2>1 DEF PutsBack
  <2> QED BY <2>1, <2>2, <2>3, BarrierAssumption
<1>5. ASSUME NEW a \in BarrierAwaiters, Suspend(a) PROVE PutBackInv'
  <2>1. UNCHANGED <<requeue, target, until, lastPublished>>
    BY <1>5 DEF Suspend
  <2> QED BY <2>1 DEF PutsBack
<1>6. ASSUME NEW p \in Threads, Resume(p) PROVE PutBackInv'
  <2>1. UNCHANGED <<requeue, target, until, lastPublished>>
    BY <1>6 DEF Resume
  <2> QED BY <2>1 DEF PutsBack
<1>7. ASSUME NEW n \in 1..2, Publish(n) PROVE PutBackInv'
  <2>1. UNCHANGED <<requeue, target, until, lastPublished>>
    BY <1>7 DEF Publish
  <2> QED BY <2>1 DEF PutsBack
<1>8. ASSUME Store PROVE PutBackInv'
  <2>1. requeue[Producer] = <<>> /\ UNCHANGED <<requeue, target, until>>
    BY <1>8, BarrierAssumption DEF Store, BarrierHands
  <2>2. \A c : ~PutsBack(Producer, c)'
    BY <2>1, EmptyHolds DEF PutsBack
  <2> QED BY <2>1, <2>2 DEF PutsBack
<1>9. ASSUME TakeAll PROVE PutBackInv'
  <2> DEFINE later == StillWaits(bAwaiters, known[Producer])
  <2>1. /\ requeue' = [requeue EXCEPT ![Producer] = later]
        /\ UNCHANGED <<target, until, lastPublished>>
        /\ lastPublished = known[Producer]
    BY <1>9 DEF TakeAll, NumberInv
  <2>2. Upto(known[Producer]) <= Top
    BY BarrierAssumption DEF NumberInv, Top
  <2>3. \A c \in BarrierAwaiters : In(c, later) => Upto(lastPublished) < Upto(target[c])
    BY <2>1, <2>2, TakeNumber
  <2> HIDE DEF later
  <2>4. \A c \in BarrierAwaiters : \A q \in Threads :
           PutsBack(q, c)' <=> IF q = Producer THEN In(c, later) ELSE PutsBack(q, c)
    BY <2>1 DEF PutsBack
  <2> QED BY <2>1, <2>3, <2>4, BarrierAssumption
<1>10. ASSUME PutBack PROVE PutBackInv'
  <2>1. /\ requeue' = [requeue EXCEPT ![Producer] = <<>>] /\ Producer \in Threads
        /\ UNCHANGED <<target, until, lastPublished>>
    BY <1>10 DEF PutBack
  <2>2. \A c \in BarrierAwaiters : \A q \in Threads : PutsBack(q, c)' => PutsBack(q, c)
    BY <2>1, EmptyHolds DEF PutsBack
  <2> QED BY <2>1, <2>2
<1>11. ASSUME PublishReturn PROVE PutBackInv'
  <2>1. UNCHANGED <<requeue, target, until, lastPublished>>
    BY <1>11 DEF PublishReturn
  <2> QED BY <2>1 DEF PutsBack
<1>12. CASE UNCHANGED barrierVars
  BY <1>12 DEF barrierVars, PutsBack
<1> QED
  BY <1>1, <1>2, <1>3, <1>4, <1>5, <1>6, <1>7, <1>8, <1>9, <1>10, <1>11, <1>12
     DEF BarrierNext, Awaiter, Publisher, Threads

LEMMA FoundStep ==
    ASSUME BarrierTypeOK, BarrierHands, BarrierLists, LookInv, [BarrierNext]_barrierVars
    PROVE  FoundInv'
<1> USE DEF FoundInv, LookInv, BarrierTypeOK, Goto, With, counts, Threads
<1>1. ASSUME NEW a \in BarrierAwaiters, NEW n \in 0..Ahead,
            WaitUntilPublished(a, (lastPublished + n) % W)
      PROVE  FoundInv'
  <2>1. bPc[a] = "running" /\ ~Listed(a)
    BY <1>1, BarrierAssumption DEF WaitUntilPublished, Waiting, BarrierHands, BarrierLists, BarrierHeld
  <2>2. /\ UNCHANGED <<bAwaiters, lastPublished, unseen>>
        /\ bPc'[Producer] = bPc[Producer]
        /\ \A c \in BarrierAwaiters \ {a} : target'[c] = target[c]
        /\ \A c \in BarrierAwaiters \ {a} : bPc'[c] = bPc[c] /\ until'[c] = until[c]
    BY <1>1, BarrierAssumption DEF WaitUntilPublished
  <2>3. Takers \subseteq Takers'
    BY <2>1, <2>2 DEF Takers
  <2>4. \A c \in BarrierAwaiters : In(c, bAwaiters) => c # a
    BY <2>1 DEF Listed
  <2> QED BY <2>2, <2>3, <2>4
<1>2. ASSUME NEW a \in BarrierAwaiters, Enqueue(a) PROVE FoundInv'
  <2>1. /\ bAwaiters' = requeue[a] \o bAwaiters /\ bPc[a] = "enqueue"
        /\ UNCHANGED <<target, until, lastPublished, unseen>>
        /\ bPc' = [bPc EXCEPT ![a] = "check"]
    BY <1>2 DEF Enqueue
  <2>2. \A c : In(c, bAwaiters') <=> PutsBack(a, c) \/ In(c, bAwaiters)
    <3>1. \A c \in BarrierAwaiters : ~(In(c, requeue[a]) /\ In(c, bAwaiters))
      BY DEF BarrierLists, BarrierExclusive, PutsBack
    <3> QED BY <2>1, <3>1, ConcatHolds DEF BarrierLists, BarrierDistinct, PutsBack
  <2>3. Takers \subseteq Takers'
    BY <2>1 DEF Takers
  <2>4. ASSUME NEW c \in BarrierAwaiters, PutsBack(a, c), Upto(target[c]) <= Upto(lastPublished)
        PROVE  a \in Takers'
    <3>1. Upto(until[a]) <= Upto(target[c])
      BY <2>4 DEF PutBackInv
    <3>2. Upto(until[a]) <= Upto(lastPublished)
      <4> HIDE DEF BarrierTypeOK
      <4> QED BY <2>4, <3>1, Uptos
    <3> QED BY <2>1, <3>2 DEF Takers
  <2>5. bPc'[Producer] = bPc[Producer]
    BY <2>1, BarrierAssumption
  <2> QED BY <2>1, <2>2, <2>3, <2>4, <2>5
<1>3. ASSUME NEW a \in BarrierAwaiters, Check(a) PROVE FoundInv'
  <2>1. /\ bPc[a] = "check" /\ UNCHANGED <<target, until, lastPublished, unseen, bAwaiters>>
        /\ bPc' = [bPc EXCEPT ![a] = IF Precedes(lastPublished, until[a]) THEN "resume" ELSE "take"]
    BY <1>3 DEF Check
  <2>2. Precedes(lastPublished, until[a]) => ~(Upto(until[a]) <= Upto(lastPublished))
    <3> HIDE DEF BarrierTypeOK
    <3>1. Upto(until[a]) <= Top /\ Upto(lastPublished) <= Top
      BY <2>1, Uptos, BarrierAssumption DEF NumberInv, Top
    <3>2. lastPublished \in Sequence /\ until[a] \in Sequence
      BY DEF BarrierTypeOK
    <3>3. Difference(lastPublished, until[a]) = Upto(lastPublished) - Upto(until[a])
      BY <3>1, <3>2, DifferenceOfCounts
    <3> QED BY <3>3, Uptos DEF Precedes
  <2>3. Takers \subseteq Takers'
    BY <2>1, <2>2 DEF Takers
  <2>4. bPc'[Producer] = bPc[Producer]
    BY <2>1, BarrierAssumption
  <2> QED BY <2>1, <2>3, <2>4
<1>4. ASSUME NEW a \in BarrierAwaiters, Take(a) PROVE FoundInv'
  <2>1. bAwaiters' = <<>>
    BY <1>4 DEF Take
  <2> QED BY <2>1, EmptyHolds
<1>5. ASSUME NEW a \in BarrierAwaiters, Suspend(a) PROVE FoundInv'
  <2>1. /\ bPc[a] = "resume" /\ UNCHANGED <<target, until, lastPublished, unseen, bAwaiters>>
        /\ bPc' = [bPc EXCEPT ![a] = IF ready[a] THEN "running" ELSE "suspended"]
    BY <1>5 DEF Suspend
  <2>2. Takers \subseteq Takers'
    BY <2>1 DEF Takers
  <2>3. bPc'[Producer] = bPc[Producer]
    BY <2>1, BarrierAssumption
  <2> QED BY <2>1, <2>2, <2>3
<1>6. ASSUME NEW p \in Threads, Resume(p) PROVE FoundInv'
  <2>1. toResume[p] # <<>> /\ toResume[p] \in Seq(BarrierAwaiters) /\ Distinct(toResume[p])
    BY <1>6 DEF Resume, BarrierLists, BarrierDistinct
  <2>2. PICK a \in BarrierAwaiters : a = Head(toResume[p])
    BY <2>1, TailHolds
  <2>3. Waiting(a)
    BY <1>6, <2>1, <2>2, TailHolds DEF Listed, WillResume, BarrierLists, BarrierHeld
  <2>4. /\ UNCHANGED <<target, until, lastPublished, unseen, bAwaiters>>
        /\ bPc' = IF ready[a] THEN [bPc EXCEPT ![a] = "running"] ELSE bPc
    BY <1>6, <2>2 DEF Resume
  <2>5. Takers \subseteq Takers' /\ bPc'[Producer] = bPc[Producer]
    BY <2>3, <2>4, BarrierAssumption DEF Takers, Waiting
  <2> QED BY <2>4, <2>5
<1>7. ASSUME NEW n \in 1..2, Publish(n) PROVE FoundInv'
  <2>1. bPc'[Producer] \in {"store", "takeAll"} \/ unseen'
    BY <1>7 DEF Publish
  <2> QED BY <2>1
<1>8. ASSUME Store PROVE FoundInv'
  <2>1. bPc'[Producer] \in {"store", "takeAll"} \/ unseen'
    BY <1>8 DEF Store
  <2> QED BY <2>1
<1>9. ASSUME TakeAll PROVE FoundInv'
  <2>1. bAwaiters' = <<>>
    BY <1>9 DEF TakeAll
  <2> QED BY <2>1, EmptyHolds
<1>10. ASSUME PutBack PROVE FoundInv'
  <2>1. /\ bAwaiters' = requeue[Producer] \o bAwaiters /\ bPc[Producer] = "putBack"
        /\ UNCHANGED <<target, until, lastPublished, unseen>>
        /\ bPc' = [bPc EXCEPT ![Producer] = "resume"]
    BY <1>10 DEF PutBack
  <2>2. \A c : In(c, bAwaiters') <=> PutsBack(Producer, c) \/ In(c, bAwaiters)
    <3>1. \A c \in BarrierAwaiters : ~(In(c, requeue[Producer]) /\ In(c, bAwaiters))
      BY DEF BarrierLists, BarrierExclusive, PutsBack
    <3> QED BY <2>1, <3>1, ConcatHolds DEF BarrierLists, BarrierDistinct, PutsBack
  <2>3. Takers' = Takers
    BY <2>1, BarrierAssumption DEF Takers
  <2>4. \A c \in BarrierAwaiters : PutsBack(Producer, c) => ~(Upto(target[c]) <= Upto(lastPublished))
    <3> HIDE DEF BarrierTypeOK
    <3> QED BY Uptos DEF PutBackInv
  <2> QED BY <2>1, <2>2, <2>3, <2>4
<1>11. ASSUME PublishReturn PROVE FoundInv'
  <2>1. /\ bPc[Producer] = "resume" /\ UNCHANGED <<target, until, lastPublished, unseen, bAwaiters>>
        /\ bPc' = [bPc EXCEPT ![Producer] = "running"]
    BY <1>11 DEF PublishReturn
  <2>2. Takers' = Takers
    BY <2>1, BarrierAssumption DEF Takers
  <2> QED BY <2>1, <2>2
<1>12. CASE UNCHANGED barrierVars
  BY <1>12 DEF barrierVars, Takers
<1> QED
  BY <1>1, <1>2, <1>3, <1>4, <1>5, <1>6, <1>7, <1>8, <1>9, <1>10, <1>11, <1>12
     DEF BarrierNext, Awaiter, Publisher, Threads

-----------------------------------------------------------------------------

LEMMA BarrierHoldsFirst == BarrierInit => BarrierInv /\ LookInv
<1> SUFFICES ASSUME BarrierInit PROVE BarrierInv /\ LookInv
  OBVIOUS
<1>1. W - 1 \in Sequence /\ Upto(W - 1) = 0 /\ Top \in Nat /\ MaxPublished \in Nat
  <2>1. W - 1 \in Sequence
    BY BarrierAssumption DEF Sequence
  <2> QED BY <2>1, UptoValue, BarrierAssumption DEF Top
<1>2. BarrierTypeOK
  <2>1. <<>> \in Seq(BarrierAwaiters)
    OBVIOUS
  <2> QED BY <1>1, <2>1 DEF BarrierInit, BarrierTypeOK, Threads
<1>3. BarrierHands
  BY BarrierAssumption DEF BarrierInit, BarrierHands, Threads
<1>4. \A c : ~In(c, bAwaiters) /\ \A p \in Threads : ~PutsBack(p, c) /\ ~WillResume(p, c)
  BY EmptyHolds DEF BarrierInit, PutsBack, WillResume
<1>5. BarrierLists
  <2>1. BarrierDistinct
    BY EmptyHolds DEF BarrierInit, BarrierDistinct
  <2>2. BarrierExclusive
    BY <1>4 DEF BarrierExclusive
  <2>3. \A c \in BarrierAwaiters : bPc[c] = "running"
    BY DEF BarrierInit, Threads
  <2>4. BarrierHeld
    BY <1>4, <2>3 DEF BarrierHeld, Listed, Waiting
  <2> QED BY <2>1, <2>2, <2>4 DEF BarrierLists
<1>6. NumberInv
  BY <1>1, BarrierAssumption DEF BarrierInit, NumberInv, Threads
<1>7. PutBackInv /\ FoundInv
  BY <1>4, BarrierAssumption DEF PutBackInv, FoundInv, Threads
<1> QED BY <1>2, <1>3, <1>5, <1>6, <1>7 DEF BarrierInv, LookInv

LEMMA BarrierInvStep ==
    ASSUME BarrierInv, [BarrierNext]_barrierVars
    PROVE  BarrierInv'
BY BarrierTypesStep, BarrierHandsStep, BarrierListsStep DEF BarrierInv

LEMMA LookInvStep ==
    ASSUME BarrierInv, LookInv, [BarrierNext]_barrierVars
    PROVE  LookInv'
BY NumberStep, PutBackStep, FoundStep DEF BarrierInv, LookInv

\* Who is suspended is in one list; who runs is in none.
LEMMA ListsAreApart == BarrierInv => InOneList
<1> SUFFICES ASSUME BarrierInv PROVE InOneList
  OBVIOUS
<1>1. /\ bAwaiters \in Seq(BarrierAwaiters)
      /\ \A p \in Threads : requeue[p] \in Seq(BarrierAwaiters) /\ toResume[p] \in Seq(BarrierAwaiters)
  BY DEF BarrierInv, BarrierTypeOK
<1>2. IsInjective(bAwaiters)
  BY <1>1 DEF BarrierInv, BarrierLists, BarrierDistinct, Distinct, IsInjective
<1>3. ASSUME NEW c \in BarrierAwaiters
      PROVE  ListsWith(c) =
                (IF In(c, bAwaiters) THEN {"shared"} ELSE {})
                   \cup {<<"requeue", p>> : p \in {q \in Threads : PutsBack(q, c)}}
                   \cup {<<"toResume", p>> : p \in {q \in Threads : WillResume(q, c)}}
  <2>1. /\ c \in ToSet(bAwaiters) <=> In(c, bAwaiters)
        /\ \A p \in Threads : c \in ToSet(requeue[p]) <=> PutsBack(p, c)
        /\ \A p \in Threads : c \in ToSet(toResume[p]) <=> WillResume(p, c)
    BY <1>1, InToSet DEF PutsBack, WillResume
  <2>2. /\ {q \in Threads : c \in ToSet(requeue[q])} = {q \in Threads : PutsBack(q, c)}
        /\ {q \in Threads : c \in ToSet(toResume[q])} = {q \in Threads : WillResume(q, c)}
    BY <2>1
  <2> QED BY <2>1, <2>2 DEF ListsWith
<1>4. ASSUME NEW c \in BarrierAwaiters, bPc[c] = "suspended"
      PROVE  \E x \in ListsWith(c) : ListsWith(c) = {x}
  <2>1. Listed(c)
    BY <1>4 DEF BarrierInv, BarrierLists, BarrierHeld, Waiting
  <2>2. CASE In(c, bAwaiters)
    <3>1. \A p \in Threads : ~PutsBack(p, c) /\ ~WillResume(p, c)
      BY <2>2 DEF BarrierInv, BarrierLists, BarrierExclusive
    <3>2. ListsWith(c) = {"shared"}
      BY <1>3, <2>2, <3>1
    <3> QED BY <3>2
  <2>3. ASSUME NEW p \in Threads, PutsBack(p, c)
        PROVE  \E x \in ListsWith(c) : ListsWith(c) = {x}
    <3>1. /\ ~In(c, bAwaiters) /\ \A q \in Threads : ~WillResume(q, c)
          /\ \A q \in Threads : PutsBack(q, c) <=> q = p
      BY <2>3 DEF BarrierInv, BarrierLists, BarrierExclusive
    <3>2. ListsWith(c) = {<<"requeue", p>>}
      BY <1>3, <3>1
    <3> QED BY <3>2
  <2>4. ASSUME NEW p \in Threads, WillResume(p, c)
        PROVE  \E x \in ListsWith(c) : ListsWith(c) = {x}
    <3>1. /\ ~In(c, bAwaiters) /\ \A q \in Threads : ~PutsBack(q, c)
          /\ \A q \in Threads : WillResume(q, c) <=> q = p
      BY <2>4 DEF BarrierInv, BarrierLists, BarrierExclusive
    <3>2. ListsWith(c) = {<<"toResume", p>>}
      BY <1>3, <3>1
    <3> QED BY <3>2
  <2> QED BY <2>1, <2>2, <2>3, <2>4 DEF Listed
<1>5. ASSUME NEW c \in BarrierAwaiters, bPc[c] = "running" PROVE ListsWith(c) = {}
  <2>1. ~In(c, bAwaiters) /\ \A p \in Threads : ~PutsBack(p, c) /\ ~WillResume(p, c)
    BY <1>5 DEF BarrierInv, BarrierLists, BarrierHeld, Waiting, Listed
  <2> QED BY <1>3, <2>1
<1> QED BY <1>2, <1>4, <1>5 DEF InOneList

LEMMA FoundIsEnough == BarrierInv /\ LookInv => LeftBehindOnlyIfUnseen
<1> SUFFICES ASSUME BarrierInv, LookInv, \A p \in Threads : ~InCall(p),
                    NEW a \in BarrierAwaiters, bPc[a] = "suspended",
                    ~Precedes(lastPublished, target[a])
             PROVE  unseen
  BY DEF LeftBehindOnlyIfUnseen
<1>1. \A p \in Threads : bPc[p] \in {"running", "suspended"}
  BY DEF InCall
<1>2. \A p \in Threads : requeue[p] = <<>> /\ toResume[p] = <<>>
  BY <1>1 DEF BarrierInv, BarrierHands
<1>3. \A p \in Threads : ~PutsBack(p, a) /\ ~WillResume(p, a)
  BY <1>2, EmptyHolds DEF PutsBack, WillResume
<1>4. In(a, bAwaiters)
  BY <1>3 DEF BarrierInv, BarrierLists, BarrierHeld, Waiting, Listed
<1>5. Upto(target[a]) <= Upto(lastPublished)
  <2>1. Upto(target[a]) <= Top /\ Upto(lastPublished) <= Top
    BY Uptos, BarrierAssumption DEF BarrierInv, LookInv, NumberInv, Top
  <2>2. lastPublished \in Sequence /\ target[a] \in Sequence
    BY DEF BarrierInv, BarrierTypeOK
  <2>3. Difference(lastPublished, target[a]) = Upto(lastPublished) - Upto(target[a])
    BY <2>1, <2>2, DifferenceOfCounts
  <2> QED BY <2>3, Uptos DEF Precedes, BarrierInv
<1>6. Takers = {}
  BY <1>1 DEF Takers, Threads
<1>7. bPc[Producer] \notin {"store", "takeAll"}
  BY <1>1 DEF Threads
<1> QED BY <1>4, <1>5, <1>6, <1>7 DEF LookInv, FoundInv

\* Between the two lists of every thread and the shared one no awaiter is lost
\* and none is held twice, however many awaiters there are: sequence_barrier's
\* lists are taken whole, so who has taken an awaiter is the only one to resume it.
THEOREM BarrierSafety == BarrierSpec => []InOneList
<1>1. BarrierInit => BarrierInv
  BY BarrierHoldsFirst
<1>2. BarrierInv /\ [BarrierNext]_barrierVars => BarrierInv'
  BY BarrierInvStep
<1>3. BarrierInv => InOneList
  BY ListsAreApart
<1> QED BY <1>1, <1>2, <1>3, PTL DEF BarrierSpec

\* The only way of sequence_barrier to leave an awaiter asleep on a number that
\* is published is publish()'s look at the list before it stores the number.
THEOREM BarrierFound == BarrierSpec => []LeftBehindOnlyIfUnseen
<1>1. BarrierInit => BarrierInv /\ LookInv
  BY BarrierHoldsFirst
<1>2. BarrierInv /\ LookInv /\ [BarrierNext]_barrierVars => (BarrierInv /\ LookInv)'
  BY BarrierInvStep, LookInvStep
<1>3. BarrierInv /\ LookInv => LeftBehindOnlyIfUnseen
  BY FoundIsEnough
<1> QED BY <1>1, <1>2, <1>3, PTL DEF BarrierSpec

=============================================================================
