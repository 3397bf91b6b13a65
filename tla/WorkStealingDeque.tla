------------------------- MODULE WorkStealingDeque -------------------------
(***************************************************************************)
(* thread_pool::thread_state's local queue: a growing ring buffer with     *)
(* indices m_head and m_tail.  The owner enqueues and pops at the head,    *)
(* taking m_remote_mutex only when it meets a thief at the last element or *)
(* grows the buffer; thieves hold the mutex and take at the tail.          *)
(*                                                                         *)
(* An action is one atomic access to m_head, m_tail, a slot or the mutex,  *)
(* in a sequentially consistent memory.  m_head is written by the owner    *)
(* only and m_tail under the mutex only, so a part that holds the mutex    *)
(* and touches just these is one action.                                   *)
(***************************************************************************)
EXTENDS Integers, Sequences, SequencesExt, FiniteSets

CONSTANTS
    Thieves,       \* the other workers
    MaxItems,      \* bound: operations enqueued in a behaviour
    InitSize,      \* local_queue_size, a power of two
    MaxSize        \* max_local_queue_size

Items == 1..MaxItems
Free == "free"
Owner == "owner"

ASSUME DequeAssumption ==
    /\ MaxItems \in Nat
    /\ InitSize \in Nat \ {0}
    /\ MaxSize \in Nat
    /\ Thieves \cap {Free, Owner} = {}

VARIABLES
    buf,       \* m_local_queue; 0 is a slot never written
    mask,      \* m_mask
    head,      \* m_head
    tail,      \* m_tail
    lock,      \* m_remote_mutex: Free, or who holds it
    dequePc,        \* where the owner and each thief are
    seenTail,  \* the owner's local variable tail
    next,      \* the operation to be enqueued next
    present,   \* history: operations enqueued and not taken, oldest first
    takes      \* history: how often each operation was taken

dequeVars == <<buf, mask, head, tail, lock, dequePc, seenTail, next, present, takes>>
shared == <<buf, mask, head, tail, lock>>
history == <<present, takes>>

Cell(i) == i % (mask + 1)
DequeGoto(p, at) == dequePc' = [dequePc EXCEPT ![p] = at]

\* Bookkeeping of the operation x being returned to a worker.
Take(x) ==
    /\ present' = IF x \in ToSet(present)
                  THEN RemoveAt(present, CHOOSE i \in DOMAIN present : present[i] = x)
                  ELSE present
    /\ takes' = [takes EXCEPT ![x] = @ + 1]

DequeInit ==
    /\ buf = [i \in 0..InitSize - 1 |-> 0]
    /\ mask = InitSize - 1
    /\ head = 0
    /\ tail = 0
    /\ lock = Free
    /\ dequePc = [p \in Thieves \cup {Owner} |-> "idle"]
    /\ seenTail = 0
    /\ next = 1
    /\ present = <<>>
    /\ takes = [x \in Items |-> 0]

-----------------------------------------------------------------------------
(* try_local_enqueue() *)

EnqueueLoad ==
    /\ dequePc[Owner] = "idle"
    /\ next \in Items
    /\ seenTail' = tail
    /\ DequeGoto(Owner, "enqueue")
    /\ UNCHANGED <<shared, next, history>>

\* Mutant: the buffer is filled to the last slot.
EnqueueWrite_Full ==
    /\ dequePc[Owner] = "enqueue"
    /\ head - seenTail <= mask
    /\ buf' = [buf EXCEPT ![Cell(head)] = next]
    /\ DequeGoto(Owner, "publish")
    /\ UNCHANGED <<mask, head, tail, lock, seenTail, next, history>>

\* There is space left; the slot is written before m_head.
EnqueueWrite ==
    /\ dequePc[Owner] = "enqueue"
    /\ head - seenTail < mask
    /\ buf' = [buf EXCEPT ![Cell(head)] = next]
    /\ DequeGoto(Owner, "publish")
    /\ UNCHANGED <<mask, head, tail, lock, seenTail, next, history>>

EnqueuePublish ==
    /\ dequePc[Owner] = "publish"
    /\ head' = head + 1
    /\ present' = Append(present, next)
    /\ next' = next + 1
    /\ seenTail' = 0
    /\ DequeGoto(Owner, "idle")
    /\ UNCHANGED <<buf, mask, tail, lock, takes>>

\* No space, the mutex is free: the buffer is doubled and its operations are
\* copied.  The test that would stop the growth compares the mask with a size.
EnqueueGrow ==
    LET newMask == (mask + 1) * 2 - 1
        copied == {i % (newMask + 1) : i \in tail..head - 1}
        Old(j) == CHOOSE i \in tail..head - 1 : i % (newMask + 1) = j
    IN  /\ dequePc[Owner] = "enqueue"
        /\ head - seenTail >= mask
        /\ mask # InitSize
        /\ lock = Free
        /\ buf' = [j \in 0..newMask |-> CASE j = head % (newMask + 1) -> next
                                          [] j \in copied -> buf[Cell(Old(j))]
                                          [] OTHER -> 0]
        /\ mask' = newMask
        /\ head' = head + 1
        /\ present' = Append(present, next)
        /\ next' = next + 1
        /\ seenTail' = 0
        /\ DequeGoto(Owner, "idle")
        /\ UNCHANGED <<tail, lock, takes>>

\* No space and no growth: size limit, failed allocation, mutex taken.  The
\* caller puts the operation into the global queue.
EnqueueFail ==
    /\ dequePc[Owner] = "enqueue"
    /\ head - seenTail >= mask
    /\ next' = next + 1
    /\ seenTail' = 0
    /\ DequeGoto(Owner, "idle")
    /\ UNCHANGED <<shared, history>>

-----------------------------------------------------------------------------
(* try_local_pop() *)

\* The queue does not look empty; if it does the call changes nothing.
PopCheck ==
    /\ dequePc[Owner] = "idle"
    /\ head - tail > 0
    /\ DequeGoto(Owner, "pop")
    /\ UNCHANGED <<shared, seenTail, next, history>>

PopReserve ==
    /\ dequePc[Owner] = "pop"
    /\ head' = head - 1
    /\ DequeGoto(Owner, "reload")
    /\ UNCHANGED <<buf, mask, tail, lock, seenTail, next, history>>

\* Mutant: the tail is not read again after m_head was lowered.
PopReload_Stale ==
    /\ dequePc[Owner] = "reload"
    /\ Take(buf[Cell(head)])
    /\ DequeGoto(Owner, "idle")
    /\ UNCHANGED <<shared, seenTail, next>>

\* Is the reserved element still below the tail of no thief?
PopReload ==
    /\ dequePc[Owner] = "reload"
    /\ IF head - tail < 0
       THEN DequeGoto(Owner, "popLock") /\ UNCHANGED history
       ELSE Take(buf[Cell(head)]) /\ DequeGoto(Owner, "idle")
    /\ UNCHANGED <<shared, seenTail, next>>

\* Under the mutex: a thief took the last element, and m_head is restored, or
\* it withdrew and the element is the owner's.
PopLocked ==
    /\ dequePc[Owner] = "popLock"
    /\ lock = Free
    /\ IF head - tail < 0
       THEN head' = head + 1 /\ UNCHANGED history
       ELSE head' = head /\ Take(buf[Cell(head)])
    /\ DequeGoto(Owner, "idle")
    /\ UNCHANGED <<buf, mask, tail, lock, seenTail, next>>

-----------------------------------------------------------------------------
(* try_steal() *)

\* The mutex is taken and the queue is not empty; if it is, or if the
\* non-blocking attempt finds the mutex taken, the call changes nothing.
StealLock(t) ==
    /\ dequePc[t] = "idle"
    /\ lock = Free
    /\ head - tail > 0
    /\ lock' = t
    /\ DequeGoto(t, "steal")
    /\ UNCHANGED <<buf, mask, head, tail, seenTail, next, history>>

StealAdvance(t) ==
    /\ dequePc[t] = "steal"
    /\ tail' = tail + 1
    /\ DequeGoto(t, "stealCheck")
    /\ UNCHANGED <<buf, mask, head, lock, seenTail, next, history>>

\* The owner may have popped the element meanwhile: then m_tail is restored.
StealCheck(t) ==
    /\ dequePc[t] = "stealCheck"
    /\ IF head - (tail - 1) > 0
       THEN DequeGoto(t, "stealTake") /\ UNCHANGED <<tail, lock>>
       ELSE tail' = tail - 1 /\ lock' = Free /\ DequeGoto(t, "idle")
    /\ UNCHANGED <<buf, mask, head, seenTail, next, history>>

StealTake(t) ==
    /\ dequePc[t] = "stealTake"
    /\ Take(buf[Cell(tail - 1)])
    /\ lock' = Free
    /\ DequeGoto(t, "idle")
    /\ UNCHANGED <<buf, mask, head, tail, seenTail, next>>

-----------------------------------------------------------------------------

OwnerStep ==
    \/ EnqueueLoad \/ EnqueueWrite \/ EnqueuePublish \/ EnqueueGrow \/ EnqueueFail
    \/ PopCheck \/ PopReserve \/ PopReload \/ PopLocked

ThiefStep(t) == StealLock(t) \/ StealAdvance(t) \/ StealCheck(t) \/ StealTake(t)

DequeNext == OwnerStep \/ \E t \in Thieves : ThiefStep(t)

DequeSpec == DequeInit /\ [][DequeNext]_dequeVars

-----------------------------------------------------------------------------

\* The queue is the abstract deque: the owner pops the newest operation, a
\* thief gets the oldest, none is lost or taken twice, although owner and
\* thief may go for the last one together and the buffer may grow meanwhile.
Deque == INSTANCE AbstractDeque WITH items <- present, takes <- takes
ImplementsDeque == Deque!ASpec

\* Between two calls the slots from m_tail to m_head hold the operations that
\* were not taken, in order, also after the indices have wrapped around the
\* buffer and the buffer has grown.
ContentsInOrder ==
    (dequePc[Owner] = "idle" /\ lock = Free) =>
        present = [k \in 1..head - tail |-> buf[Cell(tail + k - 1)]]

\* An operation that the queue still owes to somebody is not overwritten: the
\* slot a thief is about to read still holds the oldest operation.
StolenSlotIsIntact ==
    \A t \in Thieves : dequePc[t] = "stealTake" =>
        present # <<>> /\ buf[Cell(tail - 1)] = Head(present)

\* The slot a thief is about to read is not written over, and the slots hold
\* what was not taken, in order.
ContentsAreIntact == StolenSlotIsIntact /\ ContentsInOrder

\* "Keep each thread's local queue under 1MB".
SizeLimit == mask + 1 <= MaxSize

=============================================================================
