------------------------ MODULE MultiProducerSequencer ------------------------
(***************************************************************************)
(* coro::multi_producer_sequencer: producers claim sequence numbers of a   *)
(* ring buffer by fetch_add, wait until the consumers have left the slots, *)
(* write them, and publish each number in its element of m_published.      *)
(* Consumers scan that array, and wait in a lock-free list for a number    *)
(* and all before it; a producer that publishes, and a consumer on its way *)
(* to sleep that finds its number published, take the list and resume      *)
(* those who are ready.                                                    *)
(*                                                                         *)
(* An action is one atomic operation with the local work after it.  The    *)
(* consumers' sequence_barrier is its last_published() here, the earliest  *)
(* of what the consumers are done with: the waiting on it is module        *)
(* SequenceBarrier.  awaiters_to_resume is read after it is assigned only. *)
(***************************************************************************)
EXTENDS SequenceTraits, AwaiterLists, SequencesExt

CONSTANTS
    Producers,  \* coroutines that claim and publish, each with its thread
    Consumers,  \* coroutines that wait and read, each with its thread
    MaxClaims   \* bound: numbers claimed in a behaviour

ASSUME SequencerAssumption ==
    /\ Producers \cap Consumers = {}
    /\ Consumers # {}
    /\ MaxClaims \in Nat /\ MaxClaims + Size < W \div 2

Threads == Producers \cup Consumers

VARIABLES
    nextToClaim,  \* m_next_to_claim
    published,    \* m_published, by slot
    awaiters,     \* the list at m_awaiters, head first
    pc,           \* where each thread, or a suspended coroutine, is
    held,         \* the numbers a producer has claimed and not published
    consumed,     \* the last number each consumer is done with
    target,       \* m_target_seq of each wait operation
    lastKnown,    \* m_last_known_published of each wait operation
    ready,        \* m_ready_to_resume of each wait operation
    known,        \* last_known_published, a local of each thread
    until,        \* earliest_target_sequence or target_seq, a local
    taken,        \* the list a thread has taken and not looked through
    requeue,      \* awaiters_to_requeue, or the own awaiter, of each thread
    toResume      \* awaiters_to_resume of each thread

claims == <<nextToClaim, held>>
waits == <<target, lastKnown, ready>>
lists == <<taken, requeue, toResume>>
vars == <<nextToClaim, published, awaiters, pc, held, consumed, target,
          lastKnown, ready, known, until, taken, requeue, toResume>>

Goto(p, at) == pc' = [pc EXCEPT ![p] = at]
Set(f, p, v) == [f EXCEPT ![p] = v]

\* The locals of a call are gone when it returns.
LocalsGone(p) ==
    /\ known' = Set(known, p, InitSeq)
    /\ until' = Set(until, p, InitSeq)

IsPublished(s) == published[Slot(s)] = s

\* last_published() of m_consumer_barrier.
Barrier == Earliest({consumed[c] : c \in Consumers})

Init ==
    /\ nextToClaim = Plus(InitSeq, 1)
    /\ published = [i \in 0..Size - 1 |->
                       CHOOSE s \in Numbers(Plus(InitSeq, 1 - Size), Size) : Slot(s) = i]
    /\ awaiters = <<>>
    /\ pc = [p \in Threads |-> "running"]
    /\ held = [p \in Producers |-> {}]
    /\ consumed = [c \in Consumers |-> InitSeq]
    /\ target = [c \in Consumers |-> InitSeq]
    /\ lastKnown = [c \in Consumers |-> InitSeq]
    /\ ready = [c \in Consumers |-> FALSE]
    /\ known = [p \in Threads |-> InitSeq]
    /\ until = [p \in Threads |-> InitSeq]
    /\ taken = [p \in Threads |-> <<>>]
    /\ requeue = [p \in Threads |-> <<>>]
    /\ toResume = [p \in Threads |-> <<>>]

-----------------------------------------------------------------------------
(* claim_one(), claim_up_to(n), publish(seq), publish(range) *)

\* The numbers are claimed at the co_await, whether or not there is room.
Claim(p, n) ==
    /\ pc[p] = "running" /\ held[p] = {}
    /\ ((nextToClaim - InitSeq - 1) % W) + n <= MaxClaims
    /\ nextToClaim' = Plus(nextToClaim, n)
    /\ held' = Set(held, p, Numbers(nextToClaim, n))
    /\ Goto(p, "claiming")
    /\ UNCHANGED <<published, awaiters, consumed, waits, known, until, lists>>

\* claim_one() waits for its number, claim_up_to() for the last of its range,
\* of which there are at most buffer_size().
ClaimOne(p) == Claim(p, 1)
ClaimUpTo(p, count) == Claim(p, IF count < Size THEN count ELSE Size)

\* Mutant: the wait is for the first number of the range.
Claimed_First(p) ==
    /\ pc[p] = "claiming"
    /\ ~Precedes(Barrier, Plus(Earliest(held[p]), -Size))
    /\ Goto(p, "running")
    /\ UNCHANGED <<claims, published, awaiters, consumed, waits, known, until, lists>>

Claimed(p) ==
    /\ pc[p] = "claiming"
    /\ ~Precedes(Barrier, Plus(Latest(held[p]), -Size))
    /\ Goto(p, "running")
    /\ UNCHANGED <<claims, published, awaiters, consumed, waits, known, until, lists>>

Store(p, s) ==
    /\ published' = Set(published, Slot(s), s)
    /\ held' = Set(held, p, held[p] \ {s})
    /\ UNCHANGED <<nextToClaim, awaiters, consumed, waits, known, until, lists>>

\* publish(seq), in any order among the numbers of a range.
PublishOne(p, s) ==
    /\ pc[p] = "running"
    /\ s \in held[p]
    /\ Store(p, s)
    /\ Goto(p, "load")

\* publish(range): relaxed stores of all but the first, which are seen in any
\* order, then the first.
PublishRest(p, s) ==
    /\ pc[p] = "running" \/ pc[p] = "storing"
    /\ s \in held[p] /\ s # Earliest(held[p])
    /\ Store(p, s)
    /\ Goto(p, "storing")

PublishFirst(p) ==
    /\ pc[p] = "storing"
    /\ \E s \in held[p] : held[p] = {s} /\ Store(p, s)
    /\ Goto(p, "load")

-----------------------------------------------------------------------------
(* resume_ready_awaiters() *)

LoadAwaiters(p) ==
    /\ pc[p] = "load"
    /\ Goto(p, IF awaiters = <<>> THEN "running" ELSE "take")
    /\ UNCHANGED <<claims, published, awaiters, consumed, waits, known, until, lists>>

\* The exchange, also the second one when an awaiter that was put back is
\* satisfied.  The scan starts after what the first awaiter knew.
TakeAwaiters(p) ==
    /\ pc[p] = "take"
    /\ awaiters' = <<>>
    /\ taken' = Set(taken, p, awaiters)
    /\ \/ /\ awaiters = <<>>
          /\ Goto(p, "resume")
          /\ UNCHANGED known
       \/ \E c \in Consumers :
             /\ awaiters # <<>> /\ c = Head(awaiters)
             /\ Goto(p, "scan")
             /\ known' = Set(known, p, lastKnown[c])
    /\ UNCHANGED <<claims, published, consumed, waits, until, requeue, toResume>>

Next1(p) == Plus(known[p], 1)

\* last_published_after(): one load that finds the next number.
Advance(p) ==
    /\ pc[p] \in {"scan", "check"}
    /\ IsPublished(Next1(p))
    /\ known' = Set(known, p, Next1(p))
    /\ UNCHANGED <<claims, published, awaiters, pc, consumed, waits, until, lists>>

StillWaits(list, s) == Entries(list, {c \in Consumers : Difference(target[c], s) > 0})
IsReady(list, s) == Entries(list, {c \in Consumers : Difference(target[c], s) <= 0})

\* The load that does not find it: the list is divided, and all in it learn
\* how far the scan came.
Divide(p) ==
    LET later == StillWaits(taken[p], known[p])
    IN  /\ pc[p] = "scan"
        /\ ~IsPublished(Next1(p))
        /\ taken' = Set(taken, p, <<>>)
        /\ requeue' = Set(requeue, p, later)
        /\ toResume' = Set(toResume, p, toResume[p] \o IsReady(taken[p], known[p]))
        /\ lastKnown' = [c \in Consumers |->
                            IF c \in ToSet(taken[p]) THEN known[p] ELSE lastKnown[c]]
        /\ IF later = <<>>
           THEN Goto(p, "resume") /\ UNCHANGED until
           ELSE /\ Goto(p, "putBack")
                /\ until' = Set(until, p, Earliest({target[c] : c \in ToSet(later)}))
        /\ UNCHANGED <<claims, published, awaiters, consumed, target, ready, known>>

\* Those who have to wait go in front of whoever came meanwhile.
PutBack(p) ==
    /\ pc[p] = "putBack"
    /\ awaiters' = requeue[p] \o awaiters
    /\ requeue' = Set(requeue, p, <<>>)
    /\ Goto(p, "recheck")
    /\ UNCHANGED <<claims, published, consumed, waits, known, until, taken, toResume>>

\* Mutant: those put back are not looked at again.
Recheck_Never(p) ==
    /\ pc[p] = "recheck"
    /\ Goto(p, "resume")
    /\ UNCHANGED <<claims, published, awaiters, consumed, waits, known, until, lists>>

\* Has the earliest of their numbers been published since the scan?
Recheck(p) ==
    /\ pc[p] = "recheck"
    /\ IF IsPublished(Next1(p))
       THEN /\ known' = Set(known, p, Next1(p))
            /\ Goto(p, IF Next1(p) = until[p] THEN "take" ELSE "recheck")
       ELSE Goto(p, "resume") /\ UNCHANGED known
    /\ UNCHANGED <<claims, published, awaiters, consumed, waits, until, lists>>

\* resume() of the next awaiter, by a producer or by a consumer: the second
\* to set m_ready_to_resume has the coroutine run.
Resume(p, c) ==
    /\ pc[p] = "resume"
    /\ toResume[p] # <<>> /\ c = Head(toResume[p])
    /\ toResume' = Set(toResume, p, Tail(toResume[p]))
    /\ lastKnown' = Set(lastKnown, c, known[p])
    /\ ready' = Set(ready, c, TRUE)
    /\ IF ready[c] THEN Goto(c, "reading") ELSE UNCHANGED pc
    /\ UNCHANGED <<claims, published, awaiters, consumed, target, known,
                   until, taken, requeue>>

PublishReturn(p) ==
    /\ pc[p] = "resume" /\ p \in Producers
    /\ toResume[p] = <<>>
    /\ Goto(p, "running")
    /\ LocalsGone(p)
    /\ UNCHANGED <<claims, published, awaiters, consumed, waits, lists>>

-----------------------------------------------------------------------------
(* co_await wait_until_published(target_seq, last_known_published) *)

\* The caller passes what it has consumed as the last it knows: a number after
\* it always precedes the target, so that await_ready() is false.
WaitUntilPublished(c, n) ==
    /\ pc[c] = "running"
    /\ target' = Set(target, c, Plus(consumed[c], n))
    /\ until' = Set(until, c, Plus(consumed[c], n))
    /\ lastKnown' = Set(lastKnown, c, consumed[c])
    /\ known' = Set(known, c, consumed[c])
    /\ requeue' = Set(requeue, c, <<c>>)
    /\ Goto(c, "enqueue")
    /\ UNCHANGED <<claims, published, awaiters, consumed, ready, taken, toResume>>

\* add_awaiter()
Enqueue(c) ==
    /\ pc[c] = "enqueue"
    /\ awaiters' = requeue[c] \o awaiters
    /\ requeue' = Set(requeue, c, <<>>)
    /\ Goto(c, "check")
    /\ UNCHANGED <<claims, published, consumed, waits, known, until, taken, toResume>>

\* The scan ends; the own number has come or not.
Check(c) ==
    /\ pc[c] = "check"
    /\ ~IsPublished(Next1(c))
    /\ Goto(c, IF Precedes(known[c], until[c]) THEN "resume" ELSE "grab")
    /\ UNCHANGED <<claims, published, awaiters, consumed, waits, known, until, lists>>

\* It has come: the whole list is taken.  What each awaiter in it is compared
\* with is the target of this call and not its own, so that none is put back.
Grab(c) ==
    /\ pc[c] = "grab"
    /\ awaiters' = <<>>
    /\ toResume' = Set(toResume, c, awaiters)
    /\ Goto(c, "resume")
    /\ UNCHANGED <<claims, published, consumed, waits, known, until, taken, requeue>>

\* await_suspend() ends with its own exchange of m_ready_to_resume.
Suspend(c) ==
    /\ pc[c] = "resume" /\ c \in Consumers
    /\ toResume[c] = <<>>
    /\ ready' = Set(ready, c, TRUE)
    /\ Goto(c, IF ready[c] THEN "reading" ELSE "suspended")
    /\ LocalsGone(c)
    /\ UNCHANGED <<claims, published, awaiters, consumed, target, lastKnown, lists>>

\* The consumer has read all up to the result and says so to its barrier; one
\* that got a result before its target reads what there is and waits again,
\* also when the result precedes even what it consumed before.  The operation
\* is gone.
Consume(c) ==
    /\ pc[c] = "reading"
    /\ consumed' = Set(consumed, c, Latest({consumed[c], lastKnown[c]}))
    /\ target' = Set(target, c, InitSeq)
    /\ lastKnown' = Set(lastKnown, c, InitSeq)
    /\ ready' = Set(ready, c, FALSE)
    /\ Goto(c, "running")
    /\ UNCHANGED <<claims, published, awaiters, known, until, lists>>

-----------------------------------------------------------------------------

Publisher(p) ==
    \/ PublishFirst(p) \/ LoadAwaiters(p) \/ TakeAwaiters(p) \/ Advance(p)
    \/ Divide(p) \/ PutBack(p) \/ Recheck(p) \/ PublishReturn(p)
    \/ \E c \in Consumers : Resume(p, c)
Waiter(c) ==
    \/ Enqueue(c) \/ Advance(c) \/ Check(c) \/ Grab(c) \/ Suspend(c)
    \/ \E d \in Consumers : Resume(c, d)

Next ==
    \/ \E p \in Producers :
          \/ Publisher(p) \/ ClaimOne(p) \/ Claimed(p)
          \/ \E n \in 2..Size + 1 : ClaimUpTo(p, n)
          \/ \E s \in held[p] : PublishOne(p, s) \/ PublishRest(p, s)
    \/ \E c \in Consumers :
          \/ Waiter(c) \/ Consume(c)
          \/ \E n \in 1..Size : WaitUntilPublished(c, n)

Spec == Init /\ [][Next]_vars

-----------------------------------------------------------------------------

InCall(p) == pc[p] \notin {"running", "claiming", "suspended", "reading"}

\* The numbers whose slots a thread writes or reads.
Uses(p) ==
    IF p \in Producers
    THEN IF pc[p] = "claiming" THEN {} ELSE held[p]
    ELSE IF pc[p] # "reading" THEN {}
         ELSE Numbers(Plus(consumed[p], 1), Difference(lastKnown[p], consumed[p]))

\* Whatever is claimed, published and consumed in whatever order, nobody
\* writes a slot that another producer writes or that a consumer reads: the
\* wrap around the buffer never catches up with the slowest of them.  A
\* consumer that reads up to its result finds every number on the way
\* published, also those of other producers that published out of order.
SlotsAreExclusive ==
    /\ \A p \in Producers : \A q \in Threads \ {p} :
          \A s \in Uses(p), r \in Uses(q) : Slot(s) # Slot(r)
    /\ \A c \in Consumers : \A s \in Uses(c) : IsPublished(s)

\* FALSE of the code with two consumers: co_await wait_until_published(s)
\* suspends "until the specified 'target_seq' number and all prior sequence
\* numbers have been published".  An awaiter that finds its own number
\* published resumes all the others with it, whatever they wait for.
ResultReachesTarget ==
    \A c \in Consumers : pc[c] = "reading" => ~Precedes(lastKnown[c], target[c])

AllPublished(c) ==
    \A s \in Numbers(Plus(consumed[c], 1), Difference(target[c], consumed[c])) :
        IsPublished(s)

\* Of the race between the last number that is stored and the awaiter that is
\* put (back) into the list one side sees the other: once no call is under
\* way nobody sleeps on numbers that are all published, and whoever sleeps is
\* in the list once.
NobodyLeftBehind ==
    (\A p \in Threads : ~InCall(p)) =>
        \A c \in Consumers :
            pc[c] = "suspended" =>
                ~AllPublished(c) /\ \E i \in DOMAIN awaiters :
                                       \A j \in DOMAIN awaiters : awaiters[j] = c <=> j = i

==============================================================================
