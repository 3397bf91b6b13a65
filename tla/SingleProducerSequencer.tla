------------------------ MODULE SingleProducerSequencer ------------------------
(***************************************************************************)
(* coro::single_producer_sequencer and the sequence_range it hands out: one*)
(* producer claims slots of a ring buffer, waits on the barrier of the     *)
(* consumers for the slot of the first, and publishes on a barrier of its  *)
(* own.  The wait operation of a barrier is module SequenceBarrier; here   *)
(* it is what its result is known to be, a number that was published when  *)
(* the operation was made or resumed and does not precede the one waited   *)
(* for.                                                                    *)
(***************************************************************************)
EXTENDS SequenceTraits

CONSTANT MaxCount    \* bound: slots asked for in a call

ASSUME CountAssumption == MaxCount \in Nat

VARIABLES
    claimed,      \* m_next_to_claim
    producer,     \* last_published() of m_producer_barrier
    consumer,     \* last_published() of m_consumer_barrier
    at,           \* where the producer's coroutine is
    count,        \* m_count of its claim operation, 0 for claim_one()
    lastSeen,     \* m_last_known_published of its m_consumer_wait_op
    range,        \* the numbers it has claimed: [begin |-> , end |-> ]
    reads         \* the last number the consumer may read

singleVars == <<claimed, producer, consumer, at, count, lastSeen, range, reads>>

\* sequence_range
Back(r) == Plus(r.end, -1)
RangeSize(r) == Difference(r.end, r.begin)
Empty(r) == r.begin = r.end
Skip(r, n) ==
    [r EXCEPT !.begin = Plus(@, IF n < RangeSize(r) THEN n ELSE RangeSize(r))]
Elements(r) == Numbers(r.begin, RangeSize(r))

SingleInit ==
    /\ claimed = Plus(InitSeq, 1)
    /\ producer = InitSeq /\ consumer = InitSeq /\ reads = InitSeq
    /\ at = "running" /\ count = 0 /\ lastSeen = InitSeq
    /\ range = [begin |-> Plus(InitSeq, 1), end |-> Plus(InitSeq, 1)]

\* What is waited for: the number whose slot the next one reuses.
WaitsFor == Plus(claimed, -Size)

\* claim_one() if n is 0, else claim_up_to(n); the barrier is read at once.
ClaimSlots(n) ==
    /\ at = "running" /\ Empty(range)
    /\ count' = n
    /\ lastSeen' = consumer
    /\ at' = IF Precedes(consumer, WaitsFor) THEN "waiting" ELSE "ready"
    /\ UNCHANGED <<claimed, producer, consumer, range, reads>>

\* The barrier resumes the coroutine with what was published then.
ClaimResumed ==
    /\ at = "waiting"
    /\ ~Precedes(consumer, WaitsFor)
    /\ lastSeen' = consumer
    /\ at' = "ready"
    /\ UNCHANGED <<claimed, producer, consumer, count, range, reads>>

\* Mutant: the slot after the last one counts as available, too.
Available_OneMore == ((Plus(lastSeen, Size) - claimed) % W) + 2

\* last_available_seq - begin, plus one, as unsigned numbers.
Available == ((Plus(lastSeen, Size) - claimed) % W) + 1

\* await_resume(): one slot, or as many as are available of those asked for.
ClaimDone ==
    LET n == IF count = 0 THEN 1 ELSE IF count < Available THEN count ELSE Available
    IN  /\ at = "ready"
        /\ range' = [begin |-> claimed, end |-> Plus(claimed, n)]
        /\ claimed' = Plus(claimed, n)
        /\ at' = "running" /\ count' = 0 /\ lastSeen' = InitSeq
        /\ UNCHANGED <<producer, consumer, reads>>

\* publish(range) publishes its last number, publish(seq) the next one.
PublishRange ==
    /\ at = "running" /\ ~Empty(range)
    /\ producer' = Back(range)
    /\ range' = Skip(range, RangeSize(range))
    /\ UNCHANGED <<claimed, consumer, at, count, lastSeen, reads>>

PublishNext ==
    /\ at = "running" /\ ~Empty(range)
    /\ producer' = range.begin
    /\ range' = Skip(range, 1)
    /\ UNCHANGED <<claimed, consumer, at, count, lastSeen, reads>>

\* The consumer: wait_until_published() of its next number yields the last
\* published one; it tells its barrier as it goes.
Read ==
    /\ reads = consumer /\ reads # producer
    /\ reads' = producer
    /\ UNCHANGED <<claimed, producer, consumer, at, count, lastSeen, range>>

Release ==
    /\ Precedes(consumer, reads)
    /\ \E n \in 1..Difference(reads, consumer) : consumer' = Plus(consumer, n)
    /\ UNCHANGED <<claimed, producer, at, count, lastSeen, range, reads>>

SingleNext ==
    \/ ClaimResumed \/ ClaimDone \/ PublishRange \/ PublishNext \/ Read \/ Release
    \/ \E n \in 0..MaxCount : ClaimSlots(n)

SingleSpec == SingleInit /\ [][SingleNext]_singleVars

-----------------------------------------------------------------------------

\* However the producer claims and the consumer lags, it never writes a slot
\* that the consumer may still read, nor two numbers into one slot; and never
\* is a number published that it has not claimed.  The producer waits only
\* while there is a published number that the consumer can release.
WriterStaysAhead ==
    /\ \A s \in Elements(range) :
          /\ Precedes(reads, s) /\ Precedes(producer, s)
          /\ Difference(s, consumer) \in 1..Size
    /\ Difference(claimed, producer) = RangeSize(range) + 1
    /\ ~Precedes(producer, reads) /\ ~Precedes(reads, consumer)
    /\ at = "waiting" /\ Precedes(consumer, WaitsFor) => Precedes(consumer, producer)

=============================================================================
