--------------------------- MODULE SequenceBarrier ---------------------------
(***************************************************************************)
(* coro::sequence_barrier: one producer publishes sequence numbers, and    *)
(* coroutines wait until theirs is published.  The waiters form a          *)
(* lock-free list; the producer, and an awaiter that finds on its way to   *)
(* sleep that its number has come, take the whole list, resume who is      *)
(* ready and put the others back.                                          *)
(*                                                                         *)
(* An action is one atomic operation on m_last_published, m_awaiters or    *)
(* m_ready_to_resume with the local work that follows it; the loop around  *)
(* a compare_exchange_weak that puts waiters in front of the list is one   *)
(* step.  publish() names a member m_target_seq that the operation does    *)
(* not have; it is read as m_target_sequence.                              *)
(***************************************************************************)
EXTENDS Integers, AwaiterLists, SequencesExt

CONSTANTS
    BarrierAwaiters, \* coroutines, each with the thread that runs it
    Producer,        \* the thread that calls publish()
    W,               \* values of sequence, 2^64 in the code
    Ahead,           \* how far ahead of last_published() a target is chosen
    MaxPublished,    \* bound: sequence numbers published in a behaviour
    MaxWaits         \* bound: waits of one coroutine

ASSUME BarrierAssumption ==
    /\ Producer \notin BarrierAwaiters
    /\ W \in Nat \ {0} /\ W % 2 = 0 /\ Ahead \in Nat
    /\ MaxPublished \in Nat /\ MaxPublished + Ahead < W \div 2
    /\ MaxWaits \in Nat

Threads == BarrierAwaiters \cup {Producer}

VARIABLES
    lastPublished,  \* m_last_published
    bAwaiters,      \* the list at m_awaiters, head first
    bPc,            \* where each thread, or a suspended coroutine, is
    target,         \* m_target_sequence of each wait operation
    lastKnown,      \* m_last_known_published of each wait operation
    ready,          \* m_ready_to_resume of each wait operation
    requeue,        \* awaiters_to_requeue of each thread
    toResume,       \* awaiters_to_resume of each thread
    known,          \* last_known_published, or seq in publish(), of each thread
    until,          \* target_sequence, the local of add_awaiter()
    waits,          \* waits so far of each coroutine
    published,      \* sequence numbers published so far
    unseen          \* did the latest publish() see no awaiter before it stored?

barrierVars == <<lastPublished, bAwaiters, bPc, target, lastKnown, ready, requeue,
                 toResume, known, until, waits, published, unseen>>
counts == <<waits, published>>

Goto(p, at) == bPc' = [bPc EXCEPT ![p] = at]
With(f, p, v) == [f EXCEPT ![p] = v]

\* sequence_traits: the distance as a signed number of the same width.
Difference(a, b) ==
    LET d == (a - b) % W IN IF d >= W \div 2 THEN d - W ELSE d
Precedes(a, b) == Difference(a, b) < 0

BarrierInit ==
    /\ lastPublished = W - 1
    /\ bAwaiters = <<>>
    /\ bPc = [p \in Threads |-> "running"]
    /\ target = [a \in BarrierAwaiters |-> W - 1]
    /\ lastKnown = [a \in BarrierAwaiters |-> W - 1]
    /\ ready = [a \in BarrierAwaiters |-> FALSE]
    /\ requeue = [p \in Threads |-> <<>>]
    /\ toResume = [p \in Threads |-> <<>>]
    /\ known = [p \in Threads |-> W - 1]
    /\ until = [a \in BarrierAwaiters |-> W - 1]
    /\ waits = [a \in BarrierAwaiters |-> 0]
    /\ published = 0
    /\ unseen = FALSE

-----------------------------------------------------------------------------
(* co_await wait_until_published(s) *)

\* The operation reads last_published(); await_ready() compares with it.
WaitUntilPublished(a, s) ==
    /\ bPc[a] = "running"
    /\ waits[a] < MaxWaits
    /\ waits' = With(waits, a, waits[a] + 1)
    /\ target' = With(target, a, s)
    /\ lastKnown' = With(lastKnown, a, lastPublished)
    /\ ready' = With(ready, a, FALSE)
    /\ IF Precedes(lastPublished, s)
       THEN /\ requeue' = With(requeue, a, <<a>>)
            /\ until' = With(until, a, s)
            /\ Goto(a, "enqueue")
       ELSE UNCHANGED <<requeue, until, bPc>>
    /\ UNCHANGED <<lastPublished, bAwaiters, toResume, known, published, unseen>>

\* add_awaiter(): the own awaiter, or those put back, go to the front.
Enqueue(a) ==
    /\ bPc[a] = "enqueue"
    /\ bAwaiters' = requeue[a] \o bAwaiters
    /\ requeue' = With(requeue, a, <<>>)
    /\ Goto(a, "check")
    /\ UNCHANGED <<lastPublished, target, lastKnown, ready, toResume, known,
                   until, counts, unseen>>

\* Has the earliest of their numbers been published meanwhile?
Check(a) ==
    /\ bPc[a] = "check"
    /\ known' = With(known, a, lastPublished)
    /\ Goto(a, IF Precedes(lastPublished, until[a]) THEN "resume" ELSE "take")
    /\ UNCHANGED <<lastPublished, bAwaiters, target, lastKnown, ready, requeue,
                   toResume, until, counts, unseen>>

\* Who of the list has still to wait for a number later than s.
StillWaits(list, s) == Entries(list, {b \in BarrierAwaiters : Difference(target[b], s) > 0})
IsReady(list, s) == Entries(list, {b \in BarrierAwaiters : Difference(target[b], s) <= 0})

\* The smallest of their distances, max() of difference_type if there is none.
MinDiff(list, s) ==
    LET diffs == {Difference(target[list[i]], s) : i \in DOMAIN list}
                     \cup {W \div 2 - 1}
    IN  CHOOSE d \in diffs : \A e \in diffs : d <= e

\* Mutant: the search for the smallest distance starts at zero.
Take_ZeroDiff(a) ==
    LET later == StillWaits(bAwaiters, known[a])
    IN  /\ bPc[a] = "take"
        /\ bAwaiters' = <<>>
        /\ requeue' = With(requeue, a, later)
        /\ toResume' = With(toResume, a, toResume[a] \o IsReady(bAwaiters, known[a]))
        /\ until' = With(until, a, known[a])
        /\ Goto(a, IF later = <<>> THEN "resume" ELSE "enqueue")
        /\ UNCHANGED <<lastPublished, target, lastKnown, ready, known, counts, unseen>>

\* Mutant: the awaiters that were put back are looked after by nobody.
Take_KeepTarget(a) ==
    LET later == StillWaits(bAwaiters, known[a])
    IN  /\ bPc[a] = "take"
        /\ bAwaiters' = <<>>
        /\ requeue' = With(requeue, a, later)
        /\ toResume' = With(toResume, a, toResume[a] \o IsReady(bAwaiters, known[a]))
        /\ until' = With(until, a, (known[a] + W \div 2 - 1) % W)
        /\ Goto(a, IF later = <<>> THEN "resume" ELSE "enqueue")
        /\ UNCHANGED <<lastPublished, target, lastKnown, ready, known, counts, unseen>>

\* Then the whole list is taken and divided.
Take(a) ==
    LET later == StillWaits(bAwaiters, known[a])
    IN  /\ bPc[a] = "take"
        /\ bAwaiters' = <<>>
        /\ requeue' = With(requeue, a, later)
        /\ toResume' = With(toResume, a, toResume[a] \o IsReady(bAwaiters, known[a]))
        /\ until' = With(until, a, (known[a] + MinDiff(later, known[a])) % W)
        /\ Goto(a, IF later = <<>> THEN "resume" ELSE "enqueue")
        /\ UNCHANGED <<lastPublished, target, lastKnown, ready, known, counts, unseen>>

\* resume() of the next awaiter that is ready, by an awaiter or the producer.
\* The scheduler that a coroutine is resumed on runs it in the end.
Resume(p) ==
    LET a == Head(toResume[p])
    IN  /\ bPc[p] = "resume"
        /\ toResume[p] # <<>>
        /\ toResume' = With(toResume, p, Tail(toResume[p]))
        /\ lastKnown' = With(lastKnown, a, known[p])
        /\ ready' = With(ready, a, TRUE)
        /\ IF ready[a] THEN Goto(a, "running") ELSE UNCHANGED bPc
        /\ UNCHANGED <<lastPublished, bAwaiters, target, requeue, known, until,
                       counts, unseen>>

\* await_suspend() ends with its own exchange of m_ready_to_resume.
Suspend(a) ==
    /\ bPc[a] = "resume"
    /\ toResume[a] = <<>>
    /\ ready' = With(ready, a, TRUE)
    /\ Goto(a, IF ready[a] THEN "running" ELSE "suspended")
    /\ UNCHANGED <<lastPublished, bAwaiters, target, lastKnown, requeue,
                   toResume, known, until, counts, unseen>>

-----------------------------------------------------------------------------
(* publish(seq) *)

\* Is anybody waiting?
Publish(n) ==
    /\ bPc[Producer] = "running"
    /\ published + n <= MaxPublished
    /\ published' = published + n
    /\ known' = With(known, Producer, (lastPublished + n) % W)
    /\ unseen' = (bAwaiters = <<>>)
    /\ Goto(Producer, "store")
    /\ UNCHANGED <<lastPublished, bAwaiters, target, lastKnown, ready, requeue,
                   toResume, until, waits>>

\* If nobody is, publish() returns after it has stored the number.
Store ==
    /\ bPc[Producer] = "store"
    /\ lastPublished' = known[Producer]
    /\ Goto(Producer, IF unseen THEN "running" ELSE "takeAll")
    /\ UNCHANGED <<bAwaiters, target, lastKnown, ready, requeue, toResume, known,
                   until, counts, unseen>>

TakeAll ==
    LET later == StillWaits(bAwaiters, known[Producer])
    IN  /\ bPc[Producer] = "takeAll"
        /\ bAwaiters' = <<>>
        /\ requeue' = With(requeue, Producer, later)
        /\ toResume' = With(toResume, Producer, IsReady(bAwaiters, known[Producer]))
        /\ Goto(Producer, IF bAwaiters = <<>> THEN "running"
                          ELSE IF later = <<>> THEN "resume" ELSE "putBack")
        /\ UNCHANGED <<lastPublished, target, lastKnown, ready, known, until,
                       counts, unseen>>

\* Mutant: what has been put into the list meanwhile is overwritten.
PutBack_Store ==
    /\ bPc[Producer] = "putBack"
    /\ bAwaiters' = requeue[Producer]
    /\ requeue' = With(requeue, Producer, <<>>)
    /\ Goto(Producer, "resume")
    /\ UNCHANGED <<lastPublished, target, lastKnown, ready, toResume, known,
                   until, counts, unseen>>

PutBack ==
    /\ bPc[Producer] = "putBack"
    /\ bAwaiters' = requeue[Producer] \o bAwaiters
    /\ requeue' = With(requeue, Producer, <<>>)
    /\ Goto(Producer, "resume")
    /\ UNCHANGED <<lastPublished, target, lastKnown, ready, toResume, known,
                   until, counts, unseen>>

PublishReturn ==
    /\ bPc[Producer] = "resume"
    /\ toResume[Producer] = <<>>
    /\ Goto(Producer, "running")
    /\ UNCHANGED <<lastPublished, bAwaiters, target, lastKnown, ready, requeue,
                   toResume, known, until, counts, unseen>>

-----------------------------------------------------------------------------

\* What a thread does once it is in a call.
Awaiter(a) == Enqueue(a) \/ Check(a) \/ Take(a) \/ Resume(a) \/ Suspend(a)
Publisher == Store \/ TakeAll \/ PutBack \/ Resume(Producer) \/ PublishReturn

BarrierNext ==
    \/ Publisher \/ \E n \in 1..2 : Publish(n)
    \/ \E a \in BarrierAwaiters :
          \/ Awaiter(a)
          \/ \E n \in 0..Ahead : WaitUntilPublished(a, (lastPublished + n) % W)

\* Every call goes on; nobody has to publish or to wait.
BarrierSpec ==
    /\ BarrierInit /\ [][BarrierNext]_barrierVars
    /\ \A a \in BarrierAwaiters : WF_barrierVars(Awaiter(a))
    /\ WF_barrierVars(Publisher)

-----------------------------------------------------------------------------

Sequence == 0..W - 1
InCall(p) == bPc[p] \notin {"running", "suspended"}

\* Types of the state.
BarrierTypeOK ==
    /\ lastPublished \in Sequence
    /\ bAwaiters \in Seq(BarrierAwaiters)
    /\ bPc \in [Threads -> {"running", "enqueue", "check", "take", "resume",
                           "suspended", "store", "takeAll", "putBack"}]
    /\ target \in [BarrierAwaiters -> Sequence]
    /\ lastKnown \in [BarrierAwaiters -> Sequence]
    /\ ready \in [BarrierAwaiters -> BOOLEAN]
    /\ requeue \in [Threads -> Seq(BarrierAwaiters)]
    /\ toResume \in [Threads -> Seq(BarrierAwaiters)]
    /\ known \in [Threads -> Sequence]
    /\ until \in [BarrierAwaiters -> Sequence]

\* The lists that awaiter a is in.
ListsWith(a) ==
    (IF a \in ToSet(bAwaiters) THEN {"shared"} ELSE {})
        \cup {<<"requeue", p>> : p \in {q \in Threads : a \in ToSet(requeue[q])}}
        \cup {<<"toResume", p>> : p \in {q \in Threads : a \in ToSet(toResume[q])}}

\* However the lists are taken, divided and put back, a suspended coroutine is
\* in exactly one of them, so somebody can still resume it and nobody twice;
\* one that runs is in none, since its operation may be gone.
InOneList ==
    /\ IsInjective(bAwaiters)
    /\ \A a \in BarrierAwaiters :
          /\ bPc[a] = "suspended" => \E x \in ListsWith(a) : ListsWith(a) = {x}
          /\ bPc[a] = "running" => ListsWith(a) = {}

\* An awaiter sleeps on a published number when no call is under way only if
\* the publish() that should have resumed it saw an empty list beforehand.
\* The check after Enqueue(), the recheck for those put back and the long way
\* through publish() leave nobody behind.
LeftBehindOnlyIfUnseen ==
    (\A p \in Threads : ~InCall(p)) =>
        \A a \in BarrierAwaiters :
            bPc[a] = "suspended" /\ ~Precedes(lastPublished, target[a]) => unseen

\* Every call returns, also the loop in add_awaiter() that puts others back.
CallsReturn == \A p \in Threads : InCall(p) ~> ~InCall(p)

\* A coroutine is resumed inside the call to publish() that publishes its
\* number, or by the awaiter that noticed: it does not stay suspended.
PublishedIsResumed ==
    \A a \in BarrierAwaiters :
        (bPc[a] = "suspended" /\ ~Precedes(lastPublished, target[a]))
            ~> bPc[a] # "suspended"

=============================================================================
