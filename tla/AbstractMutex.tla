--------------------------- MODULE AbstractMutex ---------------------------
(***************************************************************************)
(* What coro::async_mutex promises its users: one owner at a time, waiters *)
(* served in the order in which they queued, and no acquisition that       *)
(* overtakes the queue.  `owner' is the empty set or a singleton.          *)
(***************************************************************************)
EXTENDS Sequences

CONSTANT Coroutines

VARIABLES owner, queue

avars == <<owner, queue>>

AInit == owner = {} /\ queue = <<>>

\* A coroutine may take a free mutex only when nobody is queued for it.
AAcquire(c) ==
    /\ owner = {}
    /\ queue = <<>>
    /\ owner' = {c}
    /\ UNCHANGED queue

\* A coroutine queues behind every coroutine already queued.
AEnqueue(c) ==
    /\ owner # {}
    /\ queue' = Append(queue, c)
    /\ UNCHANGED owner

\* Releasing with nobody queued frees the mutex.
ARelease ==
    /\ owner # {}
    /\ queue = <<>>
    /\ owner' = {}
    /\ UNCHANGED queue

\* Releasing with a queue passes the mutex to the longest waiting coroutine.
AHandOff ==
    /\ owner # {}
    /\ queue # <<>>
    /\ owner' = {Head(queue)}
    /\ queue' = Tail(queue)

ANext ==
    \/ \E c \in Coroutines : AAcquire(c) \/ AEnqueue(c)
    \/ ARelease
    \/ AHandOff

ASpec == AInit /\ [][ANext]_avars

=============================================================================
