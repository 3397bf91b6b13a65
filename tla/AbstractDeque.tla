--------------------------- MODULE AbstractDeque ---------------------------
(***************************************************************************)
(* What a worker's local queue of coro::thread_pool promises: the owner    *)
(* takes the operation it queued last, a thief the one queued first, and   *)
(* each operation is taken once.  `takes' counts how often each was.       *)
(***************************************************************************)
EXTENDS Naturals, Sequences, SequencesExt

CONSTANT Items

VARIABLES items, takes

avars == <<items, takes>>

AInit == items = <<>> /\ takes = [x \in Items |-> 0]

APush(x) ==
    /\ items' = Append(items, x)
    /\ UNCHANGED takes

APopNewest ==
    /\ items # <<>>
    /\ items' = Front(items)
    /\ takes' = [takes EXCEPT ![Last(items)] = @ + 1]

AStealOldest ==
    /\ items # <<>>
    /\ items' = Tail(items)
    /\ takes' = [takes EXCEPT ![Head(items)] = @ + 1]

ANext ==
    \/ \E x \in Items : APush(x)
    \/ APopNewest
    \/ AStealOldest

ASpec == AInit /\ [][ANext]_avars

=============================================================================
