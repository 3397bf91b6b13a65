------------------------------ MODULE AwaiterLists ------------------------------
(***************************************************************************)
(* The lists of awaiters of sequence_barrier and multi_producer_sequencer: *)
(* a thread that has taken such a list divides it into those it resumes    *)
(* and those it puts back.                                                 *)
(***************************************************************************)
EXTENDS Naturals, Sequences, FiniteSets

\* The entries of list that are in keep, in their order.  (SelectSeq without its
\* recursion, so that proofs can see what it does.)
Entries(list, keep) ==
    LET kept == {i \in DOMAIN list : list[i] \in keep}
        Nth(k) == CHOOSE i \in kept : Cardinality({j \in kept : j < i}) = k - 1
    IN  [k \in 1..Cardinality(kept) |-> list[Nth(k)]]

=============================================================================
