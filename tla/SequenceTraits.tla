---------------------------- MODULE SequenceTraits ----------------------------
(***************************************************************************)
(* coro::sequence_traits: sequence numbers of a fixed width that wrap, and *)
(* are ordered by the sign of their distance.                              *)
(***************************************************************************)
EXTENDS Integers

CONSTANTS
    Size,     \* slots of the ring buffer, a power of two
    W,        \* values of a sequence number, 2^64 in the code
    InitSeq   \* the number before the first

ASSUME SequenceAssumption ==
    /\ Size \in Nat \ {0} /\ W \in Nat
    /\ W % Size = 0 /\ W % 2 = 0 /\ 2 * Size + 2 < W
    /\ InitSeq \in 0..W - 1

Sequence == 0..W - 1
Slot(s) == s % Size
Plus(s, n) == (s + n) % W

\* The distance as a signed number of the same width.
Difference(a, b) ==
    LET d == (a - b) % W IN IF d >= W \div 2 THEN d - W ELSE d
Precedes(a, b) == Difference(a, b) < 0

\* The numbers from first on, n of them.
Numbers(first, n) == {Plus(first, i) : i \in 0..n - 1}
Earliest(S) == CHOOSE s \in S : \A r \in S : ~Precedes(r, s)
Latest(S) == CHOOSE s \in S : \A r \in S : ~Precedes(s, r)

=============================================================================
