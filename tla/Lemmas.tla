-------------------------------- MODULE Lemmas --------------------------------
(***************************************************************************)
(* Facts about sequences, finite sets and numbers that the proofs of       *)
(* several components use.                                                 *)
(***************************************************************************)
EXTENDS Integers, AwaiterLists, SequencesExt, FiniteSetTheorems, WellFoundedInduction, TLAPS

-----------------------------------------------------------------------------
(* Sequences, as what they hold *)

In(c, s) == \E i \in 1..Len(s) : s[i] = c
Distinct(s) == \A i, j \in 1..Len(s) : s[i] = s[j] => i = j

LEMMA InToSet == ASSUME NEW S, NEW s \in Seq(S) PROVE \A c : c \in ToSet(s) <=> In(c, s)
BY DEF ToSet, In

\* What the operations on sequences do to what is in them.
LEMMA EmptyHolds ==
    ASSUME NEW S
    PROVE  <<>> \in Seq(S) /\ Distinct(<<>>) /\ \A c : ~In(c, <<>>)
BY DEF Distinct, In

LEMMA TailHolds ==
    ASSUME NEW S, NEW s \in Seq(S), s # <<>>, Distinct(s)
    PROVE  /\ Tail(s) \in Seq(S) /\ Head(s) \in S
           /\ Distinct(Tail(s)) /\ In(Head(s), s)
           /\ \A c : In(c, Tail(s)) <=> In(c, s) /\ c # Head(s)
<1>1. Len(s) \in Nat \ {0} /\ Len(Tail(s)) = Len(s) - 1 /\ Tail(s) \in Seq(S)
  OBVIOUS
<1>2. \A i \in 1..Len(Tail(s)) : Tail(s)[i] = s[i + 1]
  OBVIOUS
<1>3. Head(s) = s[1] /\ Head(s) \in S
  OBVIOUS
<1>4. Distinct(Tail(s)) /\ In(Head(s), s)
  BY <1>1, <1>2, <1>3 DEF Distinct, In
<1>5. ASSUME NEW c, In(c, Tail(s)) PROVE In(c, s) /\ c # Head(s)
  BY <1>1, <1>2, <1>3, <1>5 DEF Distinct, In
<1>6. ASSUME NEW c, In(c, s), c # Head(s) PROVE In(c, Tail(s))
  <2>1. PICK i \in 1..Len(s) : s[i] = c
    BY <1>6 DEF In
  <2>2. i - 1 \in 1..Len(Tail(s)) /\ Tail(s)[i - 1] = c
    BY <1>1, <1>2, <1>3, <1>6, <2>1
  <2> QED BY <2>2 DEF In
<1> QED BY <1>1, <1>3, <1>4, <1>5, <1>6

LEMMA AppendHolds ==
    ASSUME NEW S, NEW s \in Seq(S), NEW x \in S, Distinct(s), ~In(x, s)
    PROVE  /\ Append(s, x) \in Seq(S) /\ Distinct(Append(s, x))
           /\ \A c : In(c, Append(s, x)) <=> In(c, s) \/ c = x
<1>1. /\ Len(s) \in Nat /\ Len(Append(s, x)) = Len(s) + 1
      /\ Append(s, x) \in Seq(S)
  OBVIOUS
<1>2. /\ \A i \in 1..Len(s) : Append(s, x)[i] = s[i]
      /\ Append(s, x)[Len(s) + 1] = x
  OBVIOUS
<1>3. Distinct(Append(s, x))
  BY <1>1, <1>2 DEF Distinct, In
<1>4. ASSUME NEW c PROVE In(c, Append(s, x)) <=> In(c, s) \/ c = x
  BY <1>1, <1>2 DEF In
<1> QED BY <1>1, <1>3, <1>4

LEMMA ConcatHolds ==
    ASSUME NEW S, NEW r \in Seq(S), NEW s \in Seq(S), Distinct(r), Distinct(s),
           \A c \in S : ~(In(c, r) /\ In(c, s))
    PROVE  /\ r \o s \in Seq(S) /\ Distinct(r \o s)
           /\ \A c : In(c, r \o s) <=> In(c, r) \/ In(c, s)
<1>1. /\ Len(r) \in Nat /\ Len(s) \in Nat /\ Len(r \o s) = Len(r) + Len(s)
      /\ r \o s \in Seq(S)
  OBVIOUS
<1>2. /\ \A i \in 1..Len(r) : (r \o s)[i] = r[i] /\ r[i] \in S
      /\ \A i \in 1..Len(s) : (r \o s)[Len(r) + i] = s[i] /\ s[i] \in S
  OBVIOUS
<1>3. \A i \in 1..Len(r \o s) :
          \/ i \in 1..Len(r)
          \/ i - Len(r) \in 1..Len(s) /\ Len(r) + (i - Len(r)) = i
  BY <1>1
<1>4. Distinct(r \o s)
  <2> SUFFICES ASSUME NEW i \in 1..Len(r \o s), NEW j \in 1..Len(r \o s),
                      (r \o s)[i] = (r \o s)[j]
               PROVE  i = j
    BY DEF Distinct
  <2>1. CASE i \in 1..Len(r) /\ j \in 1..Len(r)
    BY <1>2, <2>1 DEF Distinct
  <2>2. CASE i \in 1..Len(r) /\ j \notin 1..Len(r)
    BY <1>2, <1>3, <2>2 DEF In
  <2>3. CASE i \notin 1..Len(r) /\ j \in 1..Len(r)
    BY <1>2, <1>3, <2>3 DEF In
  <2>4. CASE i \notin 1..Len(r) /\ j \notin 1..Len(r)
    <3>1. (r \o s)[i] = s[i - Len(r)] /\ (r \o s)[j] = s[j - Len(r)]
      BY <1>2, <1>3, <2>4
    <3>2. i - Len(r) = j - Len(r)
      BY <1>3, <2>4, <3>1 DEF Distinct
    <3> QED BY <1>1, <3>2
  <2> QED BY <2>1, <2>2, <2>3, <2>4
<1>5. ASSUME NEW c, In(c, r \o s) PROVE In(c, r) \/ In(c, s)
  BY <1>2, <1>3, <1>5 DEF In
<1>6. ASSUME NEW c, In(c, r) PROVE In(c, r \o s)
  BY <1>1, <1>2, <1>6 DEF In
<1>7. ASSUME NEW c, In(c, s) PROVE In(c, r \o s)
  <2>1. PICK i \in 1..Len(s) : s[i] = c
    BY <1>7 DEF In
  <2>2. Len(r) + i \in 1..Len(r \o s) /\ (r \o s)[Len(r) + i] = c
    BY <1>1, <1>2, <2>1
  <2> QED BY <2>2 DEF In
<1> QED BY <1>1, <1>4, <1>5, <1>6, <1>7

LEMMA SingleHolds ==
    ASSUME NEW S, NEW x \in S
    PROVE  <<x>> \in Seq(S) /\ Distinct(<<x>>) /\ \A c : In(c, <<x>>) <=> c = x
BY DEF Distinct, In

\* Types and lengths of the ends of a sequence.
LEMMA TailTypes ==
    ASSUME NEW S, NEW s \in Seq(S), s # <<>>
    PROVE  /\ Tail(s) \in Seq(S) /\ Head(s) \in S
           /\ Len(s) \in Nat \ {0} /\ Len(Tail(s)) = Len(s) - 1
           /\ Len(s) = 1 <=> Tail(s) = <<>>
<1>1. /\ Tail(s) \in Seq(S) /\ Head(s) \in S
      /\ Len(s) \in Nat \ {0} /\ Len(Tail(s)) = Len(s) - 1
  OBVIOUS
<1>2. \A r \in Seq(S) : Len(r) = 0 <=> r = <<>>
  OBVIOUS
<1>3. Len(Tail(s)) = 0 <=> Tail(s) = <<>>
  BY <1>1, <1>2
<1> QED BY <1>1, <1>3

LEMMA JoinTypes ==
    ASSUME NEW S, NEW r \in Seq(S), NEW s \in Seq(S)
    PROVE  r \o s \in Seq(S)
OBVIOUS

LEMMA AppendTypes ==
    ASSUME NEW S, NEW s \in Seq(S), NEW x \in S
    PROVE  Append(s, x) \in Seq(S) /\ Len(s) \in Nat /\ Len(Append(s, x)) = Len(s) + 1
OBVIOUS


-----------------------------------------------------------------------------
(* Finite sets *)

\* Counts of a part of a finite set.
LEMMA PartCounts ==
    ASSUME NEW A, IsFiniteSet(A), NEW P \in SUBSET A
    PROVE  /\ IsFiniteSet(P) /\ Cardinality(P) \in Nat
           /\ Cardinality(P) = 0 <=> P = {}
           /\ \A x \in A : x \notin P => Cardinality(P \cup {x}) = Cardinality(P) + 1
           /\ \A x \in P : Cardinality(P \ {x}) = Cardinality(P) - 1
           /\ \A Q \in SUBSET A : P \subseteq Q => Cardinality(P) <= Cardinality(Q)
<1>1. IsFiniteSet(P) /\ Cardinality(P) \in Nat
  BY FS_Subset, FS_CardinalityType
<1>2. \A Q \in SUBSET A : P \subseteq Q => Cardinality(P) <= Cardinality(Q)
  BY FS_Subset
<1> QED BY <1>1, <1>2, FS_EmptySet, FS_AddElement, FS_RemoveElement

-----------------------------------------------------------------------------
(* Lists of awaiters *)

LEMMA NothingIn ==
    ASSUME NEW S, NEW s \in Seq(S), \A c \in S : ~In(c, s)
    PROVE  s = <<>>
BY DEF In

\* What Entries selects.
LEMMA EntriesHold ==
    ASSUME NEW S, NEW s \in Seq(S), NEW keep
    PROVE  /\ Entries(s, keep) \in Seq(S)
           /\ \A c : In(c, Entries(s, keep)) <=> In(c, s) /\ c \in keep
           /\ Distinct(s) => Distinct(Entries(s, keep))
<1> DEFINE kept == {i \in DOMAIN s : s[i] \in keep}
           n == Cardinality(kept)
           Below(i) == {j \in kept : j < i}
           At(k) == CHOOSE i \in kept : Cardinality(Below(i)) = k - 1
           Rank == [i \in kept |-> Cardinality(Below(i)) + 1]
           r == Entries(s, keep)
<1>1. /\ Len(s) \in Nat /\ DOMAIN s = 1..Len(s)
      /\ kept \subseteq 1..Len(s) /\ IsFiniteSet(1..Len(s))
  BY FS_Interval
<1>2. IsFiniteSet(kept) /\ n \in Nat /\ \A i \in kept : i \in Int
  BY <1>1, FS_Subset, FS_CardinalityType
<1>3. r = [k \in 1..n |-> s[At(k)]]
  BY DEF Entries
<1> HIDE DEF kept
<1>4. ASSUME NEW i \in kept PROVE Rank[i] \in 1..n
  <2>1. Below(i) \in SUBSET kept /\ i \notin Below(i)
    BY <1>2
  <2> HIDE DEF Below
  <2>2. Cardinality(Below(i)) \in Nat /\ Cardinality(Below(i) \cup {i}) = Cardinality(Below(i)) + 1
    BY <1>2, <2>1, PartCounts
  <2>3. Below(i) \cup {i} \in SUBSET kept
    BY <2>1
  <2>4. Cardinality(Below(i) \cup {i}) <= n
    BY <1>2, <2>3, FS_Subset
  <2> QED BY <1>2, <2>2, <2>4
<1>5. ASSUME NEW i \in kept, NEW j \in kept, i < j PROVE Rank[i] < Rank[j]
  <2>1. /\ Below(i) \in SUBSET kept /\ Below(j) \in SUBSET kept /\ i \notin Below(i)
        /\ Below(i) \cup {i} \in SUBSET kept /\ Below(i) \cup {i} \subseteq Below(j)
    BY <1>2, <1>5
  <2> HIDE DEF Below
  <2>2. /\ Cardinality(Below(i)) \in Nat /\ Cardinality(Below(j)) \in Nat
        /\ Cardinality(Below(i) \cup {i}) = Cardinality(Below(i)) + 1
    BY <1>2, <2>1, PartCounts
  <2>3. Cardinality(Below(i) \cup {i}) <= Cardinality(Below(j))
    BY <1>2, <2>1, PartCounts
  <2> QED BY <2>2, <2>3
<1>6. \A i, j \in kept : Rank[i] = Rank[j] => i = j
  <2> SUFFICES ASSUME NEW i \in kept, NEW j \in kept, Rank[i] = Rank[j] PROVE i = j
    OBVIOUS
  <2>1. Rank[i] \in Int /\ Rank[j] \in Int /\ i \in Int /\ j \in Int
    BY <1>2, <1>4
  <2>2. (i < j => Rank[i] < Rank[j]) /\ (j < i => Rank[j] < Rank[i])
    BY <1>5
  <2> HIDE DEF Rank
  <2> QED BY <2>1, <2>2
<1>7. ASSUME NEW k \in 1..n PROVE At(k) \in kept /\ Rank[At(k)] = k
  <2>1. Rank \in Injection(kept, 1..n)
    BY <1>4, <1>6 DEF Injection, IsInjective
  <2>2. IsFiniteSet(1..n) /\ Cardinality(1..n) = n
    BY <1>2, FS_Interval
  <2>3. Rank \in Surjection(kept, 1..n)
    BY <2>1, <2>2, FS_Injection
  <2>4. PICK i \in kept : Rank[i] = k
    BY <2>3 DEF Surjection
  <2>5. Cardinality(Below(i)) = k - 1
    <3>1. Rank[i] = Cardinality(Below(i)) + 1
      OBVIOUS
    <3>2. Below(i) \in SUBSET kept
      OBVIOUS
    <3>3. Cardinality(Below(i)) \in Nat
      BY <1>2, <3>2, PartCounts
    <3> QED BY <2>4, <3>1, <3>3
  <2>6. At(k) \in kept /\ Cardinality(Below(At(k))) = k - 1
    BY <2>5
  <2>7. Rank[At(k)] = k - 1 + 1
    BY <2>6
  <2> QED BY <1>2, <2>6, <2>7
<1>8. ASSUME NEW i \in kept PROVE Rank[i] \in 1..n /\ At(Rank[i]) = i
  <2>1. Rank[i] \in 1..n
    BY <1>4
  <2>2. At(Rank[i]) \in kept /\ Rank[At(Rank[i])] = Rank[i]
    BY <1>7, <2>1
  <2> QED BY <1>6, <2>1, <2>2
<1> HIDE DEF At, Rank, n, r
<1>9. r \in Seq(S) /\ Len(r) = n /\ \A k \in 1..n : r[k] = s[At(k)]
  <2>1. \A k \in 1..n : s[At(k)] \in S
    BY <1>1, <1>7 DEF kept
  <2> QED BY <1>2, <1>3, <2>1
<1>10. ASSUME NEW c, In(c, r) PROVE In(c, s) /\ c \in keep
  BY <1>1, <1>7, <1>9, <1>10 DEF In, kept
<1>11. ASSUME NEW c, In(c, s), c \in keep PROVE In(c, r)
  <2>1. PICK i \in 1..Len(s) : s[i] = c
    BY <1>11 DEF In
  <2>2. i \in kept
    BY <1>1, <1>11, <2>1 DEF kept
  <2>3. Rank[i] \in 1..n /\ r[Rank[i]] = c
    BY <1>8, <1>9, <2>1, <2>2
  <2> QED BY <1>9, <2>3 DEF In
<1>12. ASSUME Distinct(s) PROVE Distinct(r)
  <2> SUFFICES ASSUME NEW k \in 1..n, NEW l \in 1..n, r[k] = r[l] PROVE k = l
    BY <1>9 DEF Distinct
  <2>1. At(k) \in 1..Len(s) /\ At(l) \in 1..Len(s) /\ s[At(k)] = s[At(l)]
    BY <1>1, <1>7, <1>9
  <2>2. At(k) = At(l)
    BY <1>12, <2>1 DEF Distinct
  <2> QED BY <1>7, <2>2
<1> QED BY <1>9, <1>10, <1>11, <1>12 DEF r

-----------------------------------------------------------------------------
(* Numbers *)

\* What makes a number the remainder of another.
LEMMA ModUnique ==
    ASSUME NEW m \in Nat \ {0}, NEW x \in Int, NEW q \in Int, NEW r \in 0..m - 1,
           x = m * q + r
    PROVE  x % m = r
<1>1. r \in Int /\ r < m /\ 0 <= r
  OBVIOUS
<1>2. PICK d \in Int, e \in 0..m - 1 : x = m * d + e /\ e = x % m
  <2>1. x = m * (x \div m) + (x % m) /\ x % m \in 0..m - 1 /\ x \div m \in Int
    OBVIOUS
  <2> QED BY <2>1
<1>3. ASSUME NEW i \in Int, NEW j \in Int, i < j PROVE m * j >= m * i + m
  <2>1. PICK k \in Nat : j = i + 1 + k
    <3>1. j - i - 1 \in Nat /\ j = i + 1 + (j - i - 1)
      BY <1>3
    <3> QED BY <3>1
  <2>2. m * j = m * i + m + m * k /\ m * k \in Nat /\ m * i \in Int
    BY <2>1
  <2> QED BY <2>2
<1>4. PICK a \in Int, b \in Int : a = m * q /\ b = m * d
  OBVIOUS
<1>5. ~(q < d) /\ ~(d < q)
  <2>1. q < d => b >= a + m
    BY <1>3, <1>4
  <2>2. d < q => a >= b + m
    BY <1>3, <1>4
  <2>3. a + r = b + e /\ e \in Int /\ 0 <= e /\ e < m
    BY <1>2, <1>4
  <2> QED BY <1>1, <1>4, <2>1, <2>2, <2>3
<1>6. a = b
  <2>1. q = d
    BY <1>5
  <2> QED BY <1>4, <2>1
<1>7. a + r = b + e
  BY <1>2, <1>4
<1>8. r = e
  BY <1>1, <1>4, <1>6, <1>7
<1> QED BY <1>2, <1>8

LEMMA ModShift ==
    ASSUME NEW m \in Nat \ {0}, NEW x \in Int, NEW k \in Int
    PROVE  (x + m * k) % m = x % m
<1>1. PICK d \in Int, e \in 0..m - 1 : x = m * d + e /\ e = x % m
  <2>1. x = m * (x \div m) + (x % m) /\ x % m \in 0..m - 1 /\ x \div m \in Int
    OBVIOUS
  <2> QED BY <2>1
<1>2. m * (d + k) = m * d + m * k /\ d + k \in Int
  OBVIOUS
<1>3. PICK y \in Int : y = x + m * k
  <2>1. m * k \in Int
    OBVIOUS
  <2> QED BY <2>1
<1>4. y = m * (d + k) + e
  <2>1. PICK a \in Int, b \in Int, c \in Int : a = m * d /\ b = m * k /\ c = m * (d + k)
    OBVIOUS
  <2>2. c = a + b
    BY <1>2, <2>1
  <2>3. x = a + e /\ y = x + b
    BY <1>1, <1>3, <2>1
  <2>4. y = c + e
    BY <2>1, <2>2, <2>3
  <2> QED BY <2>1, <2>4
<1>5. y % m = e
  BY <1>2, <1>4, ModUnique
<1> QED BY <1>1, <1>3, <1>5

\* The remainder of a number next to the range.
LEMMA ModNear ==
    ASSUME NEW m \in Nat \ {0}, NEW x \in Int
    PROVE  /\ x \in 0..m - 1 => x % m = x
           /\ x \in (-m)..(-1) => x % m = x + m
           /\ x \in m..2 * m - 1 => x % m = x - m
<1>1. x = m * 0 + x
  OBVIOUS
<1>2. x = m * (-1) + (x + m)
  OBVIOUS
<1>3. x = m * 1 + (x - m)
  OBVIOUS
<1>4. ASSUME x \in 0..m - 1 PROVE x % m = x
  BY <1>1, <1>4, ModUnique
<1>5. ASSUME x \in (-m)..(-1) PROVE x % m = x + m
  <2>1. x + m \in 0..m - 1 /\ -1 \in Int
    BY <1>5
  <2> QED BY <1>2, <2>1, ModUnique
<1>6. ASSUME x \in m..2 * m - 1 PROVE x % m = x - m
  <2>1. x - m \in 0..m - 1
    BY <1>6
  <2> QED BY <1>3, <2>1, ModUnique
<1> QED BY <1>4, <1>5, <1>6

\* The least of a set of numbers: the prover has no induction, but knows that
\* the order of the natural numbers is well-founded.
LEMMA LeastNatural ==
    ASSUME NEW T, T \subseteq Nat, T # {}
    PROVE  \E x \in T : \A y \in T : x <= y
<1>1. PICK x \in T : \A y \in T : ~(<<y, x>> \in OpToRel(<, Nat))
  <2> DEFINE R == OpToRel(<, Nat)
  <2>1. IsWellFoundedOn(R, Nat)
    BY NatLessThanWellFounded
  <2> HIDE DEF R
  <2>2. \E x \in T : \A y \in T : ~(<<y, x>> \in R)
    BY <2>1, WFMin
  <2> QED BY <2>2 DEF R
<1>2. \A y \in T : ~(<<y, x>> \in {ss \in Nat \X Nat : ss[1] < ss[2]})
  BY <1>1 DEF OpToRel
<1>3. \A y \in T : x \in Nat /\ y \in Nat /\ <<y, x>> \in Nat \X Nat
  OBVIOUS
<1>4. \A y \in T : ~(y < x)
  BY <1>2, <1>3
<1> QED BY <1>3, <1>4

=============================================================================
