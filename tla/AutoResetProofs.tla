--------------------------- MODULE AutoResetProofs ---------------------------
(***************************************************************************)
(* Proofs about AsyncAutoResetEvent, for any processes and any finite set  *)
(* of awaiters, when reset() has the event to itself: the word stays what  *)
(* its two halves and the lists say, whoever becomes the resumer.          *)
(***************************************************************************)
EXTENDS AsyncAutoResetEvent, FiniteSetTheorems, TLAPS

Words == 0..W * W - 1

\* await_suspend() of c has a reference to its operation.
Suspending(c) ==
    \/ pc[c] \in {"count", "release"}
    \/ pc[c] \in {"move", "wake"} /\ ret[c] = "release"

Listed(c) ==
    \/ c \in ToSet(mNewWaiters)
    \/ c \in ToSet(mWaiters)
    \/ \E p \in Processes : c \in ToSet(resumeList[p])

\* The two references: one of the list the operation is on, one of its own
\* await_suspend().  Who is on a list has suspended or is about to.
ReferenceInv(c) ==
    /\ refCount[c] = (IF Listed(c) THEN 1 ELSE 0) + (IF Suspending(c) THEN 1 ELSE 0)
    /\ Listed(c) => Suspending(c) \/ pc[c] = "suspended"

\* No operation is on two lists, or twice on one.
ListsInv ==
    /\ IsInjective(mNewWaiters) /\ IsInjective(mWaiters)
    /\ ToSet(mNewWaiters) \cap ToSet(mWaiters) = {}
    /\ \A p \in Processes :
          /\ IsInjective(resumeList[p])
          /\ ToSet(resumeList[p]) \cap ToSet(mNewWaiters) = {}
          /\ ToSet(resumeList[p]) \cap ToSet(mWaiters) = {}
    /\ \A p, q \in Processes : p # q => ToSet(resumeList[p]) \cap ToSet(resumeList[q]) = {}

\* What a resumer has moved and not yet taken off the counts.
Moved(p) == IF pc[p] = "move" THEN count[p] - todo[p] ELSE 0

Uncounted == {p \in Processes : pc[p] = "count"}
Counted == WaiterCount(mState) + Cardinality(Uncounted)
InLists == Len(mNewWaiters) + Len(mWaiters)

\* The resumer is alone, both halves cover what it is about to take off, and
\* its list holds at least what it has moved in this round.
ResumerInv ==
    /\ \A p, q \in Processes : pc[p] = "move" /\ pc[q] = "move" => p = q
    /\ \A p \in Processes :
          /\ pc[p] = "move" =>
                /\ 0 < count[p]
                /\ todo[p] <= count[p]
                /\ count[p] <= SetCount(mState)
                /\ count[p] <= WaiterCount(mState)
                /\ count[p] - todo[p] <= Len(resumeList[p])
                /\ Counted = InLists + count[p] - todo[p]
          /\ pc[p] = "wake" => resumeList[p] # <<>>
          /\ pc[p] \notin {"move", "wake"} => resumeList[p] = <<>>
          /\ Suspending(p) \/ pc[p] \in {"awaitCas", "push", "suspended"} => p \in Awaiters

\* With nobody resuming, one of the halves is empty.
RestInv ==
    (\A p \in Processes : pc[p] # "move") =>
        /\ Counted = InLists
        /\ SetCount(mState) = 0 \/ WaiterCount(mState) = 0

\* An event is at most set once beyond its waiters; who saw it set remembers
\* a word that says so.
SetInv ==
    /\ SetCount(mState) <= WaiterCount(mState) + 1
    /\ \A p \in Processes :
          /\ pc[p] \in {"awaitCas", "reset"} =>
                SetCount(old[p]) > WaiterCount(old[p])
          /\ pc[p] = "reset" =>
                /\ old[p] = mState
                /\ \A q \in Processes : q = p \/ pc[q] \in {"idle", "suspended"}

EventInv ==
    /\ TypeOK
    /\ \A c \in Awaiters : ReferenceInv(c)
    /\ ListsInv
    /\ ResumerInv
    /\ RestInv
    /\ SetInv

-----------------------------------------------------------------------------
\* The word as two halves.

LEMMA Split ==
    ASSUME W \in Nat, W > 0, NEW m \in Nat
    PROVE  /\ SetCount(m) \in Halves
           /\ WaiterCount(m) \in Nat
           /\ m = SetCount(m) + W * WaiterCount(m)
BY DEF SetCount, WaiterCount, Halves

LEMMA OneSplit ==
    ASSUME W \in Nat, W > 0, NEW m \in Nat,
           NEW a \in Halves, NEW b \in Nat, m = a + W * b
    PROVE  SetCount(m) = a /\ WaiterCount(m) = b
<1> DEFINE c == SetCount(m)
           d == WaiterCount(m)
<1>1. c \in Halves /\ d \in Nat /\ a + W * b = c + W * d
  BY Split
<1> HIDE DEF c, d
<1> USE DEF Halves
<1>2. ASSUME NEW x \in Nat, NEW y \in Nat, x < y
      PROVE  W * y >= W * x + W
  <2>1. y - x - 1 \in Nat /\ y = x + 1 + (y - x - 1)
    BY <1>2
  <2>2. PICK k \in Nat : y = x + 1 + k
    BY <2>1
  <2>3. W * y = W * x + W + W * k /\ W * k \in Nat
    BY <2>2
  <2> QED BY <2>3
<1>3. W * b \in Nat /\ W * d \in Nat
  BY <1>1
<1>4. ~(b < d) /\ ~(d < b)
  BY <1>1, <1>2, <1>3
<1>5. b = d
  BY <1>1, <1>4
<1> QED BY <1>1, <1>3, <1>5 DEF c, d

\* Adding to the two halves of a word, when neither overflows or borrows.
LEMMA AddToHalves ==
    ASSUME W \in Nat, W > 0, NEW m \in Words, NEW n \in Int,
           NEW i \in Int, NEW j \in Int, n = i + W * j,
           SetCount(m) + i \in Halves, WaiterCount(m) + j \in Halves
    PROVE  /\ Sum64(m, n) \in Words
           /\ SetCount(Sum64(m, n)) = SetCount(m) + i
           /\ WaiterCount(Sum64(m, n)) = WaiterCount(m) + j
<1> DEFINE a == SetCount(m) + i
           b == WaiterCount(m) + j
<1>1. SetCount(m) \in Halves /\ WaiterCount(m) \in Nat /\ m = SetCount(m) + W * WaiterCount(m)
  BY Split DEF Words
<1>2. m + n = a + W * b
  <2>1. W * (WaiterCount(m) + j) = W * WaiterCount(m) + W * j
    BY <1>1
  <2> QED BY <1>1, <2>1 DEF Halves
<1>3. W * b \in 0..W * (W - 1)
  BY DEF Halves
<1>4. a + W * b \in Words
  BY <1>3 DEF Halves, Words
<1>5. Sum64(m, n) = a + W * b
  <2>1. (a + W * b) % (W * W) = a + W * b
    BY <1>4 DEF Words
  <2> QED BY <1>2, <2>1 DEF Sum64
<1> HIDE DEF a, b
<1>6. a \in Halves /\ b \in Halves
  BY DEF a, b
<1>7. SetCount(a + W * b) = a /\ WaiterCount(a + W * b) = b
  <2>1. a + W * b \in Nat /\ b \in Nat
    BY <1>4, <1>6 DEF Words, Halves
  <2> QED BY <1>6, <2>1, OneSplit
<1> QED BY <1>4, <1>5, <1>7 DEF a, b

-----------------------------------------------------------------------------
\* Lists without repetitions.

LEMMA EmptyList == ToSet(<<>>) = {} /\ IsInjective(<<>>)
BY DEF ToSet, IsInjective

LEMMA PushFront ==
    ASSUME NEW S, NEW s \in Seq(S), NEW c \in S
    PROVE  /\ <<c>> \o s \in Seq(S)
           /\ Len(<<c>> \o s) = Len(s) + 1
           /\ ToSet(<<c>> \o s) = ToSet(s) \cup {c}
           /\ IsInjective(s) /\ c \notin ToSet(s) => IsInjective(<<c>> \o s)
<1> DEFINE t == <<c>> \o s
<1>1. /\ t \in Seq(S) /\ Len(t) = Len(s) + 1 /\ Len(s) \in Nat /\ t[1] = c
      /\ \A i \in 2..Len(t) : t[i] = s[i - 1]
  OBVIOUS
<1>2. DOMAIN t = 1..Len(t) /\ DOMAIN s = 1..Len(s)
  OBVIOUS
<1> HIDE DEF t
<1>3. \A i \in 1..Len(s) : i + 1 \in 1..Len(t) /\ t[i + 1] = s[i]
  BY <1>1
<1>4. ToSet(t) = ToSet(s) \cup {c}
  <2>1. ASSUME NEW i \in 1..Len(t) PROVE t[i] \in ToSet(s) \cup {c}
    <3>1. CASE i = 1
      BY <1>1, <3>1
    <3>2. CASE i # 1
      BY <1>1, <1>2, <3>2 DEF ToSet
    <3> QED BY <3>1, <3>2
  <2>2. ASSUME NEW i \in 1..Len(s) PROVE s[i] \in ToSet(t)
    BY <1>2, <1>3 DEF ToSet
  <2>3. c \in ToSet(t)
    BY <1>1, <1>2 DEF ToSet
  <2>4. ToSet(t) \subseteq ToSet(s) \cup {c}
    BY <1>2, <2>1 DEF ToSet
  <2>5. ToSet(s) \subseteq ToSet(t)
    BY <1>2, <2>2 DEF ToSet
  <2> QED BY <2>3, <2>4, <2>5
<1>5. ASSUME IsInjective(s), c \notin ToSet(s) PROVE IsInjective(t)
  <2>1. ASSUME NEW i \in 1..Len(t), NEW j \in 1..Len(t), t[i] = t[j] PROVE i = j
    <3>1. CASE i = 1 \/ j = 1
      BY <1>1, <1>2, <1>5, <2>1, <3>1 DEF ToSet
    <3>2. CASE i # 1 /\ j # 1
      <4>1. /\ i - 1 \in 1..Len(s) /\ j - 1 \in 1..Len(s)
            /\ t[i] = s[i - 1] /\ t[j] = s[j - 1]
        BY <1>1, <3>2
      <4>2. i - 1 = j - 1
        BY <1>2, <1>5, <2>1, <4>1 DEF IsInjective
      <4> QED BY <4>2
    <3> QED BY <3>1, <3>2
  <2> QED BY <1>2, <2>1 DEF IsInjective
<1> QED BY <1>1, <1>4, <1>5 DEF t

LEMMA PopFront ==
    ASSUME NEW S, NEW s \in Seq(S), s # <<>>
    PROVE  /\ Head(s) \in S /\ Tail(s) \in Seq(S)
           /\ Len(Tail(s)) = Len(s) - 1
           /\ Head(s) \in ToSet(s)
           /\ IsInjective(s) => /\ ToSet(Tail(s)) = ToSet(s) \ {Head(s)}
                                /\ IsInjective(Tail(s))
<1> DEFINE t == Tail(s)
           h == Head(s)
<1>1. /\ Len(s) \in Nat /\ Len(s) > 0 /\ h = s[1] /\ h \in S
      /\ t \in Seq(S) /\ Len(t) = Len(s) - 1
      /\ \A i \in 1..Len(t) : t[i] = s[i + 1]
      /\ DOMAIN t = 1..Len(t) /\ DOMAIN s = 1..Len(s)
  OBVIOUS
<1> HIDE DEF t, h
<1>2. h \in ToSet(s)
  BY <1>1 DEF ToSet
<1>3. ASSUME IsInjective(s) PROVE ToSet(t) = ToSet(s) \ {h} /\ IsInjective(t)
  <2>1. ASSUME NEW i \in 1..Len(t) PROVE t[i] \in ToSet(s) \ {h}
    <3>1. i + 1 \in 1..Len(s) /\ i + 1 # 1 /\ t[i] = s[i + 1]
      BY <1>1
    <3> QED BY <1>1, <1>3, <3>1 DEF ToSet, IsInjective
  <2>2. ASSUME NEW i \in 1..Len(s), s[i] # h PROVE s[i] \in ToSet(t)
    <3>1. i - 1 \in 1..Len(t) /\ t[i - 1] = s[i]
      BY <1>1, <2>2
    <3> QED BY <1>1, <3>1 DEF ToSet
  <2>3. ASSUME NEW i \in 1..Len(t), NEW j \in 1..Len(t), t[i] = t[j] PROVE i = j
    <3>1. i + 1 \in 1..Len(s) /\ j + 1 \in 1..Len(s) /\ s[i + 1] = s[j + 1]
      BY <1>1, <2>3
    <3>2. i + 1 = j + 1
      BY <1>1, <1>3, <3>1 DEF IsInjective
    <3> QED BY <3>2
  <2>4. ToSet(t) = ToSet(s) \ {h}
    BY <1>1, <2>1, <2>2 DEF ToSet
  <2> QED BY <1>1, <2>3, <2>4 DEF IsInjective
<1> QED BY <1>1, <1>2, <1>3 DEF t, h

LEMMA PushBack ==
    ASSUME NEW S, NEW s \in Seq(S), NEW c \in S
    PROVE  /\ Append(s, c) \in Seq(S)
           /\ Len(Append(s, c)) = Len(s) + 1
           /\ ToSet(Append(s, c)) = ToSet(s) \cup {c}
           /\ IsInjective(s) /\ c \notin ToSet(s) => IsInjective(Append(s, c))
<1> DEFINE t == Append(s, c)
<1>1. /\ t \in Seq(S) /\ Len(t) = Len(s) + 1 /\ Len(s) \in Nat /\ t[Len(s) + 1] = c
      /\ \A i \in 1..Len(s) : t[i] = s[i]
      /\ DOMAIN t = 1..Len(t) /\ DOMAIN s = 1..Len(s)
  OBVIOUS
<1> HIDE DEF t
<1>2. ToSet(t) = ToSet(s) \cup {c}
  BY <1>1 DEF ToSet
<1>3. ASSUME IsInjective(s), c \notin ToSet(s) PROVE IsInjective(t)
  BY <1>1, <1>3 DEF ToSet, IsInjective
<1> QED BY <1>1, <1>2, <1>3 DEF t

LEMMA Reversed ==
    ASSUME NEW S, NEW s \in Seq(S)
    PROVE  /\ Reverse(s) \in Seq(S)
           /\ Len(Reverse(s)) = Len(s)
           /\ ToSet(Reverse(s)) = ToSet(s)
           /\ IsInjective(s) => IsInjective(Reverse(s))
<1> DEFINE t == Reverse(s)
<1>1. /\ t \in Seq(S) /\ Len(t) = Len(s) /\ Len(s) \in Nat
      /\ \A i \in 1..Len(s) : t[i] = s[Len(s) - i + 1]
      /\ DOMAIN t = 1..Len(t) /\ DOMAIN s = 1..Len(s)
  BY DEF Reverse
<1> HIDE DEF t
<1>2. \A i \in 1..Len(s) : Len(s) - i + 1 \in 1..Len(s) /\ t[Len(s) - i + 1] = s[i]
  BY <1>1
<1>3. ToSet(t) = ToSet(s)
  <2>1. ASSUME NEW i \in 1..Len(s) PROVE t[i] \in ToSet(s) /\ s[i] \in ToSet(t)
    <3>1. Len(s) - i + 1 \in 1..Len(s)
      BY <1>1
    <3> QED BY <1>1, <1>2, <3>1 DEF ToSet
  <2> QED BY <1>1, <2>1 DEF ToSet
<1>4. ASSUME IsInjective(s) PROVE IsInjective(t)
  <2>1. ASSUME NEW i \in 1..Len(t), NEW j \in 1..Len(t), t[i] = t[j] PROVE i = j
    <3>1. /\ Len(s) - i + 1 \in 1..Len(s) /\ Len(s) - j + 1 \in 1..Len(s)
          /\ s[Len(s) - i + 1] = s[Len(s) - j + 1]
      BY <1>1, <2>1
    <3>2. Len(s) - i + 1 = Len(s) - j + 1
      BY <1>1, <1>4, <3>1 DEF IsInjective
    <3> QED BY <1>1, <3>2
  <2> QED BY <1>1, <2>1 DEF IsInjective
<1> QED BY <1>1, <1>3, <1>4 DEF t

\* A list without repetitions is as long as it has elements.
LEMMA LengthIsSize ==
    ASSUME NEW S, NEW s \in Seq(S), IsInjective(s)
    PROVE  IsFiniteSet(ToSet(s)) /\ Cardinality(ToSet(s)) = Len(s) /\ ToSet(s) \subseteq S
<1>1. /\ Len(s) \in Nat /\ DOMAIN s = 1..Len(s) /\ s \in [1..Len(s) -> S]
      /\ ToSet(s) \subseteq S
  BY DEF ToSet
<1>2. IsFiniteSet(1..Len(s)) /\ Cardinality(1..Len(s)) = Len(s)
  BY <1>1, FS_Interval
<1>3. s \in Bijection(1..Len(s), ToSet(s))
  <2>1. s \in [1..Len(s) -> ToSet(s)]
    BY <1>1 DEF ToSet
  <2>2. \A i, j \in 1..Len(s) : s[i] = s[j] => i = j
    BY <1>1 DEF IsInjective
  <2>3. \A x \in ToSet(s) : \E i \in 1..Len(s) : s[i] = x
    BY <1>1 DEF ToSet
  <2> QED BY <2>1, <2>2, <2>3 DEF Bijection, Injection, Surjection, IsInjective
<1>4. ExistsBijection(1..Len(s), ToSet(s))
  BY <1>3 DEF ExistsBijection
<1> QED BY <1>1, <1>2, <1>4, FS_Bijection

-----------------------------------------------------------------------------
\* What the invariant says of every state.

LEMMA Constants ==
    /\ W \in Nat /\ W > 1 /\ Cardinality(Awaiters) \in Nat
    /\ Cardinality(Awaiters) + 1 < W
    /\ IsFiniteSet(Awaiters) /\ Awaiters \subseteq Processes
    /\ 0 \in Halves /\ 1 \in Halves /\ 0 \in Words
<1>1. W \in Nat /\ W > 1 /\ Cardinality(Awaiters) \in Nat
  BY ConstantsAssumption, FS_CardinalityType
<1>2. W * W >= 1
  BY <1>1
<1> QED BY <1>1, <1>2, ConstantsAssumption DEF Halves, Words

LEMMA UncountedIsFinite ==
    ASSUME EventInv
    PROVE  IsFiniteSet(Uncounted) /\ Cardinality(Uncounted) \in Nat
<1>1. Uncounted \subseteq Awaiters
  BY DEF EventInv, ResumerInv, Suspending, Uncounted
<1> QED BY <1>1, Constants, FS_Subset, FS_CardinalityType

\* Three disjoint sets of awaiters.
LEMMA DisjointSizes ==
    ASSUME NEW A \in SUBSET Awaiters, NEW B \in SUBSET Awaiters, NEW C \in SUBSET Awaiters,
           A \cap B = {}, C \cap A = {}, C \cap B = {}
    PROVE  Cardinality(A) + Cardinality(B) + Cardinality(C) <= Cardinality(Awaiters)
<1>1. IsFiniteSet(A) /\ IsFiniteSet(B) /\ IsFiniteSet(C) /\ IsFiniteSet(A \cup B)
  BY Constants, FS_Subset, FS_Union
<1>2. /\ Cardinality(A) \in Nat /\ Cardinality(B) \in Nat /\ Cardinality(C) \in Nat
      /\ Cardinality(A \cup B) \in Nat
  BY <1>1, FS_CardinalityType
<1>3. Cardinality(A \cap B) = 0 /\ Cardinality(C \cap (A \cup B)) = 0
  <2>1. C \cap (A \cup B) = {}
    OBVIOUS
  <2> QED BY <2>1, FS_EmptySet
<1>4. Cardinality(A \cup B) = Cardinality(A) + Cardinality(B) - Cardinality(A \cap B)
  BY <1>1, FS_Union
<1>5. Cardinality(A \cup B) = Cardinality(A) + Cardinality(B)
  BY <1>2, <1>3, <1>4
<1>6. Cardinality(C \cup (A \cup B)) =
        Cardinality(C) + Cardinality(A \cup B) - Cardinality(C \cap (A \cup B))
  BY <1>1, FS_Union
<1>7. Cardinality(C \cup (A \cup B)) = Cardinality(C) + Cardinality(A) + Cardinality(B)
  BY <1>2, <1>3, <1>5, <1>6
<1>8. Cardinality(C \cup (A \cup B)) <= Cardinality(Awaiters)
  <2>1. C \cup (A \cup B) \in SUBSET Awaiters
    OBVIOUS
  <2> QED BY <2>1, Constants, FS_Subset
<1> QED BY <1>2, <1>7, <1>8

\* The lists are disjoint sets of awaiters, so they are not longer together
\* than there are awaiters.
LEMMA ListsBound ==
    ASSUME EventInv, NEW p \in Processes
    PROVE  /\ InLists \in Nat /\ Len(resumeList[p]) \in Nat
           /\ InLists + Len(resumeList[p]) <= Cardinality(Awaiters)
<1> DEFINE A == ToSet(mNewWaiters)
           B == ToSet(mWaiters)
           C == ToSet(resumeList[p])
           a == Len(mNewWaiters)
           b == Len(mWaiters)
           c == Len(resumeList[p])
<1>1. /\ mNewWaiters \in Seq(Awaiters) /\ mWaiters \in Seq(Awaiters)
      /\ resumeList[p] \in Seq(Awaiters)
      /\ IsInjective(mNewWaiters) /\ IsInjective(mWaiters) /\ IsInjective(resumeList[p])
      /\ A \cap B = {} /\ C \cap A = {} /\ C \cap B = {}
  BY DEF EventInv, TypeOK, ListsInv
<1>2. /\ Cardinality(A) = a /\ A \subseteq Awaiters
      /\ Cardinality(B) = b /\ B \subseteq Awaiters
      /\ Cardinality(C) = c /\ C \subseteq Awaiters
  BY <1>1, LengthIsSize
<1>3. a \in Nat /\ b \in Nat /\ c \in Nat
  BY <1>1
<1> HIDE DEF A, B, C, a, b, c
<1>4. Cardinality(A) + Cardinality(B) + Cardinality(C) <= Cardinality(Awaiters)
  BY <1>1, <1>2, DisjointSizes
<1>5. a + b + c <= Cardinality(Awaiters)
  BY <1>2, <1>4
<1>6. InLists = a + b /\ Len(resumeList[p]) = c
  BY DEF InLists, a, b, c
<1> QED BY <1>3, <1>5, <1>6, Constants

\* No waiter count exceeds the number of awaiters: the halves do not overflow.
LEMMA HalvesBound ==
    ASSUME EventInv
    PROVE  /\ SetCount(mState) \in Halves
           /\ WaiterCount(mState) \in Nat
           /\ WaiterCount(mState) + Cardinality(Uncounted) <= Cardinality(Awaiters)
           /\ WaiterCount(mState) \in Halves
<1>1. mState \in Nat
  BY DEF EventInv, TypeOK
<1>2. SetCount(mState) \in Halves /\ WaiterCount(mState) \in Nat
  BY <1>1, Constants, Split
<1>3. Cardinality(Uncounted) \in Nat
  BY UncountedIsFinite
<1>4. Counted <= Cardinality(Awaiters)
  <2>1. ASSUME NEW p \in Processes, pc[p] = "move" PROVE Counted <= Cardinality(Awaiters)
    <3>1. /\ count[p] - todo[p] <= Len(resumeList[p])
          /\ Counted = InLists + count[p] - todo[p]
      BY <2>1 DEF EventInv, ResumerInv
    <3>2. count[p] \in Nat /\ todo[p] \in Nat
      BY DEF EventInv, TypeOK, Halves
    <3> QED BY <3>1, <3>2, ListsBound, Constants
  <2>2. ASSUME \A p \in Processes : pc[p] # "move" PROVE Counted <= Cardinality(Awaiters)
    <3>1. Counted = InLists
      BY <2>2 DEF EventInv, RestInv
    <3>2. CASE Processes = {}
      <4>1. Awaiters = {}
        BY <3>2, Constants
      <4>2. Cardinality(Awaiters) = 0
        BY <4>1, FS_EmptySet
      <4>3. mNewWaiters = <<>> /\ mWaiters = <<>>
        BY <4>1 DEF EventInv, TypeOK
      <4> QED BY <3>1, <4>2, <4>3 DEF InLists
    <3>3. CASE Processes # {}
      <4>1. PICK p \in Processes : TRUE
        BY <3>3
      <4>2. InLists + Len(resumeList[p]) <= Cardinality(Awaiters)
        BY ListsBound
      <4>3. InLists \in Nat /\ Len(resumeList[p]) \in Nat
        BY ListsBound
      <4> HIDE DEF InLists
      <4> QED BY <3>1, <4>2, <4>3, Constants
    <3> QED BY <3>2, <3>3
  <2> QED BY <2>1, <2>2
<1> QED BY <1>2, <1>3, <1>4, Constants DEF Counted, Halves

\* While reset() runs nobody else is in a call.
LEMMA NoReset ==
    ASSUME EventInv, NEW p \in Processes, pc[p] \notin {"idle", "suspended", "reset"}
    PROVE  \A q \in Processes : pc[q] # "reset"
BY DEF EventInv, SetInv

LEMMA KeepLists ==
    ASSUME ListsInv, UNCHANGED <<mNewWaiters, mWaiters, resumeList>>
    PROVE  /\ ListsInv'
           /\ \A c : Listed(c)' <=> Listed(c)
           /\ InLists' = InLists
BY DEF ListsInv, Listed, InLists

\* A step that leaves lists and references alone.
LEMMA KeepReferences ==
    ASSUME EventInv, UNCHANGED <<mNewWaiters, mWaiters, resumeList, refCount>>,
           \A c \in Awaiters : /\ Suspending(c)' <=> Suspending(c)
                               /\ pc[c] = "suspended" => pc'[c] = "suspended"
    PROVE  \A c \in Awaiters : ReferenceInv(c)'
<1>1. \A c : Listed(c)' <=> Listed(c)
  BY KeepLists DEF EventInv
<1> SUFFICES ASSUME NEW c \in Awaiters PROVE ReferenceInv(c)'
  OBVIOUS
<1> QED BY <1>1 DEF EventInv, ReferenceInv

LEMMA InitEventInv == ASSUME Init PROVE EventInv
<1>1. mState \in Words /\ SetCount(mState) <= 1 /\ WaiterCount(mState) = 0 /\ SetCount(mState) \in Nat
  <2>1. mState \in Nat /\ mState < W
    BY Constants DEF Init
  <2>2. mState = mState + W * 0 /\ mState \in Halves
    BY <2>1, Constants DEF Halves
  <2>3. SetCount(mState) = mState /\ WaiterCount(mState) = 0
    BY <2>1, <2>2, Constants, OneSplit
  <2>4. W * W >= W
    BY Constants
  <2> QED BY <2>1, <2>3, <2>4, Constants DEF Init, Words
<1>2. Uncounted = {}
  BY DEF Init, Uncounted
<1>3. Counted = 0 /\ InLists = 0
  BY <1>1, <1>2, FS_EmptySet DEF Init, Counted, InLists
<1>4. \A c : ~Listed(c)
  BY EmptyList DEF Init, Listed
<1>5. TypeOK
  BY <1>1, Constants DEF Init, TypeOK, Words, Halves, PCs
<1>6. \A c \in Awaiters : ReferenceInv(c)
  BY <1>4, Constants DEF Init, ReferenceInv, Suspending
<1>7. ListsInv
  BY EmptyList DEF Init, ListsInv
<1>8. ResumerInv /\ RestInv /\ SetInv
  BY <1>1, <1>3 DEF Init, ResumerInv, RestInv, SetInv, Suspending
<1> QED BY <1>5, <1>6, <1>7, <1>8 DEF EventInv

-----------------------------------------------------------------------------
\* The steps of co_await.

LEMMA StepAwaitLoad ==
    ASSUME ConcurrentReset = FALSE, EventInv, NEW p \in Processes, AwaitLoad(p)
    PROVE  EventInv'
<1>1. /\ pc[p] = "idle" /\ p \in Awaiters /\ \A q \in Processes : pc[q] # "reset"
      /\ old' = [old EXCEPT ![p] = mState]
      /\ pc' = [pc EXCEPT ![p] = IF SetCount(mState) > WaiterCount(mState)
                                 THEN "awaitCas" ELSE "push"]
      /\ UNCHANGED <<mState, mNewWaiters, mWaiters, count, todo, resumeList, ret, refCount>>
  BY DEF AwaitLoad, MayCall, Goto
<1>2. TypeOK'
  BY <1>1 DEF EventInv, TypeOK, PCs
<1>3. Uncounted' = Uncounted
  BY <1>1 DEF Uncounted, EventInv, TypeOK
<1>4. Counted' = Counted /\ InLists' = InLists
  BY <1>1, <1>3 DEF Counted, InLists
<1>5. \A c \in Awaiters : ReferenceInv(c)'
  BY <1>1, KeepReferences DEF Suspending, EventInv, TypeOK
<1>6. ListsInv'
  BY <1>1, KeepLists DEF EventInv
<1>7. ResumerInv'
  BY <1>1, <1>4 DEF EventInv, TypeOK, ResumerInv, Suspending
<1>8. RestInv'
  BY <1>1, <1>4 DEF EventInv, TypeOK, RestInv
<1>9. SetInv'
  BY <1>1 DEF EventInv, TypeOK, SetInv
<1> QED BY <1>2, <1>5, <1>6, <1>7, <1>8, <1>9 DEF EventInv

LEMMA StepAwaitCas ==
    ASSUME EventInv, NEW p \in Processes, AwaitCas(p)
    PROVE  EventInv'
<1>1. /\ pc[p] = "awaitCas" /\ p \in Awaiters /\ \A q \in Processes : pc[q] # "reset"
      /\ UNCHANGED <<mNewWaiters, mWaiters, count, todo, resumeList, ret, refCount>>
      /\ old' = [old EXCEPT ![p] = 0]
      /\ \/ pc' = [pc EXCEPT ![p] = "idle"]
         \/ pc' = [pc EXCEPT ![p] = "push"]
  BY NoReset DEF AwaitCas, Goto, EventInv, ResumerInv, Suspending
<1>2. \/ mState' = mState
      \/ /\ mState' = Sum64(mState, -1)
         /\ SetCount(mState) > WaiterCount(mState)
  BY <1>1 DEF AwaitCas, EventInv, SetInv
<1>3. /\ mState' \in Words /\ WaiterCount(mState') = WaiterCount(mState)
      /\ SetCount(mState) \in Nat /\ SetCount(mState') \in Nat /\ WaiterCount(mState) \in Nat
      /\ \/ SetCount(mState') = SetCount(mState)
         \/ /\ SetCount(mState) > WaiterCount(mState)
            /\ SetCount(mState') = SetCount(mState) - 1
  <2>1. mState \in Words /\ SetCount(mState) \in Halves /\ WaiterCount(mState) \in Halves
    BY HalvesBound DEF EventInv, TypeOK, Words
  <2>2. CASE mState' = mState
    BY <2>1, <2>2 DEF Halves
  <2>3. CASE mState' = Sum64(mState, -1) /\ SetCount(mState) > WaiterCount(mState)
    <3>1. SetCount(mState) + (-1) \in Halves /\ WaiterCount(mState) + 0 \in Halves
      BY <2>1, <2>3, Constants DEF Halves
    <3>2. -1 = -1 + W * 0
      BY Constants
    <3>3. /\ Sum64(mState, -1) \in Words
          /\ SetCount(Sum64(mState, -1)) = SetCount(mState) + (-1)
          /\ WaiterCount(Sum64(mState, -1)) = WaiterCount(mState) + 0
      BY <2>1, <3>1, <3>2, Constants, AddToHalves
    <3> QED BY <2>1, <2>3, <3>3 DEF Halves
  <2> QED BY <1>2, <2>2, <2>3
<1>4. TypeOK'
  BY <1>1, <1>3, Constants DEF EventInv, TypeOK, PCs, Words
<1>5. Uncounted' = Uncounted
  BY <1>1 DEF Uncounted, EventInv, TypeOK
<1>6. Counted' = Counted /\ InLists' = InLists
  BY <1>1, <1>3, <1>5 DEF Counted, InLists
<1>7. \A c \in Awaiters : ReferenceInv(c)'
  <2>1. ASSUME NEW c \in Awaiters
        PROVE  /\ Suspending(c)' <=> Suspending(c)
               /\ pc[c] = "suspended" => pc'[c] = "suspended"
    <3>1. CASE c = p
      BY <1>1, <3>1 DEF Suspending, EventInv, TypeOK
    <3>2. CASE c # p
      BY <1>1, <3>2, Constants DEF Suspending, EventInv, TypeOK
    <3> QED BY <3>1, <3>2
  <2> QED BY <1>1, <2>1, KeepReferences
<1>8. ListsInv'
  BY <1>1, KeepLists DEF EventInv
<1>9. ResumerInv'
  <2>1. \A q \in Processes : pc'[q] = "move" => pc[q] = "move" /\ count[q] \in Nat
    BY <1>1 DEF EventInv, TypeOK, Halves
  <2>2. \A q \in Processes : pc'[q] = "move" =>
           count[q] <= SetCount(mState') /\ count[q] <= WaiterCount(mState')
    BY <1>3, <2>1 DEF EventInv, ResumerInv
  <2>3. \A q \in Processes :
           /\ pc'[q] = "wake" => pc[q] = "wake"
           /\ pc'[q] \notin {"move", "wake"} => pc[q] \notin {"move", "wake"}
           /\ Suspending(q)' <=> Suspending(q)
           /\ pc'[q] \in {"awaitCas", "push", "suspended"} =>
                 q = p \/ pc[q] \in {"awaitCas", "push", "suspended"}
    BY <1>1 DEF EventInv, TypeOK, Suspending
  <2>4. \A q, r \in Processes : pc'[q] = "move" /\ pc'[r] = "move" => q = r
    BY <2>1 DEF EventInv, ResumerInv
  <2>5. ASSUME NEW q \in Processes, pc'[q] = "move"
        PROVE  /\ 0 < count'[q] /\ todo'[q] <= count'[q]
               /\ count'[q] <= SetCount(mState') /\ count'[q] <= WaiterCount(mState')
               /\ count'[q] - todo'[q] <= Len(resumeList'[q])
               /\ Counted' = InLists' + count'[q] - todo'[q]
    <3>1. /\ pc[q] = "move" /\ count' = count /\ todo' = todo /\ resumeList' = resumeList
          /\ count[q] <= SetCount(mState') /\ count[q] <= WaiterCount(mState')
      BY <1>1, <2>1, <2>2, <2>5
    <3>2. /\ 0 < count[q] /\ todo[q] <= count[q] /\ count[q] - todo[q] <= Len(resumeList[q])
          /\ Counted = InLists + count[q] - todo[q]
      BY <3>1 DEF EventInv, ResumerInv
    <3> HIDE DEF Counted, InLists
    <3> QED BY <1>6, <3>1, <3>2
  <2>6. \A q \in Processes :
           /\ pc'[q] = "wake" => resumeList'[q] # <<>>
           /\ pc'[q] \notin {"move", "wake"} => resumeList'[q] = <<>>
           /\ Suspending(q)' \/ pc'[q] \in {"awaitCas", "push", "suspended"} => q \in Awaiters
    BY <1>1, <2>3 DEF EventInv, ResumerInv
  <2> QED BY <2>4, <2>5, <2>6 DEF ResumerInv
<1>10. RestInv'
  BY <1>1, <1>3, <1>6 DEF EventInv, TypeOK, RestInv
<1>11. SetInv'
  BY <1>1, <1>3 DEF EventInv, TypeOK, SetInv
<1> QED BY <1>4, <1>7, <1>8, <1>9, <1>10, <1>11 DEF EventInv

LEMMA StepAwaitPush ==
    ASSUME EventInv, NEW p \in Processes, AwaitPush(p)
    PROVE  EventInv'
<1>1. /\ pc[p] = "push" /\ p \in Awaiters /\ \A q \in Processes : pc[q] # "reset"
      /\ mNewWaiters' = <<p>> \o mNewWaiters
      /\ refCount' = [refCount EXCEPT ![p] = 2]
      /\ pc' = [pc EXCEPT ![p] = "count"]
      /\ UNCHANGED <<mState, mWaiters, old, count, todo, resumeList, ret>>
  BY NoReset DEF AwaitPush, Goto, EventInv, ResumerInv, Suspending
<1>2. ~Listed(p)
  BY <1>1 DEF EventInv, ReferenceInv, Suspending
<1>3. /\ mNewWaiters' \in Seq(Awaiters) /\ Len(mNewWaiters') = Len(mNewWaiters) + 1
      /\ ToSet(mNewWaiters') = ToSet(mNewWaiters) \cup {p}
      /\ IsInjective(mNewWaiters')
  BY <1>1, <1>2, PushFront DEF EventInv, TypeOK, ListsInv, Listed
<1>4. TypeOK'
  BY <1>1, <1>3 DEF EventInv, TypeOK, PCs
<1>5. Uncounted' = Uncounted \cup {p} /\ p \notin Uncounted
  BY <1>1 DEF Uncounted, EventInv, TypeOK
<1>6. Counted' = Counted + 1 /\ InLists' = InLists + 1 /\ Counted \in Nat /\ InLists \in Nat
  <2>1. Cardinality(Uncounted') = Cardinality(Uncounted) + 1
    BY <1>5, UncountedIsFinite, FS_AddElement
  <2>2. Cardinality(Uncounted) \in Nat /\ WaiterCount(mState) \in Nat
    BY UncountedIsFinite, HalvesBound
  <2>3. Counted' = Counted + 1 /\ Counted \in Nat
    <3>1. WaiterCount(mState') = WaiterCount(mState)
      BY <1>1 DEF WaiterCount
    <3> QED BY <2>1, <2>2, <3>1 DEF Counted
  <2>4. InLists \in Nat
    BY <1>1, ListsBound
  <2>5. InLists' = InLists + 1
    BY <1>1, <1>3 DEF InLists, EventInv, TypeOK
  <2> QED BY <2>3, <2>4, <2>5
<1>7. ASSUME NEW c \in Awaiters PROVE ReferenceInv(c)'
  <2>1. Listed(c)' <=> Listed(c) \/ c = p
    BY <1>1, <1>3 DEF Listed
  <2>2. CASE c = p
    BY <1>1, <2>1, <2>2 DEF ReferenceInv, Suspending, EventInv, TypeOK
  <2>3. CASE c # p
    BY <1>1, <2>1, <2>3, Constants DEF ReferenceInv, Suspending, EventInv, TypeOK
  <2> QED BY <2>2, <2>3
<1>8. ListsInv'
  BY <1>1, <1>2, <1>3 DEF EventInv, ListsInv, Listed
<1>9. ResumerInv'
  <2>1. \A q \in Processes : pc'[q] = "move" =>
           pc[q] = "move" /\ count[q] \in Nat /\ todo[q] \in Nat
    BY <1>1 DEF EventInv, TypeOK, Halves
  <2>2. \A q \in Processes : pc'[q] = "move" => Counted' = InLists' + count[q] - todo[q]
    <3> HIDE DEF Counted, InLists
    <3> QED BY <1>6, <2>1 DEF EventInv, ResumerInv
  <2> QED BY <1>1, <2>2 DEF EventInv, TypeOK, ResumerInv, Suspending
<1>10. RestInv'
  BY <1>1, <1>6 DEF EventInv, TypeOK, RestInv
<1>11. SetInv'
  BY <1>1 DEF EventInv, TypeOK, SetInv
<1> QED BY <1>4, <1>7, <1>8, <1>9, <1>10, <1>11 DEF EventInv

LEMMA StepAwaitRelease ==
    ASSUME EventInv, NEW p \in Processes, AwaitRelease(p)
    PROVE  EventInv'
<1>1. /\ pc[p] = "release" /\ p \in Awaiters /\ \A q \in Processes : pc[q] # "reset"
      /\ refCount' = [refCount EXCEPT ![p] = @ - 1]
      /\ pc' = [pc EXCEPT ![p] = IF refCount[p] = 1 THEN "idle" ELSE "suspended"]
      /\ UNCHANGED <<mState, mNewWaiters, mWaiters, old, count, todo, resumeList, ret>>
  BY NoReset DEF AwaitRelease, Goto, EventInv, ResumerInv, Suspending
<1>2. /\ refCount[p] = (IF Listed(p) THEN 2 ELSE 1)
      /\ \A c : Listed(c)' <=> Listed(c)
  BY <1>1, KeepLists DEF EventInv, ReferenceInv, Suspending
<1>3. TypeOK'
  BY <1>1, <1>2 DEF EventInv, TypeOK, PCs
<1>4. Uncounted' = Uncounted
  BY <1>1 DEF Uncounted, EventInv, TypeOK
<1>5. Counted' = Counted /\ InLists' = InLists
  BY <1>1, <1>4 DEF Counted, InLists
<1>6. ASSUME NEW c \in Awaiters PROVE ReferenceInv(c)'
  <2>1. CASE c = p
    BY <1>1, <1>2, <2>1 DEF ReferenceInv, Suspending, EventInv, TypeOK
  <2>2. CASE c # p
    BY <1>1, <1>2, <2>2, Constants DEF ReferenceInv, Suspending, EventInv, TypeOK
  <2> QED BY <2>1, <2>2
<1>7. ListsInv'
  BY <1>1, KeepLists DEF EventInv
<1>8. ResumerInv'
  BY <1>1, <1>5 DEF EventInv, TypeOK, ResumerInv, Suspending
<1>9. RestInv'
  BY <1>1, <1>5 DEF EventInv, TypeOK, RestInv
<1>10. SetInv'
  BY <1>1 DEF EventInv, TypeOK, SetInv
<1> QED BY <1>3, <1>6, <1>7, <1>8, <1>9, <1>10 DEF EventInv

\* The waiter that finds a set and no waiter becomes the resumer: there is
\* none, for a resumer keeps both halves positive.
LEMMA StepAwaitCount ==
    ASSUME EventInv, NEW p \in Processes, AwaitCount(p)
    PROVE  EventInv'
<1> DEFINE s == SetCount(mState)
           w == WaiterCount(mState)
<1>1. /\ pc[p] = "count" /\ p \in Awaiters /\ \A q \in Processes : pc[q] # "reset"
      /\ mState' = Sum64(mState, W) /\ resumeList[p] = <<>>
      /\ UNCHANGED <<mNewWaiters, mWaiters, old, refCount>>
  BY NoReset DEF AwaitCount, EventInv, ResumerInv, Suspending
<1>2. /\ p \in Uncounted /\ Cardinality(Uncounted) \in Nat
      /\ Cardinality(Uncounted \ {p}) = Cardinality(Uncounted) - 1
      /\ Cardinality(Uncounted \ {p}) \in Nat
  <2>1. p \in Uncounted
    BY <1>1 DEF Uncounted
  <2> QED BY <2>1, UncountedIsFinite, FS_RemoveElement, FS_CardinalityType
<1>3. mState \in Words /\ s \in Halves /\ w \in Halves /\ s \in Nat /\ w \in Nat /\ w + 1 \in Halves
  <2>1. mState \in Words
    BY DEF EventInv, TypeOK, Words
  <2>2. w + Cardinality(Uncounted) <= Cardinality(Awaiters) /\ Cardinality(Uncounted) > 0
    <3> HIDE DEF w
    <3>1. Cardinality(Uncounted) > 0
      BY <1>2
    <3> QED BY <3>1, HalvesBound DEF w
  <2>3. s \in Halves /\ w \in Nat
    BY HalvesBound
  <2> HIDE DEF s, w
  <2> QED BY <1>2, <2>1, <2>2, <2>3, Constants DEF Halves
<1>4. mState' \in Words /\ SetCount(mState') = s /\ WaiterCount(mState') = w + 1
  <2>1. W = 0 + W * 1 /\ W \in Int /\ s + 0 \in Halves
    BY <1>3, Constants
  <2> HIDE DEF s, w
  <2>2. /\ Sum64(mState, W) \in Words
        /\ SetCount(Sum64(mState, W)) = s + 0 /\ WaiterCount(Sum64(mState, W)) = w + 1
    BY <1>3, <2>1, Constants, AddToHalves DEF s, w
  <2> QED BY <1>1, <1>3, <2>2
<1>5. mState # 0 => s + w > 0
  BY <1>3, Constants, Split DEF Words
<1> HIDE DEF s, w
<1>6. /\ resumeList' = resumeList
      /\ \/ /\ mState # 0 /\ w = 0
            /\ pc' = [pc EXCEPT ![p] = "move"] /\ ret' = [ret EXCEPT ![p] = "release"]
            /\ count' = [count EXCEPT ![p] = 1] /\ todo' = [todo EXCEPT ![p] = 1]
         \/ /\ mState = 0 \/ w > 0
            /\ pc' = [pc EXCEPT ![p] = "release"] /\ UNCHANGED <<ret, count, todo>>
  <2>1. CASE mState # 0 /\ w = 0
    <3>1. EnterResume(p, mState', "release")
      BY <2>1 DEF AwaitCount, w
    <3>2. Resumable(mState') = 1
      BY <1>3, <1>4, <1>5, <2>1 DEF Resumable
    <3> QED BY <1>1, <2>1, <3>1, <3>2 DEF EnterResume, Goto, EventInv, TypeOK
  <2>2. CASE mState = 0 \/ w > 0
    <3>1. Goto(p, "release") /\ UNCHANGED <<count, todo, resumeList, ret>>
      BY <1>3, <2>2 DEF AwaitCount, w
    <3> QED BY <2>2, <3>1 DEF Goto
  <2> QED BY <1>3, <2>1, <2>2
<1>7. TypeOK'
  BY <1>1, <1>4, <1>6, Constants DEF EventInv, TypeOK, PCs, Words
<1>8. Uncounted' = Uncounted \ {p}
  BY <1>1, <1>6 DEF Uncounted, EventInv, TypeOK
<1>9. Counted' = Counted /\ InLists' = InLists
  BY <1>1, <1>2, <1>3, <1>4, <1>8 DEF Counted, InLists, w
<1>10. ASSUME NEW c \in Awaiters PROVE ReferenceInv(c)'
  <2>1. /\ Suspending(c)' <=> Suspending(c)
        /\ pc[c] = "suspended" => pc'[c] = "suspended"
    <3>1. CASE c = p
      BY <1>1, <1>6, <3>1 DEF Suspending, EventInv, TypeOK
    <3>2. CASE c # p
      BY <1>1, <1>6, <3>2, Constants DEF Suspending, EventInv, TypeOK
    <3> QED BY <3>1, <3>2
  <2>2. Listed(c)' <=> Listed(c)
    BY <1>1, <1>6, KeepLists DEF EventInv
  <2> QED BY <1>1, <2>1, <2>2 DEF EventInv, ReferenceInv
<1>11. ListsInv'
  BY <1>1, <1>6, KeepLists DEF EventInv
<1>12. ResumerInv'
  <2>1. CASE mState # 0 /\ w = 0
    <3>1. \A q \in Processes : pc[q] # "move"
      BY <1>3, <2>1 DEF EventInv, TypeOK, ResumerInv, Halves, w
    <3>2. Counted' = InLists'
      BY <1>9, <3>1 DEF EventInv, RestInv
    <3>3. /\ pc' = [pc EXCEPT ![p] = "move"] /\ ret' = [ret EXCEPT ![p] = "release"]
          /\ count' = [count EXCEPT ![p] = 1] /\ todo' = [todo EXCEPT ![p] = 1]
          /\ resumeList' = resumeList
      BY <1>6, <2>1
    <3>4. Len(resumeList[p]) \in Nat
      BY ListsBound
    <3>5. SetCount(mState') >= 1 /\ WaiterCount(mState') = 1
      BY <1>3, <1>4, <1>5, <2>1
    <3>6. \A q \in Processes : pc'[q] = "move" => q = p
      BY <3>1, <3>3 DEF EventInv, TypeOK
    <3>7. count'[p] = 1 /\ todo'[p] = 1
      BY <3>3 DEF EventInv, TypeOK
    <3>8. Counted' = InLists' + count'[p] - todo'[p]
      <4>1. \A n \in Nat : n = n + 1 - 1
        OBVIOUS
      <4>2. InLists' \in Nat
        BY <1>9, ListsBound
      <4> QED BY <3>2, <3>7, <4>1, <4>2
    <3>9. \A q \in Processes : pc'[q] # "move" =>
             /\ pc'[q] = pc[q] /\ resumeList'[q] = resumeList[q]
             /\ Suspending(q)' => Suspending(q)
      BY <3>3 DEF EventInv, TypeOK, Suspending
    <3>10. \A q \in Processes : pc'[q] # "move" =>
              /\ pc'[q] = "wake" => resumeList'[q] # <<>>
              /\ pc'[q] \notin {"move", "wake"} => resumeList'[q] = <<>>
              /\ Suspending(q)' \/ pc'[q] \in {"awaitCas", "push", "suspended"} => q \in Awaiters
      BY <3>9 DEF EventInv, ResumerInv
    <3> QED BY <1>1, <3>3, <3>4, <3>5, <3>6, <3>7, <3>8, <3>10 DEF ResumerInv
  <2>2. CASE mState = 0 \/ w > 0
    <3>1. pc' = [pc EXCEPT ![p] = "release"] /\ UNCHANGED <<ret, count, todo, resumeList>>
      BY <1>3, <1>6, <2>2
    <3>2. \A q \in Processes : count[q] \in Nat
      BY DEF EventInv, TypeOK, Halves
    <3>3. SetCount(mState') = SetCount(mState)
          /\ \A q \in Processes : count[q] <= WaiterCount(mState) => count[q] <= WaiterCount(mState')
      BY <1>3, <1>4, <3>2 DEF s, w
    <3> QED BY <1>1, <1>9, <3>1, <3>3 DEF EventInv, TypeOK, ResumerInv, Suspending
  <2> QED BY <1>3, <2>1, <2>2
<1>13. RestInv'
  <2>1. SUFFICES ASSUME \A q \in Processes : pc'[q] # "move"
                 PROVE  Counted' = InLists' /\ (SetCount(mState') = 0 \/ WaiterCount(mState') = 0)
    BY DEF RestInv
  <2>2. \A q \in Processes : pc[q] # "move"
    BY <1>1, <1>6, <2>1 DEF EventInv, TypeOK
  <2>3. Counted = InLists /\ (s = 0 \/ w = 0)
    BY <2>2 DEF EventInv, RestInv, s, w
  <2>4. mState = 0 \/ w > 0
    BY <1>6, <2>1 DEF EventInv, TypeOK
  <2>5. mState = 0 => s = 0
    BY <1>3, OneSplit, Constants DEF s
  <2> QED BY <1>3, <1>4, <1>9, <2>3, <2>4, <2>5
<1>14. SetInv'
  BY <1>1, <1>3, <1>4, <1>6 DEF EventInv, TypeOK, SetInv, s, w
<1> QED BY <1>7, <1>10, <1>11, <1>12, <1>13, <1>14 DEF EventInv

-----------------------------------------------------------------------------
\* The steps of set() and reset().

\* The set() that finds waiters and no set becomes the resumer.
LEMMA StepSet ==
    ASSUME ConcurrentReset = FALSE, EventInv, NEW p \in Processes, Set(p)
    PROVE  EventInv'
<1> DEFINE s == SetCount(mState)
           w == WaiterCount(mState)
<1>1. /\ pc[p] = "idle" /\ \A q \in Processes : pc[q] # "reset"
      /\ mState' = Sum64(mState, 1) /\ resumeList[p] = <<>> /\ s <= w
      /\ UNCHANGED <<mNewWaiters, mWaiters, old, refCount>>
  BY DEF Set, MayCall, EventInv, ResumerInv
<1>2. Cardinality(Uncounted) \in Nat
  BY UncountedIsFinite
<1>3. mState \in Words /\ s \in Halves /\ w \in Halves /\ s \in Nat /\ w \in Nat /\ s + 1 \in Halves
  <2>1. mState \in Words
    BY DEF EventInv, TypeOK, Words
  <2>2. w + Cardinality(Uncounted) <= Cardinality(Awaiters) /\ s \in Halves /\ w \in Nat
    BY HalvesBound
  <2> HIDE DEF s, w
  <2> QED BY <1>1, <1>2, <2>1, <2>2, Constants DEF Halves
<1>4. mState' \in Words /\ SetCount(mState') = s + 1 /\ WaiterCount(mState') = w
  <2>1. 1 = 1 + W * 0 /\ w + 0 \in Halves
    BY <1>3, Constants
  <2> HIDE DEF s, w
  <2>2. /\ Sum64(mState, 1) \in Words
        /\ SetCount(Sum64(mState, 1)) = s + 1 /\ WaiterCount(Sum64(mState, 1)) = w + 0
    BY <1>3, <2>1, Constants, AddToHalves DEF s, w
  <2> QED BY <1>1, <1>3, <2>2
<1>5. /\ mState # 0 => s + w > 0
      /\ mState = 0 => w = 0
  <2>1. mState = s + W * w
    BY <1>3, Constants, Split DEF Words
  <2>2. mState = 0 => w = 0
    BY Constants, OneSplit
  <2> QED BY <1>3, <2>1, <2>2, Constants
<1> HIDE DEF s, w
<1>6. /\ resumeList' = resumeList
      /\ \/ /\ s = 0 /\ w > 0
            /\ pc' = [pc EXCEPT ![p] = "move"] /\ ret' = [ret EXCEPT ![p] = "idle"]
            /\ count' = [count EXCEPT ![p] = 1] /\ todo' = [todo EXCEPT ![p] = 1]
         \/ /\ s > 0 \/ w = 0
            /\ UNCHANGED <<pc, ret, count, todo>>
  <2>1. CASE mState # 0 /\ s = 0
    <3>1. EnterResume(p, mState', "idle")
      BY <2>1 DEF Set, s
    <3>2. Resumable(mState') = 1 /\ w > 0
      BY <1>3, <1>4, <1>5, <2>1 DEF Resumable
    <3> QED BY <1>1, <2>1, <3>1, <3>2 DEF EnterResume, Goto, EventInv, TypeOK
  <2>2. CASE mState = 0 \/ s # 0
    <3>1. UNCHANGED <<pc, count, todo, resumeList, ret>>
      BY <2>2 DEF Set, s
    <3> QED BY <1>3, <1>5, <2>2, <3>1
  <2> QED BY <2>1, <2>2
<1>7. TypeOK'
  BY <1>1, <1>4, <1>6, Constants DEF EventInv, TypeOK, PCs, Words
<1>8. Uncounted' = Uncounted
  BY <1>1, <1>6 DEF Uncounted, EventInv, TypeOK
<1>9. Counted' = Counted /\ InLists' = InLists
  BY <1>1, <1>4, <1>8 DEF Counted, InLists, w
<1>10. \A c \in Awaiters : ReferenceInv(c)'
  <2>1. ASSUME NEW c \in Awaiters
        PROVE  /\ Suspending(c)' <=> Suspending(c)
               /\ pc[c] = "suspended" => pc'[c] = "suspended"
    <3>1. CASE c = p
      BY <1>1, <1>6, <3>1 DEF Suspending, EventInv, TypeOK
    <3>2. CASE c # p
      BY <1>1, <1>6, <3>2, Constants DEF Suspending, EventInv, TypeOK
    <3> QED BY <3>1, <3>2
  <2> QED BY <1>1, <1>6, <2>1, KeepReferences
<1>11. ListsInv'
  BY <1>1, <1>6, KeepLists DEF EventInv
<1>12. ResumerInv'
  <2>1. CASE s = 0 /\ w > 0
    <3>1. \A q \in Processes : pc[q] # "move"
      BY <1>3, <2>1 DEF EventInv, TypeOK, ResumerInv, Halves, s
    <3>2. Counted' = InLists'
      BY <1>9, <3>1 DEF EventInv, RestInv
    <3>3. /\ pc' = [pc EXCEPT ![p] = "move"] /\ ret' = [ret EXCEPT ![p] = "idle"]
          /\ count' = [count EXCEPT ![p] = 1] /\ todo' = [todo EXCEPT ![p] = 1]
          /\ resumeList' = resumeList
      BY <1>6, <2>1
    <3>4. Len(resumeList[p]) \in Nat
      BY ListsBound
    <3>5. SetCount(mState') = 1 /\ WaiterCount(mState') >= 1
      BY <1>3, <1>4, <2>1
    <3>6. \A q \in Processes : pc'[q] = "move" => q = p
      BY <3>1, <3>3 DEF EventInv, TypeOK
    <3>7. count'[p] = 1 /\ todo'[p] = 1
      BY <3>3 DEF EventInv, TypeOK
    <3>8. Counted' = InLists' + count'[p] - todo'[p]
      <4>1. \A n \in Nat : n = n + 1 - 1
        OBVIOUS
      <4>2. InLists' \in Nat
        BY <1>9, ListsBound
      <4> QED BY <3>2, <3>7, <4>1, <4>2
    <3>9. ~Suspending(p)'
      BY <3>3 DEF Suspending, EventInv, TypeOK
    <3>10. \A q \in Processes : q # p =>
             /\ pc'[q] = pc[q] /\ resumeList'[q] = resumeList[q]
             /\ Suspending(q)' => Suspending(q)
      BY <3>3 DEF EventInv, TypeOK, Suspending
    <3>11. \A q \in Processes :
              /\ pc'[q] = "wake" => resumeList'[q] # <<>>
              /\ pc'[q] \notin {"move", "wake"} => resumeList'[q] = <<>>
              /\ Suspending(q)' \/ pc'[q] \in {"awaitCas", "push", "suspended"} => q \in Awaiters
      BY <3>3, <3>9, <3>10 DEF EventInv, TypeOK, ResumerInv
    <3> QED BY <1>1, <3>3, <3>4, <3>5, <3>6, <3>7, <3>8, <3>11 DEF ResumerInv
  <2>2. CASE s > 0 \/ w = 0
    <3>1. UNCHANGED <<pc, ret, count, todo, resumeList>>
      BY <1>3, <1>6, <2>2
    <3>2. \A q \in Processes : count[q] \in Nat
      BY DEF EventInv, TypeOK, Halves
    <3>3. WaiterCount(mState') = WaiterCount(mState)
          /\ \A q \in Processes : count[q] <= SetCount(mState) => count[q] <= SetCount(mState')
      BY <1>3, <1>4, <3>2 DEF s, w
    <3> QED BY <1>1, <1>9, <3>1, <3>3 DEF EventInv, TypeOK, ResumerInv, Suspending
  <2> QED BY <1>3, <2>1, <2>2
<1>13. RestInv'
  <2>1. SUFFICES ASSUME \A q \in Processes : pc'[q] # "move"
                 PROVE  Counted' = InLists' /\ (SetCount(mState') = 0 \/ WaiterCount(mState') = 0)
    BY DEF RestInv
  <2>2. (s > 0 \/ w = 0) /\ \A q \in Processes : pc[q] # "move"
    BY <1>6, <2>1 DEF EventInv, TypeOK
  <2>3. Counted = InLists /\ (s = 0 \/ w = 0)
    BY <2>2 DEF EventInv, RestInv, s, w
  <2> QED BY <1>3, <1>4, <1>9, <2>2, <2>3
<1>14. SetInv'
  <2>1. \A q \in Processes : pc'[q] \notin {"move"} => pc'[q] = pc[q]
    BY <1>6 DEF EventInv, TypeOK
  <2> QED BY <1>1, <1>3, <1>4, <2>1 DEF EventInv, TypeOK, SetInv, s, w
<1> QED BY <1>7, <1>10, <1>11, <1>12, <1>13, <1>14 DEF EventInv

LEMMA StepResetLoad ==
    ASSUME ConcurrentReset = FALSE, EventInv, NEW p \in Processes, ResetLoad(p)
    PROVE  EventInv'
<1>1. /\ pc[p] = "idle" /\ \A q \in Processes : pc[q] \in {"idle", "suspended"}
      /\ SetCount(mState) > WaiterCount(mState)
      /\ old' = [old EXCEPT ![p] = mState] /\ pc' = [pc EXCEPT ![p] = "reset"]
      /\ UNCHANGED <<mState, mNewWaiters, mWaiters, count, todo, resumeList, ret, refCount>>
  BY DEF ResetLoad, MayCall, Goto
<1>2. TypeOK'
  BY <1>1 DEF EventInv, TypeOK, PCs
<1>3. Uncounted' = Uncounted
  BY <1>1 DEF Uncounted, EventInv, TypeOK
<1>4. Counted' = Counted /\ InLists' = InLists
  BY <1>1, <1>3 DEF Counted, InLists
<1>5. \A c \in Awaiters : ReferenceInv(c)'
  BY <1>1, KeepReferences, Constants DEF Suspending, EventInv, TypeOK
<1>6. ListsInv'
  BY <1>1, KeepLists DEF EventInv
<1>7. ResumerInv'
  BY <1>1 DEF EventInv, TypeOK, ResumerInv, Suspending
<1>8. RestInv'
  BY <1>1, <1>4 DEF EventInv, TypeOK, RestInv
<1>9. SetInv'
  BY <1>1 DEF EventInv, TypeOK, SetInv
<1> QED BY <1>2, <1>5, <1>6, <1>7, <1>8, <1>9 DEF EventInv

\* Alone, reset() finds the word it read and takes the set.
LEMMA StepResetCas ==
    ASSUME EventInv, NEW p \in Processes, ResetCas(p)
    PROVE  EventInv'
<1>1. /\ pc[p] = "reset" /\ old[p] = mState
      /\ SetCount(mState) > WaiterCount(mState)
      /\ \A q \in Processes : q = p \/ pc[q] \in {"idle", "suspended"}
  BY DEF ResetCas, EventInv, SetInv
<1>2. /\ mState' = Sum64(mState, -1)
      /\ old' = [old EXCEPT ![p] = 0] /\ pc' = [pc EXCEPT ![p] = "idle"]
      /\ UNCHANGED <<mNewWaiters, mWaiters, count, todo, resumeList, ret, refCount>>
  BY <1>1 DEF ResetCas, Goto
<1>3. /\ mState' \in Words /\ WaiterCount(mState') = WaiterCount(mState)
      /\ SetCount(mState') = SetCount(mState) - 1
      /\ SetCount(mState) \in Nat /\ WaiterCount(mState) \in Nat
  <2>1. mState \in Words /\ SetCount(mState) \in Halves /\ WaiterCount(mState) \in Halves
    BY HalvesBound DEF EventInv, TypeOK, Words
  <2>2. SetCount(mState) + (-1) \in Halves /\ WaiterCount(mState) + 0 \in Halves
    BY <1>1, <2>1, Constants DEF Halves
  <2>3. -1 = -1 + W * 0
    BY Constants
  <2>4. /\ Sum64(mState, -1) \in Words
        /\ SetCount(Sum64(mState, -1)) = SetCount(mState) + (-1)
        /\ WaiterCount(Sum64(mState, -1)) = WaiterCount(mState) + 0
    BY <2>1, <2>2, <2>3, Constants, AddToHalves
  <2> QED BY <1>2, <2>1, <2>4 DEF Halves
<1>4. TypeOK'
  BY <1>2, <1>3, Constants DEF EventInv, TypeOK, PCs, Words
<1>5. Uncounted' = Uncounted
  BY <1>1, <1>2 DEF Uncounted, EventInv, TypeOK
<1>6. Counted' = Counted /\ InLists' = InLists
  BY <1>2, <1>3, <1>5 DEF Counted, InLists
<1>7. \A c \in Awaiters : ReferenceInv(c)'
  BY <1>1, <1>2, KeepReferences, Constants DEF Suspending, EventInv, TypeOK
<1>8. ListsInv'
  BY <1>2, KeepLists DEF EventInv
<1>9. ResumerInv'
  BY <1>1, <1>2 DEF EventInv, TypeOK, ResumerInv, Suspending
<1>10. RestInv'
  <2>1. \A q \in Processes : pc[q] # "move"
    BY <1>1
  <2> QED BY <1>1, <1>3, <1>6, <2>1 DEF EventInv, RestInv
<1>11. SetInv'
  <2>1. SetCount(mState') <= WaiterCount(mState') + 1
    BY <1>3 DEF EventInv, SetInv
  <2>2. \A q \in Processes : pc'[q] \in {"idle", "suspended"}
    BY <1>1, <1>2 DEF EventInv, TypeOK
  <2> QED BY <2>1, <2>2 DEF SetInv
<1> QED BY <1>4, <1>7, <1>8, <1>9, <1>10, <1>11 DEF EventInv

-----------------------------------------------------------------------------
\* The steps of resume_waiters().

\* The lists lose their oldest waiter to the list of the resumer.
LEMMA MovedWaiter ==
    ASSUME EventInv, NEW p \in Processes, ResumeMove(p)
    PROVE  \E h \in Awaiters :
              /\ h \in ToSet(mNewWaiters) \cup ToSet(mWaiters)
              /\ mNewWaiters' \in Seq(Awaiters) /\ mWaiters' \in Seq(Awaiters)
              /\ IsInjective(mNewWaiters') /\ IsInjective(mWaiters')
              /\ ToSet(mNewWaiters') \cap ToSet(mWaiters') = {}
              /\ ToSet(mNewWaiters') \cup ToSet(mWaiters') =
                    (ToSet(mNewWaiters) \cup ToSet(mWaiters)) \ {h}
              /\ InLists' = InLists - 1
              /\ resumeList' = [resumeList EXCEPT ![p] = Append(@, h)]
<1>1. /\ mNewWaiters \in Seq(Awaiters) /\ mWaiters \in Seq(Awaiters)
      /\ IsInjective(mNewWaiters) /\ IsInjective(mWaiters)
      /\ ToSet(mNewWaiters) \cap ToSet(mWaiters) = {}
      /\ Len(mNewWaiters) \in Nat /\ Len(mWaiters) \in Nat
  BY DEF EventInv, TypeOK, ListsInv
<1>2. CASE mWaiters = <<>>
  <2> DEFINE s == Reverse(mNewWaiters)
  <2>1. /\ s # <<>> /\ mNewWaiters' = <<>> /\ mWaiters' = Tail(s)
        /\ resumeList' = [resumeList EXCEPT ![p] = Append(@, Head(s))]
    BY <1>2 DEF ResumeMove
  <2>2. /\ s \in Seq(Awaiters) /\ Len(s) = Len(mNewWaiters)
        /\ ToSet(s) = ToSet(mNewWaiters) /\ IsInjective(s)
    BY <1>1, Reversed
  <2> HIDE DEF s
  <2>3. /\ Head(s) \in Awaiters /\ Tail(s) \in Seq(Awaiters)
        /\ Len(Tail(s)) = Len(s) - 1 /\ Head(s) \in ToSet(s)
        /\ ToSet(Tail(s)) = ToSet(s) \ {Head(s)} /\ IsInjective(Tail(s))
    BY <2>1, <2>2, PopFront
  <2>4. ToSet(<<>>) = {} /\ IsInjective(<<>>) /\ Len(<<>>) = 0
    BY EmptyList
  <2>5. Len(mNewWaiters') = 0 /\ Len(mWaiters') = Len(mNewWaiters) - 1 /\ Len(mWaiters) = 0
    BY <1>2, <2>1, <2>2, <2>3, <2>4
  <2>6. InLists' = InLists - 1
    BY <1>1, <2>5 DEF InLists
  <2>7. <<>> \in Seq(Awaiters)
    OBVIOUS
  <2> QED BY <1>2, <2>1, <2>2, <2>3, <2>4, <2>6, <2>7
<1>3. CASE mWaiters # <<>>
  <2>1. /\ mNewWaiters' = mNewWaiters /\ mWaiters' = Tail(mWaiters)
        /\ resumeList' = [resumeList EXCEPT ![p] = Append(@, Head(mWaiters))]
    BY <1>3 DEF ResumeMove
  <2>2. /\ Head(mWaiters) \in Awaiters /\ Tail(mWaiters) \in Seq(Awaiters)
        /\ Len(Tail(mWaiters)) = Len(mWaiters) - 1 /\ Head(mWaiters) \in ToSet(mWaiters)
        /\ ToSet(Tail(mWaiters)) = ToSet(mWaiters) \ {Head(mWaiters)}
        /\ IsInjective(Tail(mWaiters))
    BY <1>1, <1>3, PopFront
  <2>3. InLists' = InLists - 1
    BY <1>1, <2>1, <2>2 DEF InLists
  <2> QED BY <1>1, <2>1, <2>2, <2>3
<1> QED BY <1>2, <1>3

LEMMA StepMove ==
    ASSUME EventInv, NEW p \in Processes, ResumeMove(p)
    PROVE  EventInv'
<1>1. /\ pc[p] = "move" /\ todo[p] > 0 /\ \A q \in Processes : pc[q] # "reset"
      /\ todo' = [todo EXCEPT ![p] = @ - 1]
      /\ UNCHANGED <<mState, pc, old, count, ret, refCount>>
  BY NoReset DEF ResumeMove
<1>2. PICK h \in Awaiters :
         /\ h \in ToSet(mNewWaiters) \cup ToSet(mWaiters)
         /\ mNewWaiters' \in Seq(Awaiters) /\ mWaiters' \in Seq(Awaiters)
         /\ IsInjective(mNewWaiters') /\ IsInjective(mWaiters')
         /\ ToSet(mNewWaiters') \cap ToSet(mWaiters') = {}
         /\ ToSet(mNewWaiters') \cup ToSet(mWaiters') =
               (ToSet(mNewWaiters) \cup ToSet(mWaiters)) \ {h}
         /\ InLists' = InLists - 1
         /\ resumeList' = [resumeList EXCEPT ![p] = Append(@, h)]
  BY MovedWaiter
<1>3. \A q \in Processes : h \notin ToSet(resumeList[q]) /\ resumeList[q] \in Seq(Awaiters)
  BY <1>2 DEF EventInv, TypeOK, ListsInv
<1>4. /\ resumeList'[p] \in Seq(Awaiters) /\ Len(resumeList'[p]) = Len(resumeList[p]) + 1
      /\ ToSet(resumeList'[p]) = ToSet(resumeList[p]) \cup {h}
      /\ IsInjective(resumeList'[p])
      /\ \A q \in Processes \ {p} : resumeList'[q] = resumeList[q]
      /\ resumeList' \in [Processes -> Seq(Awaiters)]
  <2>1. resumeList'[p] = Append(resumeList[p], h)
    BY <1>2 DEF EventInv, TypeOK
  <2>2. IsInjective(resumeList[p])
    BY DEF EventInv, ListsInv
  <2>3. /\ resumeList'[p] \in Seq(Awaiters) /\ Len(resumeList'[p]) = Len(resumeList[p]) + 1
        /\ ToSet(resumeList'[p]) = ToSet(resumeList[p]) \cup {h}
        /\ IsInjective(resumeList'[p])
    BY <1>3, <2>1, <2>2, PushBack
  <2> QED BY <1>2, <2>1, <2>3 DEF EventInv, TypeOK
<1>5. /\ todo'[p] = todo[p] - 1 /\ \A q \in Processes \ {p} : todo'[q] = todo[q]
      /\ todo' \in [Processes -> Halves]
  BY <1>1, Constants DEF EventInv, TypeOK, Halves
<1>6. TypeOK'
  BY <1>1, <1>2, <1>4, <1>5 DEF EventInv, TypeOK
<1>7. Counted' = Counted
  BY <1>1 DEF Counted, Uncounted
<1>8. \A c : Listed(c)' <=> Listed(c)
  BY <1>2, <1>4 DEF Listed
<1>9. \A c \in Awaiters : ReferenceInv(c)'
  BY <1>1, <1>8 DEF EventInv, ReferenceInv, Suspending
<1>10. ListsInv'
  <2>1. /\ ToSet(mNewWaiters') \subseteq (ToSet(mNewWaiters) \cup ToSet(mWaiters)) \ {h}
        /\ ToSet(mWaiters') \subseteq (ToSet(mNewWaiters) \cup ToSet(mWaiters)) \ {h}
    BY <1>2
  <2>2. \A q \in Processes :
           /\ IsInjective(resumeList'[q])
           /\ ToSet(resumeList'[q]) \cap ToSet(mNewWaiters') = {}
           /\ ToSet(resumeList'[q]) \cap ToSet(mWaiters') = {}
    BY <1>4, <2>1 DEF EventInv, ListsInv
  <2>3. ASSUME NEW q \in Processes, NEW r \in Processes, q # r
        PROVE  ToSet(resumeList'[q]) \cap ToSet(resumeList'[r]) = {}
    BY <1>3, <1>4, <2>3 DEF EventInv, ListsInv
  <2> QED BY <1>2, <2>2, <2>3 DEF ListsInv
<1>11. ResumerInv'
  <2>1. /\ count[p] \in Nat /\ todo[p] \in Nat /\ Len(resumeList[p]) \in Nat
        /\ InLists \in Nat
    BY ListsBound DEF EventInv, TypeOK, Halves
  <2>2. /\ 0 < count[p] /\ todo[p] <= count[p]
        /\ count[p] <= SetCount(mState) /\ count[p] <= WaiterCount(mState)
        /\ count[p] - todo[p] <= Len(resumeList[p])
        /\ Counted = InLists + count[p] - todo[p]
    BY <1>1 DEF EventInv, ResumerInv
  <2>3. /\ todo'[p] <= count[p] /\ count[p] - todo'[p] <= Len(resumeList'[p])
    BY <1>1, <1>4, <1>5, <2>1, <2>2
  <2>4. Counted' = InLists' + count[p] - todo'[p]
    <3>1. InLists' = InLists - 1
      BY <1>2
    <3> HIDE DEF Counted, InLists
    <3>2. Counted' = InLists + count[p] - todo[p] /\ todo'[p] = todo[p] - 1
      BY <1>5, <1>7, <2>2
    <3> QED BY <2>1, <3>1, <3>2
  <2>5. resumeList'[p] # <<>>
    BY <1>4, <2>1
  <2>6. \A q \in Processes : pc[q] = "move" => q = p
    BY <1>1 DEF EventInv, ResumerInv
  <2> QED BY <1>1, <1>4, <2>2, <2>3, <2>4, <2>5, <2>6 DEF EventInv, ResumerInv, Suspending
<1>12. RestInv'
  BY <1>1 DEF RestInv
<1>13. SetInv'
  BY <1>1 DEF EventInv, SetInv
<1> QED BY <1>6, <1>9, <1>10, <1>11, <1>12, <1>13 DEF EventInv

LEMMA StepSubtract ==
    ASSUME EventInv, NEW p \in Processes, ResumeSubtract(p)
    PROVE  EventInv'
<1> DEFINE s == SetCount(mState)
           w == WaiterCount(mState)
           n == count[p]
           more == Resumable(mState')
<1>1. /\ pc[p] = "move" /\ todo[p] = 0 /\ \A q \in Processes : pc[q] # "reset"
      /\ \A q \in Processes : q # p => pc[q] # "move"
      /\ n > 0 /\ n <= s /\ n <= w /\ n <= Len(resumeList[p])
      /\ Counted = InLists + n - todo[p]
  <2>1. pc[p] = "move" /\ todo[p] = 0 /\ \A q \in Processes : pc[q] # "reset"
    BY NoReset DEF ResumeSubtract
  <2>2. /\ \A q \in Processes : q # p => pc[q] # "move"
        /\ n > 0 /\ n <= s /\ n <= w /\ n - todo[p] <= Len(resumeList[p])
        /\ Counted = InLists + n - todo[p]
    BY <2>1 DEF EventInv, ResumerInv
  <2>3. n \in Nat
    BY DEF EventInv, TypeOK, Halves
  <2> QED BY <2>1, <2>2, <2>3
<1>2. /\ mState' = Sum64(mState, -(n * (W + 1)))
      /\ count' = [count EXCEPT ![p] = more] /\ todo' = [todo EXCEPT ![p] = more]
      /\ pc' = [pc EXCEPT ![p] = IF more > 0 THEN "move" ELSE "wake"]
      /\ UNCHANGED <<mNewWaiters, mWaiters, old, resumeList, ret, refCount>>
  BY DEF ResumeSubtract, Goto
<1>3. /\ mState \in Words /\ s \in Halves /\ w \in Halves /\ n \in Halves
      /\ s \in Nat /\ w \in Nat /\ n \in Nat
  BY HalvesBound DEF EventInv, TypeOK, Words, Halves
<1> HIDE DEF s, w, n, more
<1>4. mState' \in Words /\ SetCount(mState') = s - n /\ WaiterCount(mState') = w - n
  <2>1. s + (-n) \in Halves /\ w + (-n) \in Halves /\ -n \in Int
    BY <1>1, <1>3, Constants DEF Halves
  <2>2. -(n * (W + 1)) = -n + W * (-n) /\ -(n * (W + 1)) \in Int
    BY <1>3, Constants
  <2>3. /\ Sum64(mState, -(n * (W + 1))) \in Words
        /\ SetCount(Sum64(mState, -(n * (W + 1)))) = s + (-n)
        /\ WaiterCount(Sum64(mState, -(n * (W + 1)))) = w + (-n)
    BY <1>3, <2>1, <2>2, Constants, AddToHalves DEF s, w
  <2> QED BY <1>2, <1>3, <2>3
<1>5. /\ more \in Halves /\ more \in Nat /\ more <= s - n /\ more <= w - n
      /\ more = 0 => s - n = 0 \/ w - n = 0
  <2>1. more = IF s - n < w - n THEN s - n ELSE w - n
    BY <1>4 DEF more, Resumable
  <2>2. s - n \in Halves /\ w - n \in Halves
    BY <1>4, <1>1, <1>3, Constants DEF Halves
  <2> QED BY <1>1, <1>3, <2>1, <2>2 DEF Halves
<1>6. TypeOK'
  BY <1>2, <1>4, <1>5 DEF EventInv, TypeOK, PCs, Words
<1>7. Uncounted' = Uncounted
  BY <1>1, <1>2 DEF Uncounted, EventInv, TypeOK
<1>8. Counted' = InLists' /\ InLists' \in Nat
  <2>1. Counted' = w - n + Cardinality(Uncounted) /\ InLists' = InLists
    BY <1>2, <1>4, <1>7 DEF Counted, InLists
  <2>2. Counted = w + Cardinality(Uncounted) /\ Cardinality(Uncounted) \in Nat
    BY UncountedIsFinite DEF Counted, w
  <2>3. InLists \in Nat
    BY ListsBound
  <2> QED BY <1>1, <1>3, <2>1, <2>2, <2>3
<1>9. \A c \in Awaiters : ReferenceInv(c)'
  <2>1. ASSUME NEW c \in Awaiters
        PROVE  /\ Suspending(c)' <=> Suspending(c)
               /\ pc[c] = "suspended" => pc'[c] = "suspended"
    <3>1. CASE c = p
      BY <1>1, <1>2, <3>1 DEF Suspending, EventInv, TypeOK
    <3>2. CASE c # p
      BY <1>1, <1>2, <3>2, Constants DEF Suspending, EventInv, TypeOK
    <3> QED BY <3>1, <3>2
  <2> QED BY <1>2, <2>1, KeepReferences
<1>10. ListsInv'
  BY <1>2, KeepLists DEF EventInv
<1>11. ResumerInv'
  <2>1. resumeList[p] # <<>> /\ Len(resumeList[p]) \in Nat
    <3>1. Len(resumeList[p]) > 0 /\ Len(resumeList[p]) \in Nat
      BY <1>1, <1>3, ListsBound
    <3> QED BY <3>1
  <2>2. /\ count'[p] = more /\ todo'[p] = more
        /\ pc'[p] = IF more > 0 THEN "move" ELSE "wake"
    BY <1>2 DEF EventInv, TypeOK
  <2>3. Counted' = InLists' + count'[p] - todo'[p]
    <3>1. \A i, j \in Nat : i = i + j - j
      OBVIOUS
    <3> QED BY <1>5, <1>8, <2>2, <3>1
  <2>4. \A q \in Processes : q # p => pc'[q] # "move" /\ pc'[q] = pc[q]
    BY <1>1, <1>2 DEF EventInv, TypeOK
  <2>5. \A q \in Processes : Suspending(q)' => Suspending(q)
    BY <1>1, <1>2 DEF EventInv, TypeOK, Suspending
  <2>6. pc'[p] = "move" =>
           /\ 0 < count'[p] /\ todo'[p] <= count'[p]
           /\ count'[p] <= SetCount(mState') /\ count'[p] <= WaiterCount(mState')
           /\ count'[p] - todo'[p] <= Len(resumeList'[p])
    BY <1>2, <1>4, <1>5, <2>1, <2>2
  <2>7. \A q \in Processes :
           /\ pc'[q] = "wake" => resumeList'[q] # <<>>
           /\ pc'[q] \notin {"move", "wake"} => resumeList'[q] = <<>>
           /\ Suspending(q)' \/ pc'[q] \in {"awaitCas", "push", "suspended"} => q \in Awaiters
    BY <1>2, <2>1, <2>2, <2>4, <2>5 DEF EventInv, ResumerInv
  <2> QED BY <2>3, <2>4, <2>6, <2>7 DEF ResumerInv
<1>12. RestInv'
  <2>1. pc'[p] # "move" => more = 0
    BY <1>2, <1>5 DEF EventInv, TypeOK
  <2> QED BY <1>4, <1>5, <1>8, <2>1 DEF RestInv
<1>13. SetInv'
  <2>1. SetCount(mState') <= WaiterCount(mState') + 1
    <3>1. s <= w + 1
      BY DEF EventInv, SetInv, s, w
    <3> QED BY <1>3, <1>4, <3>1
  <2> QED BY <1>1, <1>2, <2>1 DEF EventInv, TypeOK, SetInv
<1> QED BY <1>6, <1>9, <1>10, <1>11, <1>12, <1>13 DEF EventInv

\* Taking the head off its list and a reference off its operation: it was the
\* last one exactly when the waiter has suspended.
LEMMA StepWake ==
    ASSUME EventInv, NEW p \in Processes, ResumeWake(p)
    PROVE  EventInv'
<1>1. /\ pc[p] = "wake" /\ \A q \in Processes : pc[q] # "reset"
      /\ resumeList[p] # <<>> /\ resumeList[p] \in Seq(Awaiters) /\ IsInjective(resumeList[p])
  BY NoReset DEF ResumeWake, EventInv, TypeOK, ListsInv, ResumerInv
<1>a. Head(resumeList[p]) \in Awaiters /\ Tail(resumeList[p]) \in Seq(Awaiters)
  BY <1>1, PopFront
<1>b. PICK c \in Awaiters, rest \in Seq(Awaiters) :
         c = Head(resumeList[p]) /\ rest = Tail(resumeList[p])
  BY <1>a
<1>2. /\ c \in Processes
      /\ c \in ToSet(resumeList[p])
      /\ ToSet(rest) = ToSet(resumeList[p]) \ {c} /\ IsInjective(rest)
  BY <1>1, <1>b, PopFront, Constants
<1>3. /\ refCount' = [refCount EXCEPT ![c] = @ - 1]
      /\ resumeList' = [resumeList EXCEPT ![p] = rest]
      /\ pc' = [q \in Processes |->
                   CASE q = c /\ refCount[c] = 1 -> "idle"
                     [] q = p /\ rest = <<>>     -> ret[p]
                     [] OTHER                    -> pc[q]]
      /\ ret' = IF rest = <<>> THEN [ret EXCEPT ![p] = "idle"] ELSE ret
      /\ UNCHANGED <<mState, mNewWaiters, mWaiters, old, count, todo>>
  BY <1>b DEF ResumeWake
<1>4. /\ Listed(c)
      /\ refCount[c] = 1 => pc[c] = "suspended" /\ c # p
      /\ refCount[c] # 1 => refCount[c] = 2 /\ Suspending(c)
  BY <1>1, <1>2 DEF EventInv, ReferenceInv, Suspending, Listed
<1>5. /\ refCount[c] = 1 => pc'[c] = "idle"
      /\ pc'[p] = IF rest = <<>> THEN ret[p] ELSE "wake"
      /\ \A q \in Processes : q # p /\ ~(q = c /\ refCount[c] = 1) => pc'[q] = pc[q]
      /\ \A q \in Processes : q # p => ret'[q] = ret[q]
      /\ ret'[p] = IF rest = <<>> THEN "idle" ELSE ret[p]
      /\ ret[p] \in {"idle", "release"}
  BY <1>1, <1>2, <1>3, <1>4 DEF EventInv, TypeOK
<1>6. TypeOK'
  <2>1. refCount' \in [Processes -> 0..2]
    BY <1>2, <1>3, <1>4 DEF EventInv, TypeOK
  <2>2. pc' \in [Processes -> PCs]
    BY <1>1, <1>3, <1>5 DEF EventInv, TypeOK, PCs
  <2>3. ret' \in [Processes -> {"idle", "release"}]
    BY <1>3 DEF EventInv, TypeOK
  <2> QED BY <1>2, <1>3, <2>1, <2>2, <2>3 DEF EventInv, TypeOK
<1>7. /\ resumeList'[p] = rest
      /\ \A q \in Processes : q # p => resumeList'[q] = resumeList[q]
  BY <1>3 DEF EventInv, TypeOK
<1>8. ~Listed(c)' /\ \A d \in Awaiters : d # c => (Listed(d)' <=> Listed(d))
  <2>1. /\ c \notin ToSet(mNewWaiters) /\ c \notin ToSet(mWaiters)
        /\ \A q \in Processes : q # p => c \notin ToSet(resumeList[q])
    BY <1>2 DEF EventInv, ListsInv
  <2>2. \A q \in Processes : c \notin ToSet(resumeList'[q])
    BY <1>2, <1>7, <2>1
  <2>3. \A d : d # c => \A q \in Processes : d \in ToSet(resumeList'[q]) <=> d \in ToSet(resumeList[q])
    BY <1>2, <1>7
  <2> QED BY <1>3, <2>1, <2>2, <2>3 DEF Listed
<1>9. \A q \in Processes :
         IF q = c /\ refCount[c] = 1 THEN ~Suspending(q)'
                                     ELSE Suspending(q)' <=> Suspending(q)
  BY <1>1, <1>4, <1>5 DEF Suspending
<1>10. ASSUME NEW d \in Awaiters PROVE ReferenceInv(d)'
  <2>0. d \in Processes
    BY Constants
  <2>1. CASE d = c
    BY <1>2, <1>3, <1>4, <1>8, <1>9, <2>1 DEF EventInv, TypeOK, ReferenceInv
  <2>2. CASE d # c
    <3>1. refCount'[d] = refCount[d] /\ (Listed(d)' <=> Listed(d)) /\ (Suspending(d)' <=> Suspending(d))
      BY <1>3, <1>8, <1>9, <2>0, <2>2 DEF EventInv, TypeOK
    <3>2. pc[d] = "suspended" => pc'[d] = "suspended"
      BY <1>1, <1>5, <2>0, <2>2
    <3> QED BY <3>1, <3>2 DEF EventInv, ReferenceInv
  <2> QED BY <2>1, <2>2
<1>11. ListsInv'
  <2>1. \A q \in Processes : ToSet(resumeList'[q]) \subseteq ToSet(resumeList[q])
                             /\ IsInjective(resumeList'[q])
    BY <1>2, <1>7 DEF EventInv, ListsInv
  <2> QED BY <1>3, <2>1 DEF EventInv, ListsInv
<1>12. \A q \in Processes : /\ pc'[q] = "move" <=> pc[q] = "move"
                            /\ pc'[q] = "count" <=> pc[q] = "count"
                            /\ pc'[q] \in {"idle", "release"} \/ pc'[q] = pc[q]
  BY <1>1, <1>4, <1>5
<1>13. Counted' = Counted /\ InLists' = InLists
  <2>1. Uncounted' = Uncounted
    BY <1>12 DEF Uncounted
  <2> QED BY <1>3, <2>1 DEF Counted, InLists
<1>14. ResumerInv'
  <2>1. \A q \in Processes : pc[q] = "move" => resumeList'[q] = resumeList[q]
    BY <1>1, <1>7
  <2>2. ASSUME NEW q \in Processes
        PROVE  /\ pc'[q] = "wake" => resumeList'[q] # <<>>
               /\ pc'[q] \notin {"move", "wake"} => resumeList'[q] = <<>>
    <3>1. CASE q = p
      BY <1>5, <1>7, <3>1
    <3>2. CASE q # p
      <4>1. CASE q = c /\ refCount[c] = 1
        BY <1>4, <1>5, <1>7, <3>2, <4>1 DEF EventInv, ResumerInv
      <4>2. CASE ~(q = c /\ refCount[c] = 1)
        BY <1>5, <1>7, <3>2, <4>2 DEF EventInv, ResumerInv
      <4> QED BY <4>1, <4>2
    <3> QED BY <3>1, <3>2
  <2>3. ASSUME NEW q \in Processes,
               Suspending(q)' \/ pc'[q] \in {"awaitCas", "push", "suspended"}
        PROVE  q \in Awaiters
    BY <1>2, <1>9, <1>12, <2>3 DEF EventInv, ResumerInv
  <2> QED BY <1>3, <1>12, <1>13, <2>1, <2>2, <2>3 DEF EventInv, ResumerInv
<1>15. RestInv'
  BY <1>3, <1>12, <1>13 DEF EventInv, RestInv
<1>16. SetInv'
  BY <1>1, <1>3, <1>12 DEF EventInv, SetInv
<1> QED BY <1>6, <1>10, <1>11, <1>14, <1>15, <1>16 DEF EventInv

-----------------------------------------------------------------------------
LEMMA StepEventInv ==
    ASSUME ConcurrentReset = FALSE, EventInv, [Next]_vars
    PROVE  EventInv'
<1>1. CASE UNCHANGED vars
  <2>1. /\ \A c : (Listed(c)' <=> Listed(c)) /\ (Suspending(c)' <=> Suspending(c))
        /\ Counted' = Counted /\ InLists' = InLists
    BY <1>1 DEF vars, locals, Listed, Suspending, Counted, Uncounted, InLists
  <2> QED BY <1>1, <2>1 DEF vars, locals, EventInv, TypeOK, ReferenceInv, ListsInv,
                            ResumerInv, RestInv, SetInv
<1>2. CASE Next
  <2>1. PICK p \in Processes : AwaitLoad(p) \/ Set(p) \/ ResetLoad(p) \/ Continue(p)
    BY <1>2 DEF Next
  <2> QED BY <2>1, StepAwaitLoad, StepAwaitCas, StepAwaitPush, StepAwaitCount,
             StepAwaitRelease, StepSet, StepResetLoad, StepResetCas, StepMove,
             StepSubtract, StepWake DEF Continue
<1> QED BY <1>1, <1>2

LEMMA InvCounts == ASSUME EventInv PROVE WordCountsWaiters
<1>2. Cardinality(Resumers) <= 1
  <2>1. CASE Resumers = {}
    BY <2>1, FS_EmptySet
  <2>2. CASE Resumers # {}
    <3>1. PICK p \in Processes : pc[p] = "move"
      BY <2>2 DEF Resumers
    <3>2. Resumers = {p}
      BY <3>1 DEF Resumers, EventInv, ResumerInv
    <3> QED BY <3>2, FS_Singleton
  <2> QED BY <2>1, <2>2
<1>3. Resumers = {} => Counted = InLists
  BY DEF Resumers, EventInv, RestInv
<1>4. ASSUME NEW p \in Resumers
      PROVE  /\ Counted = InLists + (count[p] - todo[p])
             /\ todo[p] > 0 => mWaiters # <<>> \/ mNewWaiters # <<>>
  <2>1. p \in Processes /\ pc[p] = "move"
    BY DEF Resumers
  <2>2. /\ count[p] <= WaiterCount(mState) /\ Counted = InLists + count[p] - todo[p]
        /\ count[p] \in Nat /\ todo[p] \in Nat
    BY <2>1 DEF EventInv, TypeOK, ResumerInv, Halves
  <2>3. /\ Cardinality(Uncounted) \in Nat /\ InLists \in Nat /\ WaiterCount(mState) \in Nat
        /\ Counted = WaiterCount(mState) + Cardinality(Uncounted)
    BY <2>1, UncountedIsFinite, HalvesBound, ListsBound DEF Counted
  <2>4. InLists >= todo[p]
    BY <2>2, <2>3
  <2>5. mWaiters = <<>> /\ mNewWaiters = <<>> => InLists = 0
    BY DEF InLists
  <2> QED BY <2>2, <2>3, <2>4, <2>5
<1> QED BY <1>2, <1>3, <1>4 DEF WordCountsWaiters, Counted, InLists, Uncounted, Resumers

LEMMA InvNotStranded == ASSUME EventInv PROVE NoStrandedWaiter
<1>1. Resumers = {} => SetCount(mState) = 0 \/ WaiterCount(mState) = 0
  BY DEF Resumers, EventInv, RestInv
<1> QED BY <1>1 DEF NoStrandedWaiter

LEMMA InvDestructor == ASSUME EventInv PROVE DestructorAsserts
<1> SUFFICES ASSUME \A p \in Processes : pc[p] = "idle"
             PROVE  WaiterCount(mState) = 0 /\ mNewWaiters = <<>> /\ mWaiters = <<>>
  BY DEF DestructorAsserts
<1>1. \A c \in Awaiters : ~Listed(c)
  BY Constants DEF EventInv, ReferenceInv, Suspending
<1>2. ASSUME NEW s \in Seq(Awaiters), s # <<>> PROVE \E c \in Awaiters : c \in ToSet(s)
  BY <1>2, PopFront
<1>3. mNewWaiters = <<>> /\ mWaiters = <<>>
  BY <1>1, <1>2 DEF EventInv, TypeOK, Listed
<1>4. Counted = 0
  BY <1>3 DEF EventInv, RestInv, InLists
<1>5. WaiterCount(mState) \in Nat /\ Cardinality(Uncounted) \in Nat
  BY HalvesBound, UncountedIsFinite
<1> QED BY <1>3, <1>4, <1>5 DEF Counted

\* For any processes and awaiters: one process at a time uses the list of
\* waiters, and the word agrees with the lists whenever waiters are taken.
THEOREM CountSafety ==
    ASSUME ConcurrentReset = FALSE PROVE Spec => []WordCountsWaiters
BY InitEventInv, StepEventInv, InvCounts, PTL DEF Spec

\* For any processes and awaiters: set() and co_await never leave a set beside
\* a waiter, in whatever order they update the word and the lists.
THEOREM MatchSafety ==
    ASSUME ConcurrentReset = FALSE PROVE Spec => []NoStrandedWaiter
BY InitEventInv, StepEventInv, InvNotStranded, PTL DEF Spec

\* What the destructor asserts is true when nobody uses the event.
THEOREM DestructorSafety ==
    ASSUME ConcurrentReset = FALSE PROVE Spec => []DestructorAsserts
BY InitEventInv, StepEventInv, InvDestructor, PTL DEF Spec

=============================================================================
