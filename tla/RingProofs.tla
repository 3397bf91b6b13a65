------------------------------ MODULE RingProofs ------------------------------
(***************************************************************************)
(* The ring buffers, for every size and any number of threads: the local   *)
(* queue of a worker implements the deque, the sequencer with one producer *)
(* stays ahead of its consumer, and with many producers nobody uses a slot *)
(* that another one writes and nobody is left asleep on published numbers. *)
(***************************************************************************)
EXTENDS WorkStealingDeque, SingleProducerSequencer, MultiProducerSequencer,
        Lemmas, SequenceTheorems

-----------------------------------------------------------------------------
(* The local queue of a worker *)

OwnerPCs == {"idle", "enqueue", "publish", "pop", "reload", "popLock"}
ThiefPCs == {"idle", "steal", "stealCheck", "stealTake"}

\* The operations of the queue are those from Lo to Hi - 1: a thief that has
\* raised m_tail and an owner that has lowered m_head have not taken theirs.
Raised(t) == dequePc[t] \in {"stealCheck", "stealTake"}
Lo == IF \E t \in Thieves : Raised(t) THEN tail - 1 ELSE tail
Hi == IF dequePc[Owner] \in {"reload", "popLock"} THEN head + 1 ELSE head

Holds(lo, hi, b, m, p) ==
    /\ lo <= hi /\ hi - lo <= m + 1
    /\ Len(p) = hi - lo
    /\ \A k \in 1..Len(p) : p[k] = b[(lo + k - 1) % (m + 1)]

Sorted(p, n) ==
    /\ \A i, j \in 1..Len(p) : i < j => p[i] < p[j]
    /\ \A i \in 1..Len(p) : p[i] < n

DequeTypes ==
    /\ mask \in Nat /\ buf \in [0..mask -> Nat]
    /\ head \in Int /\ tail \in Int /\ seenTail \in Int /\ next \in Nat \ {0}
    /\ present \in Seq(Items)
    /\ dequePc \in [Thieves \cup {Owner} -> OwnerPCs \cup ThiefPCs]
    /\ dequePc[Owner] \in OwnerPCs
    /\ \A t \in Thieves : dequePc[t] \in ThiefPCs

LockInv ==
    /\ lock \in Thieves \cup {Free}
    /\ \A t \in Thieves : lock = t <=> dequePc[t] # "idle"

ContentsInv == 0 <= Lo /\ Holds(Lo, Hi, buf, mask, present) /\ Sorted(present, next)

\* What the owner remembers of m_tail is at most one too high, since a thief
\* raises it by one and may take that back.
EnqueueInv ==
    /\ dequePc[Owner] \in {"enqueue", "publish"} => next \in Items
    /\ dequePc[Owner] = "enqueue" => seenTail <= Lo + 1
    /\ dequePc[Owner] = "publish" => head - Lo <= mask /\ buf[Cell(head)] = next

StealInv == \A t \in Thieves : dequePc[t] = "stealTake" => Lo < Hi

DequeInv == DequeTypes /\ LockInv /\ ContentsInv /\ EnqueueInv /\ StealInv

-----------------------------------------------------------------------------
\* Two indices less than the size of a buffer apart are in different cells.
LEMMA DistinctCells ==
    ASSUME NEW m \in Nat \ {0}, NEW i \in Int, NEW j \in Int, i < j, j - i < m
    PROVE  i % m # j % m
<1>1. /\ i = m * (i \div m) + (i % m) /\ i % m \in 0..m - 1 /\ i \div m \in Int
      /\ j = m * (j \div m) + (j % m) /\ j % m \in 0..m - 1 /\ j \div m \in Int
  OBVIOUS
<1>2. SUFFICES ASSUME i % m = j % m PROVE FALSE
  OBVIOUS
<1> DEFINE d == (j \div m) - (i \div m)
<1>3. d \in Int /\ j - i = m * d
  BY <1>1, <1>2
<1> HIDE DEF d
<1>4. CASE d <= 0
  <2>1. m * d <= 0
    BY <1>3, <1>4
  <2> QED BY <2>1, <1>3
<1>5. CASE d >= 1
  <2>1. m * d >= m
    BY <1>3, <1>5
  <2> QED BY <2>1, <1>3
<1> QED BY <1>3, <1>4, <1>5

LEMMA CellInBuffer ==
    ASSUME NEW m \in Nat, NEW i \in Int PROVE i % (m + 1) \in 0..m
OBVIOUS

\* An operation is written beside those that are there.
Has(hi, b, m, x) == b[hi % (m + 1)] = x
Written(hi, b, m, x, c) == c = [b EXCEPT ![hi % (m + 1)] = x]

LEMMA WriteHolds ==
    ASSUME NEW lo \in Int, NEW hi \in Int, NEW m \in Nat, NEW b \in [0..m -> Nat],
           NEW p \in Seq(Nat), NEW x \in Nat, Holds(lo, hi, b, m, p), hi - lo <= m,
           NEW c, Written(hi, b, m, x, c)
    PROVE  c \in [0..m -> Nat] /\ Holds(lo, hi, c, m, p) /\ Has(hi, c, m, x)
<1>1. hi % (m + 1) \in 0..m
  BY CellInBuffer
<1>2. c \in [0..m -> Nat] /\ c[hi % (m + 1)] = x
  BY <1>1 DEF Written
<1>3. ASSUME NEW k \in 1..Len(p) PROVE p[k] = c[(lo + k - 1) % (m + 1)]
  <2>1. lo + k - 1 \in Int /\ lo + k - 1 < hi /\ hi - (lo + k - 1) < m + 1
    BY DEF Holds
  <2>2. (lo + k - 1) % (m + 1) # hi % (m + 1)
    <3>1. m + 1 \in Nat \ {0}
      OBVIOUS
    <3> QED BY <2>1, <3>1, DistinctCells
  <2>3. (lo + k - 1) % (m + 1) \in 0..m
    BY <2>1, CellInBuffer
  <2> QED BY <2>2, <2>3 DEF Holds, Written
<1> QED BY <1>2, <1>3 DEF Holds, Has

LEMMA PushHolds ==
    ASSUME NEW lo \in Int, NEW hi \in Int, NEW m \in Nat, NEW b \in [0..m -> Nat],
           NEW p \in Seq(Nat), Holds(lo, hi, b, m, p), hi - lo <= m
    PROVE  Holds(lo, hi + 1, b, m, Append(p, b[hi % (m + 1)]))
<1> DEFINE q == Append(p, b[hi % (m + 1)])
<1>1. b[hi % (m + 1)] \in Nat
  BY CellInBuffer
<1>2. /\ Len(q) = Len(p) + 1 /\ q[Len(p) + 1] = b[hi % (m + 1)]
      /\ \A k \in 1..Len(p) : q[k] = p[k]
  BY <1>1
<1>3. PICK l \in Nat : Len(p) = l /\ Len(q) = l + 1 /\ l = hi - lo
  <2>1. Len(p) = hi - lo
    BY DEF Holds
  <2> QED BY <1>2, <2>1
<1> HIDE DEF q
<1>0. ASSUME NEW k \in 1..l + 1 PROVE q[k] = b[(lo + k - 1) % (m + 1)]
  <2>1. CASE k = l + 1
    <3>1. lo + k - 1 = hi
      BY <1>3, <2>1
    <3> QED BY <1>2, <1>3, <2>1, <3>1
  <2>2. CASE k # l + 1
    <3>1. k \in 1..l
      BY <2>2
    <3>2. p[k] = b[(lo + k - 1) % (m + 1)]
      BY <1>3, <3>1 DEF Holds
    <3> QED BY <1>2, <1>3, <3>1, <3>2
  <2> QED BY <2>1, <2>2
<1>4. Holds(lo, hi + 1, b, m, q)
  BY <1>0, <1>3 DEF Holds
<1> QED BY <1>4 DEF q

LEMMA PopHolds ==
    ASSUME NEW lo \in Int, NEW hi \in Int, NEW m \in Nat, NEW b \in [0..m -> Nat],
           NEW p \in Seq(Nat), Holds(lo, hi, b, m, p), lo < hi
    PROVE  /\ p # <<>> /\ Last(p) = b[(hi - 1) % (m + 1)]
           /\ Holds(lo, hi - 1, b, m, Front(p))
<1>1. Len(p) \in Nat /\ Len(p) = hi - lo /\ Len(p) >= 1
  BY DEF Holds
<1>2. Len(Front(p)) = Len(p) - 1 /\ \A k \in 1..Len(p) - 1 : Front(p)[k] = p[k]
  BY <1>1 DEF Front
<1>3. Last(p) = b[(hi - 1) % (m + 1)]
  <2>1. lo + Len(p) - 1 = hi - 1 /\ Len(p) \in 1..Len(p)
    BY <1>1
  <2> QED BY <2>1 DEF Last, Holds
<1>4. Holds(lo, hi - 1, b, m, Front(p))
  <2>1. \A k \in 1..Len(p) - 1 : k \in 1..Len(p)
    BY <1>1
  <2> QED BY <1>1, <1>2, <2>1 DEF Holds
<1> QED BY <1>1, <1>3, <1>4

LEMMA StealHolds ==
    ASSUME NEW lo \in Int, NEW hi \in Int, NEW m \in Nat, NEW b \in [0..m -> Nat],
           NEW p \in Seq(Nat), Holds(lo, hi, b, m, p), lo < hi
    PROVE  /\ p # <<>> /\ Head(p) = b[lo % (m + 1)]
           /\ Holds(lo + 1, hi, b, m, Tail(p))
<1>1. Len(p) \in Nat /\ Len(p) = hi - lo /\ Len(p) >= 1
  BY DEF Holds
<1>2. /\ Len(Tail(p)) = Len(p) - 1 /\ \A k \in 1..Len(p) - 1 : Tail(p)[k] = p[k + 1]
      /\ Head(p) = p[1]
  BY <1>1
<1>3. Head(p) = b[lo % (m + 1)]
  <2>1. 1 \in 1..Len(p) /\ lo + 1 - 1 = lo
    BY <1>1
  <2> QED BY <1>2, <2>1 DEF Holds
<1>4. ASSUME NEW k \in 1..Len(p) - 1 PROVE Tail(p)[k] = b[(lo + 1 + k - 1) % (m + 1)]
  <2>1. k + 1 \in 1..Len(p) /\ lo + (k + 1) - 1 = lo + 1 + k - 1
    BY <1>1
  <2> QED BY <1>2, <2>1 DEF Holds
<1>5. Holds(lo + 1, hi, b, m, Tail(p))
  BY <1>1, <1>2, <1>4 DEF Holds
<1> QED BY <1>1, <1>3, <1>5

\* The cells of the larger buffer, as EnqueueGrow fills them.
Copied(lo, hi, n) == {i % n : i \in lo..hi - 1}
Original(lo, hi, n, j) == CHOOSE i \in lo..hi - 1 : i % n = j
Grown(lo, hi, b, m, n, x, c) ==
    c = [j \in 0..n - 1 |->
            CASE j = hi % n -> x
              [] j \in Copied(lo, hi, n) -> b[Original(lo, hi, n, j) % (m + 1)]
              [] OTHER -> 0]

LEMMA GrowHolds ==
    ASSUME NEW lo \in Int, NEW hi \in Int, NEW m \in Nat, NEW b \in [0..m -> Nat],
           NEW p \in Seq(Nat), NEW x \in Nat, Holds(lo, hi, b, m, p),
           NEW n \in Nat, n = (m + 1) * 2, NEW c, Grown(lo, hi, b, m, n, x, c)
    PROVE  c \in [0..n - 1 -> Nat] /\ Holds(lo, hi, c, n - 1, p) /\ Has(hi, c, n - 1, x)
<1>1. n \in Nat \ {0} /\ n > m + 1 /\ (n - 1) + 1 = n /\ hi - lo <= m + 1 /\ lo <= hi
  BY DEF Holds
<1>2. ASSUME NEW i \in lo..hi - 1
      PROVE  /\ i % n \in Copied(lo, hi, n) /\ Original(lo, hi, n, i % n) = i
             /\ i % n # hi % n
  <2>1. i \in Int /\ i < hi /\ hi - i < n
    BY <1>1
  <2>2. \A k \in lo..hi - 1 : k % n = i % n => k = i
    <3>1. SUFFICES ASSUME NEW k \in lo..hi - 1, k % n = i % n, k # i PROVE FALSE
      OBVIOUS
    <3>2. CASE k < i
      <4>1. k \in Int /\ i - k < n
        BY <1>1
      <4> QED BY <4>1, <2>1, <3>1, <3>2, <1>1, DistinctCells
    <3>3. CASE i < k
      <4>1. k \in Int /\ k - i < n
        BY <1>1
      <4> QED BY <4>1, <2>1, <3>1, <3>3, <1>1, DistinctCells
    <3> QED BY <3>1, <3>2, <3>3
  <2>3. Original(lo, hi, n, i % n) = i
    BY <2>2 DEF Original
  <2>4. i % n # hi % n
    BY <2>1, <1>1, DistinctCells
  <2> QED BY <2>3, <2>4 DEF Copied
<1>3. ASSUME NEW i \in lo..hi - 1 PROVE c[i % n] = b[i % (m + 1)]
  <2>1. i % n \in 0..n - 1
    BY <1>1
  <2> QED BY <1>2, <2>1 DEF Grown
<1>4. c \in [0..n - 1 -> Nat]
  <2>1. ASSUME NEW j \in 0..n - 1, j \in Copied(lo, hi, n)
        PROVE  b[Original(lo, hi, n, j) % (m + 1)] \in Nat
    <3>1. PICK i \in lo..hi - 1 : j = i % n
      BY <2>1 DEF Copied
    <3>2. Original(lo, hi, n, j) = i /\ i \in Int
      BY <3>1, <1>2
    <3> QED BY <3>2, CellInBuffer
  <2>2. ASSUME NEW j \in 0..n - 1
        PROVE  (CASE j = hi % n -> x
                  [] j \in Copied(lo, hi, n) -> b[Original(lo, hi, n, j) % (m + 1)]
                  [] OTHER -> 0) \in Nat
    BY <2>1
  <2>3. c = [j \in 0..n - 1 |->
                    CASE j = hi % n -> x
                  [] j \in Copied(lo, hi, n) -> b[Original(lo, hi, n, j) % (m + 1)]
                  [] OTHER -> 0]
    BY DEF Grown
  <2> QED BY <2>2, <2>3
<1>5. c[hi % n] = x
  <2>1. PICK j \in 0..n - 1 : j = hi % n
    BY <1>1
  <2>2. j \notin Copied(lo, hi, n)
    BY <1>2, <2>1 DEF Copied
  <2> QED BY <2>1, <2>2 DEF Grown
<1>6. ASSUME NEW k \in 1..Len(p) PROVE p[k] = c[(lo + k - 1) % n]
  <2>1. lo + k - 1 \in lo..hi - 1
    BY DEF Holds
  <2>2. p[k] = b[(lo + k - 1) % (m + 1)]
    BY DEF Holds
  <2> QED BY <1>3, <2>1, <2>2
<1>7. Holds(lo, hi, c, n - 1, p)
  BY <1>1, <1>6 DEF Holds
<1>8. Has(hi, c, n - 1, x)
  BY <1>1, <1>5 DEF Has
<1> QED BY <1>4, <1>7, <1>8

\* The bookkeeping of an operation that is taken at an end of the queue.
LEMMA TakeLast ==
    ASSUME NEW p \in Seq(Nat), NEW n \in Nat, Sorted(p, n), p # <<>>
    PROVE  /\ Last(p) \in ToSet(p) /\ Sorted(Front(p), n)
           /\ RemoveAt(p, CHOOSE i \in DOMAIN p : p[i] = Last(p)) = Front(p)
<1>1. Len(p) \in Nat /\ Len(p) \in 1..Len(p) /\ DOMAIN p = 1..Len(p)
  OBVIOUS
<1>2. \A i \in DOMAIN p : p[i] = Last(p) => i = Len(p)
  BY <1>1 DEF Sorted, Last
<1>3. (CHOOSE i \in DOMAIN p : p[i] = Last(p)) = Len(p)
  BY <1>1, <1>2 DEF Last
<1>4. RemoveAt(p, Len(p)) = Front(p)
  BY <1>1 DEF RemoveAt, Front
<1>5. Len(Front(p)) = Len(p) - 1 /\ \A k \in 1..Len(p) - 1 : Front(p)[k] = p[k]
  BY <1>1 DEF Front
<1>6. Sorted(Front(p), n)
  BY <1>1, <1>5 DEF Sorted
<1> QED BY <1>1, <1>3, <1>4, <1>6 DEF Last, ToSet

LEMMA TakeHead ==
    ASSUME NEW p \in Seq(Nat), NEW n \in Nat, Sorted(p, n), p # <<>>
    PROVE  /\ Head(p) \in ToSet(p) /\ Sorted(Tail(p), n)
           /\ RemoveAt(p, CHOOSE i \in DOMAIN p : p[i] = Head(p)) = Tail(p)
<1>1. Len(p) \in Nat /\ 1 \in 1..Len(p) /\ DOMAIN p = 1..Len(p) /\ Head(p) = p[1]
  OBVIOUS
<1>2. \A i \in DOMAIN p : p[i] = p[1] => i = 1
  BY <1>1 DEF Sorted
<1>3. (CHOOSE i \in DOMAIN p : p[i] = p[1]) = 1
  BY <1>1, <1>2
<1>4. RemoveAt(p, 1) = Tail(p)
  BY <1>1 DEF RemoveAt
<1>5. Len(Tail(p)) = Len(p) - 1 /\ \A k \in 1..Len(p) - 1 : Tail(p)[k] = p[k + 1]
  BY <1>1
<1>6. Sorted(Tail(p), n)
  <2>1. \A k \in 1..Len(p) - 1 : k + 1 \in 1..Len(p) /\ k \in Int
    BY <1>1
  <2> QED BY <1>1, <1>5, <2>1 DEF Sorted
<1> QED BY <1>1, <1>3, <1>4, <1>6 DEF ToSet

LEMMA PushSorted ==
    ASSUME NEW p \in Seq(Nat), NEW n \in Nat, Sorted(p, n)
    PROVE  Sorted(Append(p, n), n + 1)
<1> DEFINE q == Append(p, n)
<1>1. /\ Len(p) \in Nat /\ Len(q) = Len(p) + 1 /\ q[Len(p) + 1] = n
      /\ \A k \in 1..Len(p) : q[k] = p[k] /\ p[k] \in Nat
  OBVIOUS
<1> HIDE DEF q
<1>2. \A k \in 1..Len(q) : k = Len(p) + 1 \/ k \in 1..Len(p)
  BY <1>1
<1>3. Sorted(q, n + 1)
  <2>1. ASSUME NEW i \in 1..Len(q), NEW j \in 1..Len(q), i < j PROVE q[i] < q[j]
    <3>1. i \in 1..Len(p) /\ p[i] < n
      BY <1>1, <2>1 DEF Sorted
    <3>2. CASE j = Len(p) + 1
      BY <1>1, <3>1, <3>2
    <3>3. CASE j \in 1..Len(p)
      BY <1>1, <2>1, <3>1, <3>3 DEF Sorted
    <3> QED BY <1>2, <3>2, <3>3
  <2>2. ASSUME NEW i \in 1..Len(q) PROVE q[i] < n + 1
    <3>1. CASE i = Len(p) + 1
      BY <1>1, <3>1
    <3>2. CASE i \in 1..Len(p)
      <4>1. p[i] < n /\ q[i] = p[i] /\ p[i] \in Nat
        BY <1>1, <3>2 DEF Sorted
      <4> QED BY <4>1
    <3> QED BY <1>2, <3>1, <3>2
  <2> QED BY <2>1, <2>2 DEF Sorted
<1> QED BY <1>3 DEF q

-----------------------------------------------------------------------------
\* Steps of the owner and of a thief leave the other's place alone.

LEMMA Bounds ==
    ASSUME DequeInv
    PROVE  /\ Lo \in Nat /\ Hi \in Int /\ Lo <= Hi /\ Hi - Lo <= mask + 1
           /\ present \in Seq(Nat)
BY DequeAssumption, SeqMonotonic DEF DequeInv, DequeTypes, ContentsInv, Holds, Lo, Hi, Items

LEMMA OwnerMoves ==
    ASSUME DequeTypes, NEW a \in OwnerPCs, DequeGoto(Owner, a), tail' = tail
    PROVE  /\ dequePc' \in [Thieves \cup {Owner} -> OwnerPCs \cup ThiefPCs]
           /\ dequePc'[Owner] = a
           /\ \A t \in Thieves : dequePc'[t] = dequePc[t]
           /\ Lo' = Lo
<1>1. \A t \in Thieves : t # Owner
  BY DequeAssumption DEF Owner, Free
<1>2. \A t \in Thieves : dequePc'[t] = dequePc[t]
  BY <1>1 DEF DequeGoto, DequeTypes
<1>3. Lo' = Lo
  BY <1>2 DEF Lo, Raised
<1> QED BY <1>2, <1>3 DEF DequeGoto, DequeTypes

LEMMA ThiefMoves ==
    ASSUME DequeTypes, LockInv, NEW t \in Thieves, NEW a \in ThiefPCs, DequeGoto(t, a),
           lock \in {t, Free}, head' = head
    PROVE  /\ dequePc' \in [Thieves \cup {Owner} -> OwnerPCs \cup ThiefPCs]
           /\ dequePc'[t] = a
           /\ \A u \in Thieves \ {t} : dequePc'[u] = "idle" /\ dequePc[u] = "idle"
           /\ dequePc'[Owner] = dequePc[Owner] /\ Hi' = Hi
           /\ Lo = IF Raised(t) THEN tail - 1 ELSE tail
           /\ Lo' = IF a \in {"stealCheck", "stealTake"} THEN tail' - 1 ELSE tail'
<1>1. t # Owner /\ Free \notin Thieves
  BY DequeAssumption DEF Owner, Free
<1>2. \A u \in Thieves \ {t} : dequePc'[u] = "idle" /\ dequePc[u] = "idle"
  BY <1>1 DEF DequeGoto, DequeTypes, LockInv
<1>3. dequePc'[t] = a
  BY DEF DequeGoto, DequeTypes
<1>4. dequePc'[Owner] = dequePc[Owner] /\ Hi' = Hi
  BY <1>1 DEF DequeGoto, DequeTypes, Hi
<1>5. (\E u \in Thieves : Raised(u)) <=> Raised(t)
  BY <1>2 DEF Raised
<1>6. (\E u \in Thieves : Raised(u)') <=> a \in {"stealCheck", "stealTake"}
  BY <1>2, <1>3 DEF Raised
<1> QED BY <1>2, <1>3, <1>4, <1>5, <1>6 DEF DequeGoto, DequeTypes, Lo

\* The owner takes the newest operation, a thief the oldest.
LEMMA TakesNewest ==
    ASSUME DequeInv, Lo < Hi, Take(buf[Cell(Hi - 1)])
    PROVE  /\ present # <<>> /\ present' = Front(present)
           /\ takes' = [takes EXCEPT ![Last(present)] = @ + 1]
           /\ present' \in Seq(Items)
           /\ Holds(Lo, Hi - 1, buf, mask, present') /\ Sorted(present', next)
<1>1. /\ Lo \in Int /\ Hi \in Int /\ mask \in Nat /\ buf \in [0..mask -> Nat]
      /\ present \in Seq(Nat) /\ next \in Nat
      /\ Holds(Lo, Hi, buf, mask, present) /\ Sorted(present, next)
  BY Bounds DEF DequeInv, DequeTypes, ContentsInv
<1>2. PICK x : x = buf[Cell(Hi - 1)]
  OBVIOUS
<1>3. /\ present # <<>> /\ Last(present) = x
      /\ Holds(Lo, Hi - 1, buf, mask, Front(present))
  BY <1>1, <1>2, PopHolds DEF Cell
<1>4. /\ x \in ToSet(present) /\ Sorted(Front(present), next)
      /\ RemoveAt(present, CHOOSE i \in DOMAIN present : present[i] = x) = Front(present)
  BY <1>1, <1>3, TakeLast
<1>5. Take(x)
  BY <1>2
<1>6. present' = Front(present) /\ takes' = [takes EXCEPT ![x] = @ + 1]
  BY <1>4, <1>5 DEF Take
<1>7. Front(present) \in Seq(Items)
  BY <1>3 DEF Front, DequeInv, DequeTypes
<1> QED BY <1>3, <1>4, <1>6, <1>7

LEMMA TakesOldest ==
    ASSUME DequeInv, Lo < Hi, Take(buf[Cell(Lo)])
    PROVE  /\ present # <<>> /\ present' = Tail(present)
           /\ takes' = [takes EXCEPT ![Head(present)] = @ + 1]
           /\ present' \in Seq(Items)
           /\ Holds(Lo + 1, Hi, buf, mask, present') /\ Sorted(present', next)
<1>1. /\ Lo \in Int /\ Hi \in Int /\ mask \in Nat /\ buf \in [0..mask -> Nat]
      /\ present \in Seq(Nat) /\ next \in Nat
      /\ Holds(Lo, Hi, buf, mask, present) /\ Sorted(present, next)
  BY Bounds DEF DequeInv, DequeTypes, ContentsInv
<1>2. PICK x : x = buf[Cell(Lo)]
  OBVIOUS
<1>3. /\ present # <<>> /\ Head(present) = x
      /\ Holds(Lo + 1, Hi, buf, mask, Tail(present))
  BY <1>1, <1>2, StealHolds DEF Cell
<1>4. /\ x \in ToSet(present) /\ Sorted(Tail(present), next)
      /\ RemoveAt(present, CHOOSE i \in DOMAIN present : present[i] = x) = Tail(present)
  BY <1>1, <1>3, TakeHead
<1>5. Take(x)
  BY <1>2
<1>6. present' = Tail(present) /\ takes' = [takes EXCEPT ![x] = @ + 1]
  BY <1>4, <1>5 DEF Take
<1>7. Tail(present) \in Seq(Items)
  BY <1>3 DEF DequeInv, DequeTypes
<1> QED BY <1>3, <1>4, <1>6, <1>7

-----------------------------------------------------------------------------
\* The steps of the owner.

LEMMA EnqueueLoadStep == ASSUME DequeInv, EnqueueLoad PROVE DequeInv'
<1> USE DEF EnqueueLoad, shared, history, DequeInv
<1>1. "enqueue" \in OwnerPCs
  BY DEF OwnerPCs
<1>2. /\ dequePc' \in [Thieves \cup {Owner} -> OwnerPCs \cup ThiefPCs]
      /\ dequePc'[Owner] = "enqueue" /\ Lo' = Lo
      /\ \A t \in Thieves : dequePc'[t] = dequePc[t]
  BY <1>1, OwnerMoves
<1>3. Hi' = Hi
  BY <1>2 DEF Hi
<1>4. DequeTypes'
  BY <1>1, <1>2 DEF DequeTypes
<1>5. LockInv' /\ ContentsInv' /\ StealInv'
  BY <1>2, <1>3 DEF LockInv, ContentsInv, StealInv
<1>6. tail <= Lo + 1
  BY DEF Lo, DequeTypes
<1> QED BY <1>2, <1>4, <1>5, <1>6 DEF EnqueueInv

LEMMA EnqueueWriteStep == ASSUME DequeInv, EnqueueWrite PROVE DequeInv'
<1> USE DEF EnqueueWrite, history, DequeInv
<1>1. "publish" \in OwnerPCs
  BY DEF OwnerPCs
<1>2. /\ dequePc' \in [Thieves \cup {Owner} -> OwnerPCs \cup ThiefPCs]
      /\ dequePc'[Owner] = "publish" /\ Lo' = Lo
      /\ \A t \in Thieves : dequePc'[t] = dequePc[t]
  BY <1>1, OwnerMoves
<1>3. Hi' = Hi /\ Hi = head
  BY <1>2 DEF Hi
<1>4. Hi - Lo <= mask
  BY <1>3, Bounds DEF EnqueueInv, DequeTypes
<1>5. /\ Lo \in Int /\ Hi \in Int /\ mask \in Nat /\ buf \in [0..mask -> Nat]
      /\ present \in Seq(Nat) /\ next \in Nat /\ Holds(Lo, Hi, buf, mask, present)
  BY Bounds DEF DequeTypes, ContentsInv
<1>6. buf' = [buf EXCEPT ![Hi % (mask + 1)] = next]
  BY <1>3 DEF Cell
<1>7. /\ buf' \in [0..mask -> Nat] /\ Holds(Lo, Hi, buf', mask, present)
      /\ Has(Hi, buf', mask, next)
  <2>1. PICK c : c = buf'
    OBVIOUS
  <2>2. Written(Hi, buf, mask, next, c)
    BY <1>6, <2>1 DEF Written
  <2> HIDE DEF EnqueueWrite, DequeInv
  <2>3. c \in [0..mask -> Nat] /\ Holds(Lo, Hi, c, mask, present) /\ Has(Hi, c, mask, next)
    BY <1>4, <1>5, <2>2, WriteHolds
  <2> QED BY <2>1, <2>3
<1>8. DequeTypes'
  BY <1>1, <1>2, <1>7 DEF DequeTypes
<1>9. ContentsInv'
  BY <1>2, <1>3, <1>7 DEF ContentsInv
<1>10. LockInv' /\ StealInv'
  BY <1>2, <1>3 DEF LockInv, StealInv
<1>11. EnqueueInv'
  <2>1. (head - Lo <= mask)' /\ (next \in Items)'
    BY <1>2, <1>3, <1>4 DEF EnqueueInv
  <2>2. (buf[Cell(head)] = next)'
    BY <1>3, <1>7 DEF Cell, Has
  <2> QED BY <1>2, <2>1, <2>2 DEF EnqueueInv
<1> QED BY <1>8, <1>9, <1>10, <1>11

LEMMA EnqueuePublishStep == ASSUME DequeInv, EnqueuePublish PROVE DequeInv'
<1> USE DEF EnqueuePublish, DequeInv
<1>1. "idle" \in OwnerPCs
  BY DEF OwnerPCs
<1>2. /\ dequePc' \in [Thieves \cup {Owner} -> OwnerPCs \cup ThiefPCs]
      /\ dequePc'[Owner] = "idle" /\ Lo' = Lo
      /\ \A t \in Thieves : dequePc'[t] = dequePc[t]
  BY <1>1, OwnerMoves
<1>3. Hi' = Hi + 1 /\ Hi = head
  BY <1>2 DEF Hi
<1>4. /\ Lo \in Int /\ Hi \in Int /\ mask \in Nat /\ buf \in [0..mask -> Nat]
      /\ present \in Seq(Nat) /\ next \in Nat /\ Holds(Lo, Hi, buf, mask, present)
      /\ Sorted(present, next)
  BY Bounds DEF DequeTypes, ContentsInv
<1>5. Hi - Lo <= mask /\ buf[Hi % (mask + 1)] = next /\ next \in Items
  BY <1>3 DEF EnqueueInv, Cell
<1>6. Holds(Lo, Hi + 1, buf, mask, present')
  BY <1>4, <1>5, PushHolds
<1>7. Sorted(present', next')
  BY <1>4, PushSorted
<1>8. DequeTypes'
  BY <1>1, <1>2, <1>5 DEF DequeTypes
<1>9. ContentsInv'
  BY <1>2, <1>3, <1>6, <1>7 DEF ContentsInv
<1>10. LockInv' /\ EnqueueInv'
  BY <1>2 DEF LockInv, EnqueueInv
<1>11. StealInv'
  <2>1. Lo <= Hi
    BY Bounds
  <2>2. Lo' < Hi'
    BY <1>2, <1>3, <1>4, <2>1
  <2> QED BY <2>2 DEF StealInv
<1> QED BY <1>8, <1>9, <1>10, <1>11

LEMMA EnqueueGrowStep == ASSUME DequeInv, EnqueueGrow PROVE DequeInv'
<1> USE DEF DequeInv
<1>1. "idle" \in OwnerPCs
  BY DEF OwnerPCs
<1>2. /\ dequePc' \in [Thieves \cup {Owner} -> OwnerPCs \cup ThiefPCs]
      /\ dequePc'[Owner] = "idle" /\ Lo' = Lo
      /\ \A t \in Thieves : dequePc'[t] = dequePc[t]
  BY <1>1, OwnerMoves DEF EnqueueGrow
<1>3. Hi' = Hi + 1 /\ Hi = head
  BY <1>2 DEF Hi, EnqueueGrow
<1>4. \A t \in Thieves : dequePc[t] = "idle"
  BY DequeAssumption DEF LockInv, EnqueueGrow
<1>5. Lo = tail
  BY <1>4 DEF Lo, Raised
<1>6. /\ Lo \in Int /\ Hi \in Int /\ mask \in Nat /\ buf \in [0..mask -> Nat]
      /\ present \in Seq(Nat) /\ next \in Nat /\ Holds(Lo, Hi, buf, mask, present)
      /\ Sorted(present, next) /\ Hi - Lo <= mask + 1
  BY Bounds DEF DequeTypes, ContentsInv
<1>7. PICK n \in Nat : n = (mask + 1) * 2
  BY <1>6
<1>8. mask' = n - 1 /\ ((mask + 1) * 2 - 1) + 1 = n /\ mask' \in Nat
  BY <1>6, <1>7 DEF EnqueueGrow
<1>9. Grown(Lo, Hi, buf, mask, n, next, buf')
  BY <1>3, <1>5, <1>7, <1>8 DEF EnqueueGrow, Grown, Copied, Original, Cell
<1>10. /\ buf' \in [0..n - 1 -> Nat] /\ Holds(Lo, Hi, buf', n - 1, present)
       /\ Has(Hi, buf', n - 1, next)
  <2>1. PICK c : c = buf'
    OBVIOUS
  <2>2. Grown(Lo, Hi, buf, mask, n, next, c)
    BY <1>9, <2>1
  <2> HIDE DEF DequeInv
  <2>3. c \in [0..n - 1 -> Nat] /\ Holds(Lo, Hi, c, n - 1, present) /\ Has(Hi, c, n - 1, next)
    BY <1>6, <1>7, <2>2, GrowHolds
  <2> QED BY <2>1, <2>3
<1>11. /\ present' = Append(present, next) /\ next' = next + 1 /\ next \in Items
       /\ tail' = tail /\ lock' = lock /\ seenTail' = 0 /\ head' = head + 1
  BY DEF EnqueueGrow, EnqueueInv
<1>12. Holds(Lo, Hi + 1, buf', n - 1, present')
  <2>1. n - 1 \in Nat /\ (n - 1) + 1 = n /\ Hi - Lo <= n - 1
    BY <1>6, <1>7
  <2>2. Holds(Lo, Hi + 1, buf', n - 1, Append(present, buf'[Hi % ((n - 1) + 1)]))
    BY <1>6, <1>10, <2>1, PushHolds
  <2> QED BY <1>10, <1>11, <2>1, <2>2 DEF Has
<1>13. Sorted(present', next')
  BY <1>6, <1>11, PushSorted
<1>14. DequeTypes'
  BY <1>1, <1>2, <1>8, <1>10, <1>11 DEF DequeTypes
<1>15. ContentsInv'
  BY <1>2, <1>3, <1>8, <1>12, <1>13 DEF ContentsInv
<1>16. LockInv' /\ EnqueueInv'
  BY <1>2, <1>11 DEF LockInv, EnqueueInv
<1>17. StealInv'
  BY <1>2, <1>4 DEF StealInv
<1> QED BY <1>14, <1>15, <1>16, <1>17

LEMMA EnqueueFailStep == ASSUME DequeInv, EnqueueFail PROVE DequeInv'
<1> USE DEF EnqueueFail, shared, history, DequeInv
<1>1. "idle" \in OwnerPCs
  BY DEF OwnerPCs
<1>2. /\ dequePc' \in [Thieves \cup {Owner} -> OwnerPCs \cup ThiefPCs]
      /\ dequePc'[Owner] = "idle" /\ Lo' = Lo
      /\ \A t \in Thieves : dequePc'[t] = dequePc[t]
  BY <1>1, OwnerMoves
<1>3. Hi' = Hi
  BY <1>2 DEF Hi
<1>4. DequeTypes'
  BY <1>1, <1>2 DEF DequeTypes
<1>5. Sorted(present, next)'
  <2>1. next \in Nat /\ present \in Seq(Nat) /\ Sorted(present, next)
    BY Bounds DEF DequeTypes, ContentsInv
  <2>2. Sorted(present, next + 1)
    <3>1. \A i \in 1..Len(present) : present[i] < next + 1
      BY <2>1 DEF Sorted
    <3> QED BY <2>1, <3>1 DEF Sorted
  <2> QED BY <2>2
<1>6. ContentsInv'
  BY <1>2, <1>3, <1>5 DEF ContentsInv
<1>7. LockInv' /\ StealInv' /\ EnqueueInv'
  BY <1>2, <1>3 DEF LockInv, StealInv, EnqueueInv
<1> QED BY <1>4, <1>6, <1>7

LEMMA PopCheckStep == ASSUME DequeInv, PopCheck PROVE DequeInv'
<1> USE DEF PopCheck, shared, history, DequeInv
<1>1. "pop" \in OwnerPCs
  BY DEF OwnerPCs
<1>2. /\ dequePc' \in [Thieves \cup {Owner} -> OwnerPCs \cup ThiefPCs]
      /\ dequePc'[Owner] = "pop" /\ Lo' = Lo
      /\ \A t \in Thieves : dequePc'[t] = dequePc[t]
  BY <1>1, OwnerMoves
<1>3. Hi' = Hi
  BY <1>2 DEF Hi
<1>4. DequeTypes'
  BY <1>1, <1>2 DEF DequeTypes
<1>5. LockInv' /\ ContentsInv' /\ StealInv' /\ EnqueueInv'
  BY <1>2, <1>3 DEF LockInv, ContentsInv, StealInv, EnqueueInv
<1> QED BY <1>4, <1>5

\* m_head is lowered, the operation is still the owner's to take or to leave.
LEMMA PopReserveStep == ASSUME DequeInv, PopReserve PROVE DequeInv'
<1> USE DEF PopReserve, history, DequeInv
<1>1. "reload" \in OwnerPCs
  BY DEF OwnerPCs
<1>2. /\ dequePc' \in [Thieves \cup {Owner} -> OwnerPCs \cup ThiefPCs]
      /\ dequePc'[Owner] = "reload" /\ Lo' = Lo
      /\ \A t \in Thieves : dequePc'[t] = dequePc[t]
  BY <1>1, OwnerMoves
<1>3. Hi' = Hi
  BY <1>2 DEF Hi, DequeTypes
<1>4. DequeTypes'
  BY <1>1, <1>2 DEF DequeTypes
<1>5. LockInv' /\ ContentsInv' /\ StealInv' /\ EnqueueInv'
  BY <1>2, <1>3 DEF LockInv, ContentsInv, StealInv, EnqueueInv
<1> QED BY <1>4, <1>5

\* What the owner takes without the mutex no thief is after: m_tail, raised
\* by a thief or not, is below it.
PopTakes == (PopReload \/ PopLocked) /\ head - tail >= 0

LEMMA PopTakesNewest ==
    ASSUME DequeInv, PopTakes
    PROVE  /\ Lo < Hi /\ Take(buf[Cell(Hi - 1)]) /\ head' = head /\ Hi = head + 1
           /\ DequeGoto(Owner, "idle")
           /\ UNCHANGED <<shared, seenTail, next>>
<1>1. Hi = head + 1 /\ Lo <= tail /\ Hi - 1 = head
  BY DEF PopTakes, PopReload, PopLocked, Hi, Lo, DequeInv, DequeTypes
<1>2. Lo < Hi
  BY <1>1, Bounds DEF PopTakes, DequeInv, DequeTypes
<1>3. ~(head - tail < 0)
  BY DEF PopTakes, DequeInv, DequeTypes
<1> QED BY <1>1, <1>2, <1>3 DEF PopTakes, PopReload, PopLocked, shared

LEMMA PopTakesStep == ASSUME DequeInv, PopTakes PROVE DequeInv'
<1>1. /\ Lo < Hi /\ Take(buf[Cell(Hi - 1)]) /\ Hi = head + 1
      /\ DequeGoto(Owner, "idle") /\ UNCHANGED <<buf, mask, head, tail, lock, seenTail, next>>
  BY PopTakesNewest DEF shared
<1>2. /\ present' \in Seq(Items)
      /\ Holds(Lo, Hi - 1, buf, mask, present') /\ Sorted(present', next)
  BY <1>1, TakesNewest
<1>3. "idle" \in OwnerPCs
  BY DEF OwnerPCs
<1>4. /\ dequePc' \in [Thieves \cup {Owner} -> OwnerPCs \cup ThiefPCs]
      /\ dequePc'[Owner] = "idle" /\ Lo' = Lo
      /\ \A t \in Thieves : dequePc'[t] = dequePc[t]
  BY <1>1, <1>3, OwnerMoves DEF DequeInv
<1>5. Hi' = Hi - 1
  BY <1>1, <1>4 DEF Hi, DequeInv, DequeTypes
<1>6. DequeTypes'
  BY <1>1, <1>2, <1>3, <1>4 DEF DequeInv, DequeTypes
<1>7. ContentsInv'
  BY <1>1, <1>2, <1>4, <1>5 DEF DequeInv, ContentsInv
<1>8. LockInv' /\ EnqueueInv'
  BY <1>1, <1>4 DEF DequeInv, LockInv, EnqueueInv
<1>9. StealInv'
  <2>1. SUFFICES ASSUME NEW t \in Thieves, dequePc[t] = "stealTake" PROVE Lo < Hi - 1
    BY <1>4, <1>5 DEF StealInv
  <2>2. Lo = tail - 1
    BY <2>1 DEF Lo, Raised
  <2>3. lock # Free
    BY <2>1, DequeAssumption DEF DequeInv, LockInv
  <2>4. head - tail >= 0
    BY DEF PopTakes
  <2> QED BY <1>1, <2>2, <2>4 DEF DequeInv, DequeTypes
<1> QED BY <1>6, <1>7, <1>8, <1>9 DEF DequeInv

LEMMA PopLeaves ==
    ASSUME DequeInv, PopReload \/ PopLocked, ~PopTakes
    PROVE  DequeInv' /\ UNCHANGED history
<1>1. head - tail < 0
  BY DEF PopTakes, DequeInv, DequeTypes
<1>2. PICK a \in {"idle", "popLock"} :
          /\ DequeGoto(Owner, a) /\ head' = (IF a = "idle" THEN head + 1 ELSE head)
          /\ dequePc[Owner] \in {"reload", "popLock"}
          /\ UNCHANGED <<buf, mask, tail, lock, seenTail, next, present, takes>>
  BY <1>1 DEF PopReload, PopLocked, shared, history
<1>3. a \in OwnerPCs
  BY DEF OwnerPCs
<1>4. /\ dequePc' \in [Thieves \cup {Owner} -> OwnerPCs \cup ThiefPCs]
      /\ dequePc'[Owner] = a /\ Lo' = Lo
      /\ \A t \in Thieves : dequePc'[t] = dequePc[t]
  BY <1>2, <1>3, OwnerMoves DEF DequeInv
<1>5. Hi' = Hi
  BY <1>2, <1>4 DEF Hi
<1>6. head' \in Int
  BY <1>2 DEF DequeInv, DequeTypes
<1>7. DequeTypes'
  BY <1>2, <1>3, <1>4, <1>6 DEF DequeInv, DequeTypes
<1>8. LockInv' /\ ContentsInv' /\ StealInv' /\ EnqueueInv'
  BY <1>2, <1>4, <1>5 DEF DequeInv, LockInv, ContentsInv, StealInv, EnqueueInv
<1> QED BY <1>2, <1>7, <1>8 DEF DequeInv, history

-----------------------------------------------------------------------------
\* The steps of a thief.

LEMMA StealLockStep == ASSUME DequeInv, NEW t \in Thieves, StealLock(t) PROVE DequeInv'
<1> USE DEF StealLock, history, DequeInv
<1>1. "steal" \in ThiefPCs
  BY DEF ThiefPCs
<1>2. /\ dequePc' \in [Thieves \cup {Owner} -> OwnerPCs \cup ThiefPCs]
      /\ dequePc'[t] = "steal"
      /\ \A u \in Thieves \ {t} : dequePc'[u] = "idle" /\ dequePc[u] = "idle"
      /\ dequePc'[Owner] = dequePc[Owner] /\ Hi' = Hi
      /\ Lo = (IF Raised(t) THEN tail - 1 ELSE tail) /\ Lo' = tail'
  BY <1>1, ThiefMoves
<1>3. Lo' = Lo
  BY <1>2 DEF Raised
<1>4. DequeTypes'
  BY <1>1, <1>2 DEF DequeTypes
<1>5. LockInv' /\ StealInv'
  BY <1>2 DEF LockInv, StealInv
<1>6. ContentsInv' /\ EnqueueInv'
  BY <1>2, <1>3 DEF ContentsInv, EnqueueInv, Cell
<1> QED BY <1>4, <1>5, <1>6

LEMMA StealAdvanceStep == ASSUME DequeInv, NEW t \in Thieves, StealAdvance(t) PROVE DequeInv'
<1> USE DEF StealAdvance, history, DequeInv
<1>1. "stealCheck" \in ThiefPCs /\ lock = t
  BY DEF ThiefPCs, LockInv
<1>2. /\ dequePc' \in [Thieves \cup {Owner} -> OwnerPCs \cup ThiefPCs]
      /\ dequePc'[t] = "stealCheck"
      /\ \A u \in Thieves \ {t} : dequePc'[u] = "idle" /\ dequePc[u] = "idle"
      /\ dequePc'[Owner] = dequePc[Owner] /\ Hi' = Hi
      /\ Lo = (IF Raised(t) THEN tail - 1 ELSE tail) /\ Lo' = tail' - 1
  BY <1>1, ThiefMoves
<1>3. Lo' = Lo
  BY <1>2 DEF Raised, DequeTypes
<1>4. DequeTypes'
  BY <1>1, <1>2 DEF DequeTypes
<1>5. LockInv' /\ StealInv'
  BY <1>1, <1>2 DEF LockInv, StealInv
<1>6. ContentsInv' /\ EnqueueInv'
  BY <1>2, <1>3 DEF ContentsInv, EnqueueInv, Cell
<1> QED BY <1>4, <1>5, <1>6

LEMMA StealCheckStep == ASSUME DequeInv, NEW t \in Thieves, StealCheck(t) PROVE DequeInv'
<1>1. lock = t /\ dequePc[t] = "stealCheck" /\ tail \in Int /\ head \in Int
  BY DEF DequeInv, DequeTypes, LockInv, StealCheck
<1>2. CASE head - (tail - 1) > 0
  <2>1. /\ DequeGoto(t, "stealTake") /\ "stealTake" \in ThiefPCs
        /\ UNCHANGED <<buf, mask, head, tail, lock, seenTail, next, present, takes>>
    BY <1>2 DEF StealCheck, history, ThiefPCs
  <2>2. /\ dequePc' \in [Thieves \cup {Owner} -> OwnerPCs \cup ThiefPCs]
        /\ dequePc'[t] = "stealTake"
        /\ \A u \in Thieves \ {t} : dequePc'[u] = "idle" /\ dequePc[u] = "idle"
        /\ dequePc'[Owner] = dequePc[Owner] /\ Hi' = Hi
        /\ Lo = (IF Raised(t) THEN tail - 1 ELSE tail) /\ Lo' = tail' - 1
    BY <1>1, <2>1, ThiefMoves DEF DequeInv
  <2>3. Lo' = Lo /\ Lo = tail - 1
    BY <1>1, <2>1, <2>2 DEF Raised
  <2>4. Lo < Hi
    BY <1>1, <1>2, <2>3 DEF Hi
  <2>5. DequeTypes'
    BY <2>1, <2>2 DEF DequeInv, DequeTypes
  <2>6. LockInv' /\ StealInv'
    BY <1>1, <2>1, <2>2, <2>3, <2>4 DEF DequeInv, LockInv, StealInv
  <2>7. ContentsInv' /\ EnqueueInv'
    BY <2>1, <2>2, <2>3 DEF DequeInv, ContentsInv, EnqueueInv, Cell
  <2> QED BY <2>5, <2>6, <2>7 DEF DequeInv
<1>3. CASE ~(head - (tail - 1) > 0)
  <2>1. /\ DequeGoto(t, "idle") /\ "idle" \in ThiefPCs /\ tail' = tail - 1 /\ lock' = Free
        /\ UNCHANGED <<buf, mask, head, seenTail, next, present, takes>>
    BY <1>3 DEF StealCheck, history, ThiefPCs
  <2>2. /\ dequePc' \in [Thieves \cup {Owner} -> OwnerPCs \cup ThiefPCs]
        /\ dequePc'[t] = "idle"
        /\ \A u \in Thieves \ {t} : dequePc'[u] = "idle" /\ dequePc[u] = "idle"
        /\ dequePc'[Owner] = dequePc[Owner] /\ Hi' = Hi
        /\ Lo = (IF Raised(t) THEN tail - 1 ELSE tail) /\ Lo' = tail'
    BY <1>1, <2>1, ThiefMoves DEF DequeInv
  <2>3. Lo' = Lo
    BY <1>1, <2>1, <2>2 DEF Raised
  <2>5. DequeTypes'
    BY <1>1, <2>1, <2>2 DEF DequeInv, DequeTypes
  <2>6. LockInv' /\ StealInv'
    BY <2>1, <2>2, DequeAssumption DEF DequeInv, LockInv, StealInv
  <2>7. ContentsInv' /\ EnqueueInv'
    BY <2>1, <2>2, <2>3 DEF DequeInv, ContentsInv, EnqueueInv, Cell
  <2> QED BY <2>5, <2>6, <2>7 DEF DequeInv
<1> QED BY <1>2, <1>3

LEMMA StealTakesOldest ==
    ASSUME DequeInv, NEW t \in Thieves, StealTake(t)
    PROVE  Lo < Hi /\ Lo = tail - 1 /\ Take(buf[Cell(Lo)])
<1>1. Lo = tail - 1
  BY DEF StealTake, Lo, Raised
<1> QED BY <1>1 DEF StealTake, DequeInv, StealInv

LEMMA StealTakeStep == ASSUME DequeInv, NEW t \in Thieves, StealTake(t) PROVE DequeInv'
<1>1. /\ lock = t /\ tail \in Int /\ DequeGoto(t, "idle") /\ "idle" \in ThiefPCs
      /\ lock' = Free /\ UNCHANGED <<buf, mask, head, tail, seenTail, next>>
  BY DEF DequeInv, DequeTypes, LockInv, StealTake, ThiefPCs
<1>2. Lo < Hi /\ Lo = tail - 1 /\ Take(buf[Cell(Lo)])
  BY StealTakesOldest
<1>3. /\ present' \in Seq(Items)
      /\ Holds(Lo + 1, Hi, buf, mask, present') /\ Sorted(present', next)
  BY <1>2, TakesOldest
<1>4. /\ dequePc' \in [Thieves \cup {Owner} -> OwnerPCs \cup ThiefPCs]
      /\ dequePc'[t] = "idle"
      /\ \A u \in Thieves \ {t} : dequePc'[u] = "idle" /\ dequePc[u] = "idle"
      /\ dequePc'[Owner] = dequePc[Owner] /\ Hi' = Hi /\ Lo' = tail'
  BY <1>1, ThiefMoves DEF DequeInv
<1>5. Lo' = Lo + 1 /\ Lo \in Nat
  BY <1>1, <1>2, <1>4, Bounds
<1>6. DequeTypes'
  BY <1>1, <1>3, <1>4 DEF DequeInv, DequeTypes
<1>7. LockInv' /\ StealInv'
  BY <1>1, <1>4, DequeAssumption DEF DequeInv, LockInv, StealInv
<1>8. ContentsInv'
  BY <1>1, <1>3, <1>4, <1>5 DEF ContentsInv
<1>9. EnqueueInv'
  <2>1. (head - Lo <= mask => head - (Lo + 1) <= mask) /\ (seenTail <= Lo + 1 => seenTail <= Lo + 1 + 1)
    BY <1>5 DEF DequeInv, DequeTypes
  <2> QED BY <1>1, <1>4, <1>5, <2>1 DEF DequeInv, EnqueueInv, Cell
<1> QED BY <1>6, <1>7, <1>8, <1>9 DEF DequeInv

-----------------------------------------------------------------------------

LEMMA InitDequeInv == DequeInit => DequeInv
<1> SUFFICES ASSUME DequeInit PROVE DequeInv
  OBVIOUS
<1>1. /\ dequePc \in [Thieves \cup {Owner} -> OwnerPCs \cup ThiefPCs]
      /\ \A t \in Thieves \cup {Owner} : dequePc[t] = "idle"
  BY DEF DequeInit, OwnerPCs, ThiefPCs
<1>2. Lo = 0 /\ Hi = 0
  BY <1>1 DEF DequeInit, Lo, Hi, Raised
<1>3. InitSize - 1 \in Nat
  BY DequeAssumption
<1>4. DequeTypes
  BY <1>1, <1>3 DEF DequeInit, DequeTypes, OwnerPCs, ThiefPCs
<1>5. LockInv
  BY <1>1, DequeAssumption DEF DequeInit, LockInv
<1>6. Holds(0, 0, buf, mask, <<>>) /\ Sorted(<<>>, next)
  BY <1>3 DEF DequeInit, Holds, Sorted
<1>7. ContentsInv
  BY <1>2, <1>6 DEF DequeInit, ContentsInv
<1>8. EnqueueInv /\ StealInv
  BY <1>1 DEF EnqueueInv, StealInv
<1> QED BY <1>4, <1>5, <1>7, <1>8 DEF DequeInv

LEMMA StepDequeInv == DequeInv /\ [DequeNext]_dequeVars => DequeInv'
<1> SUFFICES ASSUME DequeInv, [DequeNext]_dequeVars PROVE DequeInv'
  OBVIOUS
<1>1. CASE OwnerStep
  <2>1. CASE PopReload \/ PopLocked
    BY <2>1, PopTakesStep, PopLeaves
  <2> QED BY <1>1, <2>1, EnqueueLoadStep, EnqueueWriteStep, EnqueuePublishStep,
             EnqueueGrowStep, EnqueueFailStep, PopCheckStep, PopReserveStep DEF OwnerStep
<1>2. CASE \E t \in Thieves : ThiefStep(t)
  BY <1>2, StealLockStep, StealAdvanceStep, StealCheckStep, StealTakeStep DEF ThiefStep
<1>3. CASE UNCHANGED dequeVars
  <2>1. Lo' = Lo /\ Hi' = Hi
    BY <1>3 DEF dequeVars, Lo, Hi, Raised
  <2> QED BY <1>3, <2>1 DEF dequeVars, DequeInv, DequeTypes, LockInv, ContentsInv, EnqueueInv,
                            StealInv, Cell
<1> QED BY <1>1, <1>2, <1>3 DEF DequeNext

LEMMA InvIntact == DequeInv => ContentsAreIntact
<1> SUFFICES ASSUME DequeInv PROVE ContentsAreIntact
  OBVIOUS
<1>1. /\ Lo \in Int /\ Hi \in Int /\ mask \in Nat /\ buf \in [0..mask -> Nat]
      /\ present \in Seq(Nat) /\ Holds(Lo, Hi, buf, mask, present)
  BY Bounds DEF DequeInv, DequeTypes, ContentsInv
<1>2. StolenSlotIsIntact
  <2>1. SUFFICES ASSUME NEW t \in Thieves, dequePc[t] = "stealTake"
                 PROVE  present # <<>> /\ buf[Cell(tail - 1)] = Head(present)
    BY DEF StolenSlotIsIntact
  <2>2. Lo = tail - 1 /\ Lo < Hi
    BY <2>1 DEF Lo, Raised, DequeInv, StealInv
  <2> QED BY <1>1, <2>2, StealHolds DEF Cell
<1>3. ContentsInOrder
  <2>1. SUFFICES ASSUME dequePc[Owner] = "idle", lock = Free
                 PROVE  present = [k \in 1..head - tail |-> buf[Cell(tail + k - 1)]]
    BY DEF ContentsInOrder
  <2>2. \A t \in Thieves : ~Raised(t)
    BY <2>1, DequeAssumption DEF DequeInv, LockInv, Raised
  <2>3. Lo = tail /\ Hi = head
    BY <2>1, <2>2 DEF Lo, Hi
  <2>4. /\ Len(present) = head - tail
        /\ \A k \in 1..Len(present) : present[k] = buf[Cell(tail + k - 1)]
    BY <1>1, <2>3 DEF Holds, Cell
  <2>5. present = [k \in 1..Len(present) |-> present[k]]
    BY <1>1
  <2> QED BY <2>4, <2>5
<1> QED BY <1>2, <1>3 DEF ContentsAreIntact

LEMMA DequeStep ==
    ASSUME DequeInv, [DequeNext]_dequeVars
    PROVE  [Deque!ANext]_<<present, takes>>
<1>1. CASE OwnerStep
  <2>1. CASE PopTakes
    <3>1. /\ present # <<>> /\ present' = Front(present)
          /\ takes' = [takes EXCEPT ![Last(present)] = @ + 1]
      BY <2>1, PopTakesNewest, TakesNewest
    <3> QED BY <3>1 DEF Deque!ANext, Deque!APopNewest, Deque!Front, Deque!Last, Front, Last
  <2>2. CASE (PopReload \/ PopLocked) /\ ~PopTakes
    BY <2>2, PopLeaves DEF history
  <2>3. CASE EnqueuePublish \/ EnqueueGrow
    <3>1. next \in Items
      BY <2>3 DEF EnqueuePublish, EnqueueGrow, DequeInv, EnqueueInv
    <3> QED BY <2>3, <3>1 DEF EnqueuePublish, EnqueueGrow, Deque!ANext, Deque!APush
  <2>4. CASE EnqueueLoad \/ EnqueueWrite \/ EnqueueFail \/ PopCheck \/ PopReserve
    BY <2>4 DEF EnqueueLoad, EnqueueWrite, EnqueueFail, PopCheck, PopReserve, history
  <2> QED BY <1>1, <2>1, <2>2, <2>3, <2>4 DEF OwnerStep
<1>2. ASSUME NEW t \in Thieves, ThiefStep(t) PROVE [Deque!ANext]_<<present, takes>>
  <2>1. CASE StealTake(t)
    BY <2>1, StealTakesOldest, TakesOldest DEF Deque!ANext, Deque!AStealOldest
  <2>2. CASE StealLock(t) \/ StealAdvance(t) \/ StealCheck(t)
    BY <2>2 DEF StealLock, StealAdvance, StealCheck, history
  <2> QED BY <1>2, <2>1, <2>2 DEF ThiefStep
<1>3. CASE UNCHANGED dequeVars
  BY <1>3 DEF dequeVars
<1> QED BY <1>1, <1>2, <1>3 DEF DequeNext

\* For any thieves and sizes: the slots between the indices hold what was
\* queued and not taken, in order, and a thief reads the oldest, while the
\* buffer wraps around and grows.
THEOREM ContentsSafety == DequeSpec => []ContentsAreIntact
BY InitDequeInv, StepDequeInv, InvIntact, PTL DEF DequeSpec

\* For any thieves and sizes: owner and thieves implement the deque, so no
\* operation is lost, taken twice or taken out of turn, although they share
\* the last one without a lock.
THEOREM DequeRefinement == DequeSpec => ImplementsDeque
<1>1. DequeInit => Deque!AInit
  BY DEF DequeInit, Deque!AInit
<1>2. DequeInv /\ [DequeNext]_dequeVars => [Deque!ANext]_(Deque!avars)
  BY DequeStep DEF Deque!avars
<1> QED BY <1>1, <1>2, InitDequeInv, StepDequeInv, PTL
        DEF DequeSpec, ImplementsDeque, Deque!ASpec

-----------------------------------------------------------------------------
(* Sequence numbers *)

\* The number that an unwrapped count of claims stands for.
Nth(x) == Plus(InitSeq, x)

LEMMA PlusIsShift ==
    ASSUME NEW s \in Int, NEW x \in Int
    PROVE  Plus(s, x) \in 0..W - 1 /\ \E k \in Int : Plus(s, x) = s + x + W * k
<1>1. W \in Nat \ {0}
  BY SequenceAssumption
<1>2. PICK d \in Int, e \in 0..W - 1 : s + x = W * d + e /\ e = (s + x) % W
  <2>1. PICK y \in Int : y = s + x
    OBVIOUS
  <2>2. y = W * (y \div W) + (y % W) /\ y % W \in 0..W - 1 /\ y \div W \in Int
    BY <1>1
  <2> QED BY <2>1, <2>2
<1>3. W * (-d) = -(W * d) /\ W * d \in Int
  BY <1>1
<1>4. Plus(s, x) = s + x + W * (-d)
  BY <1>2, <1>3 DEF Plus
<1> QED BY <1>2, <1>4 DEF Plus

LEMMA PlusPlus ==
    ASSUME NEW s \in Int, NEW x \in Int, NEW y \in Int
    PROVE  Plus(Plus(s, x), y) = Plus(s, x + y)
<1>1. PICK k \in Int : Plus(s, x) = s + x + W * k
  BY PlusIsShift
<1>2. W \in Nat \ {0} /\ W * k \in Int
  BY SequenceAssumption
<1>3. PICK u \in Int, v \in Int : u = s + x + y /\ v = u + W * k /\ v = Plus(s, x) + y
  BY <1>1, <1>2
<1>4. v % W = u % W
  <2>1. (u + W * k) % W = u % W
    BY <1>2, ModShift
  <2> QED BY <1>3, <2>1
<1>5. s + (x + y) = u
  BY <1>3
<1> QED BY <1>3, <1>4, <1>5 DEF Plus

LEMMA SmallMod == ASSUME NEW x \in 0..W - 1 PROVE x % W = x
<1>1. x \in Int /\ W * 0 = 0 /\ x = W * 0 + x /\ W \in Nat \ {0} /\ 0 \in Int
  BY SequenceAssumption
<1> QED BY <1>1, ModUnique

LEMMA NthDistance ==
    ASSUME NEW x \in Int, NEW y \in Int
    PROVE  (Nth(x) - Nth(y)) % W = (x - y) % W /\ Nth(x) - Nth(y) \in Int
<1>0. InitSeq \in Int
  BY SequenceAssumption
<1>1. PICK j \in Int : Nth(x) = InitSeq + x + W * j
  BY <1>0, PlusIsShift DEF Nth
<1>2. PICK k \in Int : Nth(y) = InitSeq + y + W * k
  BY <1>0, PlusIsShift DEF Nth
<1>3. W \in Nat \ {0} /\ InitSeq \in Int /\ W * j \in Int /\ W * k \in Int
      /\ W * (j - k) = W * j - W * k /\ j - k \in Int
  BY SequenceAssumption
<1>4. PICK d \in Int, e \in Int : d = x - y /\ e = Nth(x) - Nth(y) /\ e = d + W * (j - k)
  BY <1>1, <1>2, <1>3
<1>5. PICK i \in Int : i = j - k
  BY <1>3
<1>6. (d + W * i) % W = d % W
  BY <1>3, ModShift
<1> QED BY <1>4, <1>5, <1>6

\* Numbers less than half of W apart are compared as the counts are.
LEMMA NthDifference ==
    ASSUME NEW x \in Int, NEW y \in Int, 2 * (x - y) < W, 2 * (y - x) <= W
    PROVE  Difference(Nth(x), Nth(y)) = x - y
<1>3. W \in Nat \ {0}
  BY SequenceAssumption
<1>4. PICK d \in Int, e \in Int : d = x - y /\ e = Nth(x) - Nth(y)
  <2>1. Nth(x) - Nth(y) \in Int /\ x - y \in Int
    BY NthDistance
  <2> QED BY <2>1
<1>5. e % W = d % W
  BY <1>4, NthDistance
<1>6. PICK h \in Nat : W = 2 * h /\ W \div 2 = h
  BY SequenceAssumption
<1>7. CASE d >= 0
  <2>1. d \in 0..W - 1 /\ W * 0 = 0 /\ d = W * 0 + d
    BY <1>4, <1>7, <1>3
  <2>2. d % W = d
    BY <2>1, <1>3, ModUnique
  <2>3. ~(d >= h)
    BY <1>4, <1>6
  <2> QED BY <1>4, <1>5, <1>6, <2>2, <2>3 DEF Difference
<1>8. CASE d < 0
  <2>1. d + W \in 0..W - 1 /\ W * (-1) = -W /\ d = W * (-1) + (d + W) /\ d + W >= h
    BY <1>4, <1>8, <1>3, <1>6
  <2>2. d % W = d + W
    BY <2>1, <1>3, ModUnique
  <2> QED BY <1>4, <1>5, <1>6, <2>1, <2>2 DEF Difference
<1> QED BY <1>7, <1>8, <1>4

LEMMA NthPrecedes ==
    ASSUME NEW x \in Int, NEW y \in Int, 2 * (x - y) < W, 2 * (y - x) <= W
    PROVE  Precedes(Nth(x), Nth(y)) <=> x < y
BY NthDifference DEF Precedes

LEMMA NthPlus ==
    ASSUME NEW x \in Int, NEW y \in Int
    PROVE  Plus(Nth(x), y) = Nth(x + y) /\ Nth(x) \in Sequence
BY PlusPlus, PlusIsShift, SequenceAssumption DEF Nth, Sequence

LEMMA NthDistinct ==
    ASSUME NEW x \in Int, NEW y \in Int, x < y, y - x < W
    PROVE  Nth(x) # Nth(y)
<1>1. PICK i \in Int, j \in Int : i = InitSeq + x /\ j = InitSeq + y
  BY SequenceAssumption
<1>2. W \in Nat \ {0} /\ i < j /\ j - i < W
  BY <1>1, SequenceAssumption
<1>3. i % W # j % W
  BY <1>2, DistinctCells
<1> QED BY <1>1, <1>3 DEF Nth, Plus

LEMMA NthZero == Nth(0) = InitSeq
<1>1. W * 0 = 0 /\ InitSeq + 0 = InitSeq /\ InitSeq = W * 0 + InitSeq /\ W \in Nat \ {0}
      /\ InitSeq \in Int /\ InitSeq \in 0..W - 1
  BY SequenceAssumption
<1>2. InitSeq % W = InitSeq
  BY <1>1, ModUnique
<1> QED BY <1>1, <1>2 DEF Nth, Plus

-----------------------------------------------------------------------------
(* The sequencer with one producer *)

\* The numbers are those of counts that do not wrap: c are consumed, r may be
\* read, p are published, n is the next to claim, and k is what the barrier
\* of the consumers said when the claim was made or resumed.
Counts(c, r, p, n, k) ==
    /\ consumer = Nth(c) /\ reads = Nth(r) /\ producer = Nth(p) /\ claimed = Nth(n)
    /\ range = [begin |-> Nth(p + 1), end |-> Nth(n)]
    /\ c <= r /\ r <= p /\ p < n /\ n - 1 - c <= Size
    /\ at \in {"running", "waiting", "ready"} /\ count \in Nat
    /\ at # "running" => p + 1 = n
    /\ at = "ready" => lastSeen = Nth(k) /\ k <= c /\ n - k <= Size

SingleInv == \E c, r, p, n, k \in Nat : Counts(c, r, p, n, k)

\* A sequence_range of the numbers from b up to e.
Between(b, e) == [begin |-> Nth(b), end |-> Nth(e)]

LEMMA SizeFits == Size \in Nat /\ Size >= 1 /\ W \in Nat /\ 2 * Size + 2 < W
BY SequenceAssumption

LEMMA RangeFacts ==
    ASSUME NEW b \in Int, NEW e \in Int, b <= e, e - b <= Size
    PROVE  /\ RangeSize(Between(b, e)) = e - b
           /\ Empty(Between(b, e)) <=> b = e
           /\ Back(Between(b, e)) = Nth(e - 1)
           /\ Skip(Between(b, e), e - b) = Between(e, e)
           /\ b < e => Skip(Between(b, e), 1) = Between(b + 1, e)
<1>1. RangeSize(Between(b, e)) = e - b
  <2>1. 2 * (e - b) < W /\ 2 * (b - e) <= W
    BY SizeFits
  <2>2. Difference(Nth(e), Nth(b)) = e - b
    BY <2>1, NthDifference
  <2> QED BY <2>2 DEF RangeSize, Between
<1>2. Empty(Between(b, e)) <=> b = e
  <2>1. b < e => e - b < W
    BY SizeFits
  <2>2. b < e => Nth(b) # Nth(e)
    BY <2>1, NthDistinct
  <2> QED BY <2>2 DEF Empty, Between
<1>3. Back(Between(b, e)) = Nth(e - 1)
  <2>1. -1 \in Int /\ e + (-1) = e - 1
    OBVIOUS
  <2>2. Plus(Nth(e), -1) = Nth(e + (-1))
    BY <2>1, NthPlus
  <2> QED BY <2>1, <2>2 DEF Back, Between
<1>4. Skip(Between(b, e), e - b) = Between(e, e)
  <2>1. e - b \in Int /\ b + (e - b) = e
    OBVIOUS
  <2>2. Plus(Nth(b), e - b) = Nth(e)
    BY <2>1, NthPlus
  <2> QED BY <1>1, <2>2 DEF Skip, Between
<1>5. b < e => Skip(Between(b, e), 1) = Between(b + 1, e)
  <2>1. SUFFICES ASSUME b < e PROVE Skip(Between(b, e), 1) = Between(b + 1, e)
    OBVIOUS
  <2>2. (IF 1 < e - b THEN 1 ELSE e - b) = 1
    BY <2>1
  <2>3. Plus(Nth(b), 1) = Nth(b + 1)
    BY NthPlus
  <2> QED BY <1>1, <2>2, <2>3 DEF Skip, Between
<1> QED BY <1>1, <1>2, <1>3, <1>4, <1>5

LEMMA CountFacts ==
    ASSUME NEW c \in Nat, NEW r \in Nat, NEW p \in Nat, NEW n \in Nat, NEW k \in Nat,
           Counts(c, r, p, n, k)
    PROVE  /\ range = Between(p + 1, n) /\ p + 1 <= n /\ n - (p + 1) <= Size
           /\ WaitsFor = Nth(n - Size)
           /\ Precedes(consumer, WaitsFor) <=> c < n - Size
           /\ Precedes(consumer, reads) <=> c < r
           /\ Difference(reads, consumer) = r - c
<1>1. /\ c <= r /\ r <= p /\ p < n /\ n - 1 - c <= Size
      /\ Size \in Nat /\ Size >= 1 /\ W \in Nat /\ 2 * Size + 2 < W
  BY SizeFits DEF Counts
<1>2. range = Between(p + 1, n) /\ p + 1 <= n /\ n - (p + 1) <= Size
  BY <1>1 DEF Counts, Between
<1>3. WaitsFor = Nth(n - Size)
  <2>1. -Size \in Int /\ n + (-Size) = n - Size
    BY <1>1
  <2>2. Plus(Nth(n), -Size) = Nth(n + (-Size))
    BY <2>1, NthPlus
  <2> QED BY <2>1, <2>2 DEF WaitsFor, Counts
<1>4. Precedes(consumer, WaitsFor) <=> c < n - Size
  <2>1. 2 * (c - (n - Size)) < W /\ 2 * ((n - Size) - c) <= W /\ n - Size \in Int
    BY <1>1
  <2>2. Precedes(Nth(c), Nth(n - Size)) <=> c < n - Size
    BY <2>1, NthPrecedes
  <2> QED BY <1>3, <2>2 DEF Counts
<1>5. Precedes(consumer, reads) <=> c < r
  <2>1. 2 * (c - r) < W /\ 2 * (r - c) <= W
    BY <1>1
  <2>2. Precedes(Nth(c), Nth(r)) <=> c < r
    BY <2>1, NthPrecedes
  <2> QED BY <2>2 DEF Counts
<1>6. Difference(reads, consumer) = r - c
  <2>1. 2 * (r - c) < W /\ 2 * (c - r) <= W
    BY <1>1
  <2>2. Difference(Nth(r), Nth(c)) = r - c
    BY <2>1, NthDifference
  <2> QED BY <2>2 DEF Counts
<1> QED BY <1>2, <1>3, <1>4, <1>5, <1>6

LEMMA InitSingleInv == SingleInit => SingleInv
<1> SUFFICES ASSUME SingleInit PROVE SingleInv
  OBVIOUS
<1>1. Nth(0) = InitSeq /\ Plus(InitSeq, 1) = Nth(1) /\ Nth(0 + 1) = Nth(1)
  BY NthZero DEF Nth
<1>2. Counts(0, 0, 0, 1, 0)
  BY <1>1, SizeFits DEF SingleInit, Counts
<1> QED BY <1>2 DEF SingleInv

LEMMA StepSingleInv == SingleInv /\ [SingleNext]_singleVars => SingleInv'
<1> SUFFICES ASSUME NEW c \in Nat, NEW r \in Nat, NEW p \in Nat, NEW n \in Nat, NEW k \in Nat,
                    Counts(c, r, p, n, k), [SingleNext]_singleVars
             PROVE  \E c2, r2, p2, n2, k2 \in Nat : Counts(c2, r2, p2, n2, k2)'
  BY DEF SingleInv
<1>1. /\ range = Between(p + 1, n) /\ p + 1 <= n /\ n - (p + 1) <= Size
      /\ Precedes(consumer, WaitsFor) <=> c < n - Size
      /\ Precedes(consumer, reads) <=> c < r
      /\ Difference(reads, consumer) = r - c
  BY CountFacts
<1>2. p + 1 \in Int /\ n \in Int /\ Size \in Nat
  BY SizeFits
<1>3. ASSUME NEW m \in 0..MaxCount, ClaimSlots(m) PROVE \E k2 \in Nat : Counts(c, r, p, n, k2)'
  <2>1. p + 1 = n
    BY <1>1, <1>2, <1>3, RangeFacts DEF ClaimSlots
  <2>2. ~(c < n - Size) => c <= c /\ n - c <= Size
    BY <1>2
  <2>3. Counts(c, r, p, n, c)'
    BY <1>1, <1>3, <2>1, <2>2, CountAssumption DEF ClaimSlots, Counts
  <2> QED BY <2>3
<1>4. CASE ClaimResumed
  <2>1. c <= c /\ n - c <= Size
    BY <1>1, <1>2, <1>4 DEF ClaimResumed
  <2>2. Counts(c, r, p, n, c)'
    BY <1>4, <2>1 DEF ClaimResumed, Counts
  <2> QED BY <2>2
<1>5. CASE ClaimDone
  <2>1. /\ at = "ready" /\ p + 1 = n /\ lastSeen = Nth(k) /\ k <= c /\ n - k <= Size
        /\ c <= p /\ count \in Nat
    BY <1>5 DEF ClaimDone, Counts
  <2>2. Available = k + Size - n + 1
    <3>1. Plus(lastSeen, Size) = Nth(k + Size)
      BY <1>2, <2>1, NthPlus
    <3>2. PICK x \in Int : x = k + Size /\ x - n \in 0..W - 1
      BY <1>2, <2>1, SizeFits
    <3>3. (Nth(x) - Nth(n)) % W = (x - n) % W
      BY NthDistance
    <3>4. (x - n) % W = x - n
      BY <3>2, SmallMod
    <3>9. claimed = Nth(n)
      BY DEF Counts
    <3>5. Plus(lastSeen, Size) = Nth(x)
      BY <3>1, <3>2
    <3>6. (Plus(lastSeen, Size) - claimed) % W = x - n
      BY <3>3, <3>4, <3>5, <3>9
    <3>7. Available = (x - n) + 1
      BY <3>6, Zenon DEF Available
    <3>8. (x - n) + 1 = k + Size - n + 1
      BY <1>2, <3>2
    <3> QED BY <3>7, <3>8
  <2>3. PICK m \in Nat : /\ m = (IF count = 0 THEN 1 ELSE IF count < Available THEN count ELSE Available)
                         /\ 1 <= m /\ m <= k + Size - n + 1
    <3>1. PICK v \in Nat : v = Available /\ v = k + Size - n + 1 /\ v >= 1
      BY <1>2, <2>1, <2>2
    <3>2. CASE count = 0
      BY <3>1, <3>2
    <3>3. CASE count # 0 /\ count < v
      BY <2>1, <3>1, <3>3
    <3>4. CASE count # 0 /\ ~(count < v)
      BY <3>1, <3>4
    <3> QED BY <3>2, <3>3, <3>4
  <2>4. Plus(Nth(n), m) = Nth(n + m)
    BY NthPlus
  <2>5. /\ p < n + m /\ (n + m) - 1 - c <= Size /\ n + m \in Nat
    <3>1. p + 1 = n /\ k <= c /\ 1 <= m /\ m <= k + Size - n + 1
      BY <2>1, <2>3
    <3> QED BY <1>2, <3>1
  <2>6. Counts(c, r, p, n + m, 0)'
    BY <1>5, <2>1, <2>3, <2>4, <2>5 DEF ClaimDone, Counts
  <2> QED BY <2>5, <2>6
<1>6. CASE PublishRange
  <2>1. /\ p + 1 # n /\ RangeSize(range) = n - (p + 1)
        /\ Back(range) = Nth(n - 1) /\ Skip(range, RangeSize(range)) = Between(n, n)
    BY <1>1, <1>2, <1>6, RangeFacts DEF PublishRange
  <2>2. n - 1 \in Nat /\ p <= n - 1 /\ (n - 1) + 1 = n /\ n - 1 < n
    BY <1>1
  <2>3. Counts(c, r, n - 1, n, 0)'
    BY <1>6, <2>1, <2>2 DEF PublishRange, Counts, Between
  <2> QED BY <2>2, <2>3
<1>7. CASE PublishNext
  <2>1. /\ p + 1 # n /\ range.begin = Nth(p + 1)
        /\ p + 1 < n => Skip(range, 1) = Between(p + 1 + 1, n)
    BY <1>1, <1>2, <1>7, RangeFacts DEF PublishNext, Between
  <2>2. p + 1 \in Nat /\ p + 1 < n /\ p <= p + 1
    BY <1>1, <2>1
  <2>3. Counts(c, r, p + 1, n, 0)'
    BY <1>7, <2>1, <2>2 DEF PublishNext, Counts, Between
  <2> QED BY <2>2, <2>3
<1>8. CASE Read
  <2>1. c <= p /\ p <= p
    BY DEF Counts
  <2>2. Counts(c, p, p, n, k)'
    BY <1>8, <2>1 DEF Read, Counts
  <2> QED BY <2>2
<1>9. CASE Release
  <2>1. PICK m \in 1..r - c : consumer' = Plus(Nth(c), m)
    BY <1>1, <1>9 DEF Release, Counts
  <2>2. c + m \in Nat /\ c + m <= r /\ c <= c + m /\ m \in Int
    BY <2>1
  <2>3. consumer' = Nth(c + m)
    BY <2>1, <2>2, NthPlus
  <2>4. n - 1 - (c + m) <= Size /\ (k <= c => k <= c + m)
    BY <1>2, <2>2 DEF Counts
  <2>5. Counts(c + m, r, p, n, k)'
    BY <1>9, <2>2, <2>3, <2>4 DEF Release, Counts
  <2> QED BY <2>2, <2>5
<1>10. CASE UNCHANGED singleVars
  <2>1. Counts(c, r, p, n, k)'
    BY <1>10 DEF singleVars, Counts
  <2> QED BY <2>1
<1> QED BY <1>3, <1>4, <1>5, <1>6, <1>7, <1>8, <1>9, <1>10 DEF SingleNext

LEMMA InvStaysAhead == SingleInv => WriterStaysAhead
<1> SUFFICES ASSUME NEW c \in Nat, NEW r \in Nat, NEW p \in Nat, NEW n \in Nat, NEW k \in Nat,
                    Counts(c, r, p, n, k)
             PROVE  WriterStaysAhead
  BY DEF SingleInv
<1>1. /\ consumer = Nth(c) /\ reads = Nth(r) /\ producer = Nth(p) /\ claimed = Nth(n)
      /\ c <= r /\ r <= p /\ p < n /\ n - 1 - c <= Size
      /\ Size \in Nat /\ Size >= 1 /\ W \in Nat /\ 2 * Size + 2 < W
  BY SizeFits DEF Counts
<1>2. /\ range = Between(p + 1, n) /\ RangeSize(range) = n - (p + 1)
      /\ Precedes(consumer, WaitsFor) <=> c < n - Size
  BY <1>1, CountFacts, RangeFacts
<1>3. ASSUME NEW s \in Elements(range)
      PROVE  /\ Precedes(reads, s) /\ Precedes(producer, s)
             /\ Difference(s, consumer) \in 1..Size
  <2>1. PICK i \in 0..n - (p + 1) - 1 : s = Plus(Nth(p + 1), i)
    BY <1>2 DEF Elements, Numbers, Between
  <2>2. PICK x \in Nat : x = p + 1 + i /\ p < x /\ x < n
    BY <1>1, <2>1
  <2>3. s = Nth(x)
    BY <2>1, <2>2, NthPlus
  <2>4. 2 * (r - x) < W /\ 2 * (x - r) <= W /\ 2 * (p - x) < W /\ 2 * (x - p) <= W
        /\ 2 * (x - c) < W /\ 2 * (c - x) <= W /\ r < x /\ x - c \in 1..Size
    BY <1>1, <2>2
  <2>5. Precedes(Nth(r), Nth(x))
    BY <2>4, NthPrecedes
  <2>6. Precedes(Nth(p), Nth(x))
    BY <2>2, <2>4, NthPrecedes
  <2>7. Difference(Nth(x), Nth(c)) = x - c
    BY <2>4, NthDifference
  <2> QED BY <1>1, <2>3, <2>4, <2>5, <2>6, <2>7
<1>4. Difference(claimed, producer) = RangeSize(range) + 1
  <2>1. 2 * (n - p) < W /\ 2 * (p - n) <= W
    BY <1>1
  <2>2. Difference(Nth(n), Nth(p)) = n - p
    BY <2>1, NthDifference
  <2> QED BY <1>1, <1>2, <2>2
<1>5. ~Precedes(producer, reads) /\ ~Precedes(reads, consumer)
  <2>1. 2 * (p - r) < W /\ 2 * (r - p) <= W /\ 2 * (r - c) < W /\ 2 * (c - r) <= W
    BY <1>1
  <2>2. ~Precedes(Nth(p), Nth(r))
    BY <1>1, <2>1, NthPrecedes
  <2>3. ~Precedes(Nth(r), Nth(c))
    BY <1>1, <2>1, NthPrecedes
  <2> QED BY <1>1, <2>2, <2>3
<1>6. at = "waiting" /\ Precedes(consumer, WaitsFor) => Precedes(consumer, producer)
  <2>1. SUFFICES ASSUME at = "waiting", c < n - Size PROVE Precedes(consumer, producer)
    BY <1>2
  <2>2. p + 1 = n
    BY <2>1 DEF Counts
  <2>3. c < p /\ 2 * (c - p) < W /\ 2 * (p - c) <= W
    BY <1>1, <2>1, <2>2
  <2>4. Precedes(Nth(c), Nth(p))
    BY <2>3, NthPrecedes
  <2> QED BY <1>1, <2>4
<1> QED BY <1>3, <1>4, <1>5, <1>6 DEF WriterStaysAhead

\* For any size of the buffer and any width of the numbers that has room for
\* it: the producer writes no slot that the consumer may still read, claims
\* and publishes in order, and waits only while there is something to consume.
THEOREM AheadSafety == SingleSpec => []WriterStaysAhead
BY InitSingleInv, StepSingleInv, InvStaysAhead, PTL DEF SingleSpec

-----------------------------------------------------------------------------
(* The sequencer with many producers *)

\* How far a number is from the one before the first.  What is claimed in a
\* behaviour is less than half of W, so that no two numbers in use are at the
\* same distance, and Precedes compares the distances.
Un(v) == Difference(v, InitSeq)

InUse(v) == v \in Sequence /\ 0 <= Un(v) /\ Un(v) < Un(nextToClaim)

\* Every number after what the slowest consumer is done with, up to v, is
\* published.
Solid(v) ==
    \A s \in Sequence :
        Un(s) <= Un(v) /\ (\E c \in Consumers : Un(consumed[c]) < Un(s))
            => IsPublished(s)

\* What a thread may know to be published: no number held is before it.
Sound(v) ==
    /\ InUse(v)
    /\ Solid(v)
    /\ \A p \in Producers : \A s \in held[p] : Un(v) < Un(s)

MultiPCs ==
    {"running", "claiming", "storing", "load", "take", "scan", "putBack", "recheck",
     "resume", "enqueue", "check", "grab", "suspended", "reading"}

MultiTypes ==
    /\ nextToClaim \in Sequence
    /\ 0 < Un(nextToClaim) /\ Un(nextToClaim) <= MaxClaims + 1
    /\ published \in [0..Size - 1 -> Sequence]
    /\ pc \in [Threads -> MultiPCs]
    /\ held \in [Producers -> SUBSET Sequence]
    /\ consumed \in [Consumers -> Sequence] /\ lastKnown \in [Consumers -> Sequence]
    /\ known \in [Threads -> Sequence]

PublishedInv == \A i \in 0..Size - 1 : Un(published[i]) < Un(nextToClaim)

HeldInv ==
    \A p \in Producers : \A s \in held[p] :
        /\ 0 < Un(s) /\ Un(s) < Un(nextToClaim)
        /\ ~IsPublished(s)
        /\ \A q \in Producers \ {p} : s \notin held[q]
        /\ pc[p] # "claiming" => \A c \in Consumers : Un(s) <= Un(consumed[c]) + Size

ClaimInv ==
    \A p \in Producers :
        pc[p] = "claiming" =>
            \E last \in held[p] : \A s \in held[p] : Un(s) <= Un(last)

KnownInv ==
    /\ \A p \in Threads : Sound(known[p])
    /\ \A c \in Consumers : Sound(lastKnown[c]) /\ Sound(consumed[c])

MultiInv == MultiTypes /\ PublishedInv /\ HeldInv /\ ClaimInv /\ KnownInv

-----------------------------------------------------------------------------
(* Sequence numbers and their distance from the first *)

LEMMA WidthFits ==
    /\ Size \in Nat /\ Size >= 1 /\ W \in Nat \ {0} /\ MaxClaims \in Nat
    /\ 2 * (MaxClaims + Size) < W
<1>1. PICK h \in Nat : W = 2 * h /\ W \div 2 = h
  BY SequenceAssumption
<1> QED BY <1>1, SequenceAssumption, SequencerAssumption

LEMMA UnNth ==
    ASSUME NEW x \in Int, 2 * x < W, -2 * x <= W
    PROVE  Un(Nth(x)) = x
<1>1. 2 * (x - 0) < W /\ 2 * (0 - x) <= W
  BY WidthFits
<1>2. Difference(Nth(x), Nth(0)) = x - 0
  BY <1>1, NthDifference
<1> QED BY <1>2, NthZero DEF Un

\* A number is found again from its distance.
LEMMA NthUn ==
    ASSUME NEW v \in Sequence
    PROVE  Un(v) \in Int /\ v = Nth(Un(v)) /\ 2 * Un(v) < W /\ -2 * Un(v) <= W
<1>1. W \in Nat \ {0} /\ InitSeq \in Int /\ v \in 0..W - 1 /\ v \in Int
  BY SequenceAssumption DEF Sequence
<1>2. PICK d \in 0..W - 1, k \in Int : v - InitSeq = W * k + d /\ d = (v - InitSeq) % W
  <2>1. PICK y \in Int : y = v - InitSeq
    BY <1>1
  <2>2. y = W * (y \div W) + (y % W) /\ y % W \in 0..W - 1 /\ y \div W \in Int
    BY <1>1
  <2> QED BY <2>1, <2>2
<1>3. PICK h \in Nat : W = 2 * h /\ W \div 2 = h
  BY SequenceAssumption
<1>4. Un(v) = IF d >= h THEN d - W ELSE d
  BY <1>2, <1>3 DEF Un, Difference
<1>5. v % W = v
  BY <1>1, SmallMod
<1>6. ASSUME NEW j \in Int PROVE Nth(d + W * j) = v
  <2>1. PICK y \in Int, i \in Int, e \in Int :
          i = j - k /\ y = W * j /\ e = W * i /\ e = y - W * k
    <3>1. j - k \in Int /\ W * j \in Int /\ W * (j - k) \in Int
          /\ W * (j - k) = W * j - W * k
      BY <1>1
    <3> QED BY <3>1
  <2>2. PICK z \in Int : z = W * k
    BY <1>1
  <2>3. InitSeq + (d + y) = v + e
    BY <1>1, <1>2, <2>1, <2>2
  <2>4. (v + W * i) % W = v % W
    BY <1>1, <2>1, ModShift
  <2> QED BY <1>5, <2>1, <2>3, <2>4 DEF Nth, Plus
<1>7. Nth(d) = v /\ Nth(d - W) = v
  <2>1. W * 0 = 0 /\ W * (-1) = -W /\ -1 \in Int /\ 0 \in Int
    BY <1>1
  <2>2. Nth(d + W * 0) = v /\ Nth(d + W * (-1)) = v
    BY <1>6, <2>1
  <2>3. d + W * 0 = d /\ d + W * (-1) = d - W
    BY <1>1, <2>1
  <2> QED BY <2>2, <2>3
<1> QED BY <1>1, <1>3, <1>4, <1>7

LEMMA UnDistinct ==
    ASSUME NEW a \in Sequence, NEW b \in Sequence, Un(a) = Un(b)
    PROVE  a = b
<1>1. a = Nth(Un(a)) /\ b = Nth(Un(b))
  BY NthUn
<1> QED BY <1>1

LEMMA UnPlus ==
    ASSUME NEW v \in Sequence, NEW n \in Int, 2 * (Un(v) + n) < W, -2 * (Un(v) + n) <= W
    PROVE  Plus(v, n) \in Sequence /\ Un(Plus(v, n)) = Un(v) + n
<1>1. Un(v) \in Int /\ v = Nth(Un(v)) /\ Un(v) + n \in Int
  BY NthUn
<1>2. Plus(Nth(Un(v)), n) = Nth(Un(v) + n)
  BY <1>1, NthPlus
<1>3. Nth(Un(v) + n) \in Sequence
  BY <1>1, NthPlus
<1>4. Un(Nth(Un(v) + n)) = Un(v) + n
  BY <1>1, UnNth
<1>5. Plus(v, n) = Nth(Un(v) + n)
  BY <1>1, <1>2
<1> QED BY <1>3, <1>4, <1>5

LEMMA UnDifference ==
    ASSUME NEW a \in Sequence, NEW b \in Sequence,
           2 * (Un(a) - Un(b)) < W, 2 * (Un(b) - Un(a)) <= W
    PROVE  /\ Difference(a, b) = Un(a) - Un(b)
           /\ Precedes(a, b) <=> Un(a) < Un(b)
<1>1. PICK x \in Int, y \in Int : a = Nth(x) /\ b = Nth(y) /\ x = Un(a) /\ y = Un(b)
  BY NthUn
<1>2. Difference(Nth(x), Nth(y)) = x - y
  BY <1>1, NthDifference
<1>3. Difference(a, b) = x - y
  BY <1>1, <1>2
<1> QED BY <1>1, <1>3 DEF Precedes

LEMMA WidthIsRings == \E q \in Int : W = Size * q
<1>1. W \in Nat \ {0} /\ Size \in Nat \ {0}
  BY SequenceAssumption
<1>2. W = Size * (W \div Size) + (W % Size) /\ W \div Size \in Int
  BY <1>1
<1>3. PICK z \in Int : z = Size * (W \div Size)
  BY <1>1, <1>2
<1>4. W = z + (W % Size)
  BY <1>2, <1>3
<1>5. W % Size = 0
  BY SequenceAssumption
<1>6. W = z
  BY <1>1, <1>3, <1>4, <1>5
<1> QED BY <1>2, <1>3, <1>6

\* Two numbers less than the ring apart have slots of their own.
LEMMA DistinctSlots ==
    ASSUME NEW a \in Sequence, NEW b \in Sequence, Slot(a) = Slot(b), Un(a) < Un(b)
    PROVE  Un(b) - Un(a) >= Size
<1>1. PICK x \in Int, y \in Int : a = Nth(x) /\ b = Nth(y) /\ x = Un(a) /\ y = Un(b)
  BY NthUn
<1>2. W \in Nat \ {0} /\ Size \in Nat \ {0} /\ InitSeq \in Int
  BY SequenceAssumption
<1>3. PICK q \in Int : W = Size * q
  BY WidthIsRings
<1>4. ASSUME NEW z \in Int PROVE Slot(Nth(z)) = (InitSeq + z) % Size
  <2>1. PICK k \in Int : Nth(z) = InitSeq + z + W * k
    BY <1>2, PlusIsShift DEF Nth
  <2>2. W * k = Size * (q * k) /\ q * k \in Int
    BY <1>2, <1>3
  <2>3. PICK u \in Int, j \in Int : u = InitSeq + z /\ j = q * k
    BY <1>2, <2>2
  <2>4. Nth(z) = u + Size * j
    BY <2>1, <2>2, <2>3
  <2>5. (u + Size * j) % Size = u % Size
    BY <1>2, ModShift
  <2> QED BY <2>3, <2>4, <2>5 DEF Slot
<1>5. PICK i \in Int, j \in Int : i = InitSeq + x /\ j = InitSeq + y
  BY <1>2
<1>6. i % Size = j % Size
  BY <1>1, <1>4, <1>5
<1>7. i < j
  BY <1>1, <1>2, <1>5
<1>8. ~(j - i < Size)
  BY <1>2, <1>6, <1>7, DistinctCells
<1> QED BY <1>1, <1>2, <1>5, <1>8

LEMMA EarliestIsLeast ==
    ASSUME NEW S, S \subseteq Sequence, S # {},
           \A s \in S : 0 <= Un(s) /\ 2 * Un(s) < W
    PROVE  Earliest(S) \in S /\ \A s \in S : Un(Earliest(S)) <= Un(s)
<1>1. \A s \in S : s \in Sequence /\ Un(s) \in Nat
  BY NthUn
<1>2. \A s, r \in S : Precedes(r, s) <=> Un(r) < Un(s)
  <2>1. SUFFICES ASSUME NEW s \in S, NEW r \in S PROVE Precedes(r, s) <=> Un(r) < Un(s)
    OBVIOUS
  <2>2. 2 * (Un(r) - Un(s)) < W /\ 2 * (Un(s) - Un(r)) <= W
    BY <1>1, WidthFits
  <2> QED BY <1>1, <2>2, UnDifference
<1>3. PICK e \in S : \A r \in S : ~Precedes(r, e)
  <2>1. PICK T : T = {Un(s) : s \in S}
    OBVIOUS
  <2>2. T \subseteq Nat /\ T # {}
    BY <1>1, <2>1
  <2>3. PICK x \in T : \A y \in T : x <= y
    BY <2>2, LeastNatural
  <2>4. PICK e \in S : x = Un(e)
    BY <2>1
  <2>5. \A r \in S : Un(e) <= Un(r) /\ Un(r) \in Nat /\ Un(e) \in Nat
    BY <1>1, <2>1, <2>3, <2>4
  <2> QED BY <1>2, <2>5
<1>4. Earliest(S) \in S /\ \A r \in S : ~Precedes(r, Earliest(S))
  BY <1>3 DEF Earliest
<1> QED BY <1>1, <1>2, <1>4

LEMMA LatestIsLast ==
    ASSUME NEW S, S \subseteq Sequence, NEW l \in S,
           \A s \in S : 0 <= Un(s) /\ 2 * Un(s) < W /\ Un(s) <= Un(l)
    PROVE  Latest(S) = l
<1>1. \A s \in S : s \in Sequence /\ Un(s) \in Nat
  BY NthUn
<1>2. \A s, r \in S : Precedes(r, s) <=> Un(r) < Un(s)
  <2>1. SUFFICES ASSUME NEW s \in S, NEW r \in S PROVE Precedes(r, s) <=> Un(r) < Un(s)
    OBVIOUS
  <2>2. 2 * (Un(r) - Un(s)) < W /\ 2 * (Un(s) - Un(r)) <= W
    BY <1>1, WidthFits
  <2> QED BY <1>1, <2>2, UnDifference
<1>3. \A r \in S : ~Precedes(l, r)
  BY <1>1, <1>2
<1>4. Latest(S) \in S /\ \A r \in S : ~Precedes(Latest(S), r)
  BY <1>3 DEF Latest
<1>5. ~(Un(Latest(S)) < Un(l)) /\ Un(Latest(S)) <= Un(l)
  BY <1>2, <1>4
<1>6. Un(Latest(S)) = Un(l)
  BY <1>1, <1>4, <1>5
<1> QED BY <1>1, <1>4, <1>6, UnDistinct

-----------------------------------------------------------------------------
(* What a thread may know *)

LEMMA SlotInRing == ASSUME NEW v \in Sequence PROVE Slot(v) \in 0..Size - 1
<1>1. v \in Int /\ Size \in Nat \ {0}
  BY SequenceAssumption DEF Sequence
<1> QED BY <1>1 DEF Slot

LEMMA FirstIsZero == InitSeq \in Sequence /\ Un(InitSeq) = 0
<1>1. 2 * 0 < W /\ -2 * 0 <= W /\ 0 \in Int
  BY WidthFits
<1>2. Un(Nth(0)) = 0
  BY <1>1, UnNth
<1> QED BY <1>2, NthZero, SequenceAssumption DEF Sequence

\* A scan that finds the next number published may go on to it.
LEMMA SoundNext ==
    ASSUME MultiInv, NEW v, Sound(v), IsPublished(Plus(v, 1))
    PROVE  Sound(Plus(v, 1))
<1>1. /\ v \in Sequence /\ 0 <= Un(v) /\ Un(v) < Un(nextToClaim)
      /\ Un(nextToClaim) <= MaxClaims + 1 /\ nextToClaim \in Sequence
  BY DEF Sound, InUse, MultiInv, MultiTypes
<1>2. Un(v) \in Int /\ Un(nextToClaim) \in Int
  BY <1>1, NthUn
<1>3. 2 * (Un(v) + 1) < W /\ -2 * (Un(v) + 1) <= W
  BY <1>1, <1>2, WidthFits
<1>4. PICK w \in Sequence : w = Plus(v, 1) /\ Un(w) = Un(v) + 1
  BY <1>1, <1>3, UnPlus
<1>5. published[Slot(w)] = w /\ Slot(w) \in 0..Size - 1
  BY <1>4, SlotInRing DEF IsPublished
<1>6. InUse(w)
  BY <1>1, <1>2, <1>4, <1>5 DEF InUse, MultiInv, PublishedInv
<1>7. Solid(w)
  <2>1. SUFFICES ASSUME NEW s \in Sequence, Un(s) <= Un(w),
                        \E c \in Consumers : Un(consumed[c]) < Un(s)
                 PROVE  IsPublished(s)
    BY DEF Solid
  <2>2. Un(s) \in Int
    BY NthUn
  <2>3. CASE Un(s) <= Un(v)
    BY <2>1, <2>3 DEF Sound, Solid
  <2>4. CASE Un(s) = Un(w)
    BY <1>4, <2>4, UnDistinct
  <2> QED BY <1>2, <1>4, <2>1, <2>2, <2>3, <2>4
<1>8. ASSUME NEW p \in Producers, NEW s \in held[p] PROVE Un(w) < Un(s)
  <2>1. s \in Sequence /\ ~IsPublished(s) /\ Un(v) < Un(s)
    BY DEF MultiInv, MultiTypes, HeldInv, Sound
  <2>2. s # w /\ Un(s) \in Int
    BY <1>4, <2>1, NthUn
  <2>3. Un(s) # Un(w)
    BY <1>4, <2>1, <2>2, UnDistinct
  <2> QED BY <1>2, <1>4, <2>1, <2>2, <2>3
<1>9. Sound(w)
  BY <1>6, <1>7, <1>8 DEF Sound
<1> QED BY <1>4, <1>9

LEMMA SoundFirst == MultiInv => Sound(InitSeq)
<1> SUFFICES ASSUME MultiInv PROVE Sound(InitSeq)
  OBVIOUS
<1>1. InitSeq \in Sequence /\ Un(InitSeq) = 0
  BY FirstIsZero
<1>2. InUse(InitSeq)
  BY <1>1 DEF InUse, MultiInv, MultiTypes
<1>3. Solid(InitSeq)
  <2>1. SUFFICES ASSUME NEW s \in Sequence, Un(s) <= 0,
                        NEW c \in Consumers, Un(consumed[c]) < Un(s)
                 PROVE  FALSE
    BY <1>1 DEF Solid
  <2>2. consumed[c] \in Sequence /\ 0 <= Un(consumed[c])
    BY DEF MultiInv, KnownInv, Sound, InUse
  <2>3. Un(s) \in Int /\ Un(consumed[c]) \in Int
    BY <2>2, NthUn
  <2> QED BY <2>1, <2>2, <2>3
<1>4. \A p \in Producers : \A s \in held[p] : 0 < Un(s)
  BY DEF MultiInv, HeldInv
<1> QED BY <1>1, <1>2, <1>3, <1>4 DEF Sound

\* What is sound stays so while consumers go on.
LEMMA SoundKept ==
    ASSUME MultiInv, NEW v, Sound(v), UNCHANGED <<nextToClaim, published, held>>,
           \A c \in Consumers : /\ consumed'[c] \in Sequence
                                /\ Un(consumed[c]) <= Un(consumed'[c])
    PROVE  Sound(v)'
<1>1. InUse(v)'
  BY DEF Sound, InUse
<1>2. Solid(v)'
  <2>1. SUFFICES ASSUME NEW s \in Sequence, Un(s) <= Un(v),
                        NEW c \in Consumers, Un(consumed'[c]) < Un(s)
                 PROVE  IsPublished(s)'
    BY DEF Solid
  <2>2. consumed[c] \in Sequence /\ consumed'[c] \in Sequence
    BY DEF MultiInv, MultiTypes
  <2>3. Un(consumed[c]) \in Int /\ Un(consumed'[c]) \in Int /\ Un(s) \in Int
    BY <2>2, NthUn
  <2>4. Un(consumed[c]) < Un(s)
    BY <2>1, <2>3
  <2>5. IsPublished(s)
    BY <2>1, <2>4 DEF Sound, Solid
  <2> QED BY <2>5 DEF IsPublished
<1>3. (\A p \in Producers : \A s \in held[p] : Un(v) < Un(s))'
  BY DEF Sound
<1> QED BY <1>1, <1>2, <1>3 DEF Sound

\* The steps that claim, store and consume nothing: threads learn what others
\* know, or one number more.
LEMMA QuietStep ==
    ASSUME MultiInv, UNCHANGED <<nextToClaim, published, held, consumed>>,
           known' \in [Threads -> Sequence], lastKnown' \in [Consumers -> Sequence],
           \A t \in Threads : Sound(known'[t]),
           \A c \in Consumers : Sound(lastKnown'[c]),
           pc' \in [Threads -> MultiPCs],
           \A p \in Producers : pc'[p] = "claiming" <=> pc[p] = "claiming"
    PROVE  MultiInv'
<1>1. MultiTypes'
  BY DEF MultiInv, MultiTypes
<1>2. PublishedInv'
  BY DEF MultiInv, PublishedInv
<1>3. HeldInv'
  BY DEF MultiInv, HeldInv, IsPublished
<1>4. ClaimInv'
  BY DEF MultiInv, ClaimInv
<1>5. KnownInv'
  BY DEF MultiInv, KnownInv, Sound, InUse, Solid, IsPublished
<1> QED BY <1>1, <1>2, <1>3, <1>4, <1>5 DEF MultiInv

QuietPC(p, to) == p \in Threads /\ pc[p] # "claiming" /\ to \in MultiPCs \ {"claiming"}

LEMMA QuietGoto ==
    ASSUME MultiInv, NEW p, NEW to, QuietPC(p, to), Goto(p, to)
    PROVE  /\ pc' \in [Threads -> MultiPCs]
           /\ \A q \in Producers : pc'[q] = "claiming" <=> pc[q] = "claiming"
BY DEF Goto, QuietPC, MultiPCs, MultiInv, MultiTypes, Threads

LEMMA KnownTypes ==
    ASSUME MultiInv
    PROVE  /\ known \in [Threads -> Sequence] /\ lastKnown \in [Consumers -> Sequence]
           /\ consumed \in [Consumers -> Sequence] /\ pc \in [Threads -> MultiPCs]
           /\ \A t \in Threads : Sound(known[t])
           /\ \A c \in Consumers : Sound(lastKnown[c]) /\ Sound(consumed[c])
           /\ Sound(InitSeq) /\ \A v : Sound(v) => v \in Sequence
           /\ \A p \in Producers : p \in Threads
           /\ \A c \in Consumers : c \in Threads /\ c \notin Producers
BY SoundFirst, SequencerAssumption DEF MultiInv, MultiTypes, KnownInv, Threads, Sound, InUse

-----------------------------------------------------------------------------
(* The steps of the threads, one by one *)

\* Steps that only move a thread on.
Moves(p) == LoadAwaiters(p) \/ PutBack(p) \/ Enqueue(p) \/ Check(p) \/ Grab(p)

LEMMA MovesStep == ASSUME MultiInv, NEW p \in Threads, Moves(p) PROVE MultiInv'
<1>1. /\ UNCHANGED <<nextToClaim, published, held, consumed, known, lastKnown>>
      /\ \E to \in MultiPCs : QuietPC(p, to) /\ Goto(p, to)
  BY DEF Moves, LoadAwaiters, PutBack, Enqueue, Check, Grab, claims, waits, lists, QuietPC, MultiPCs
<1> QED BY <1>1, KnownTypes, QuietGoto, QuietStep

LEMMA TakeAwaitersStep ==
    ASSUME MultiInv, NEW p \in Threads, TakeAwaiters(p) PROVE MultiInv'
<1>1. /\ UNCHANGED <<nextToClaim, published, held, consumed, lastKnown>>
      /\ \E to \in MultiPCs : QuietPC(p, to) /\ Goto(p, to)
      /\ \/ UNCHANGED known
         \/ \E c \in Consumers : known' = Set(known, p, lastKnown[c])
  BY DEF TakeAwaiters, claims, waits, QuietPC, MultiPCs
<1>2. known' \in [Threads -> Sequence] /\ \A t \in Threads : Sound(known'[t])
  BY <1>1, KnownTypes DEF Set
<1> QED BY <1>1, <1>2, KnownTypes, QuietGoto, QuietStep

\* Steps of a scan: whoever knows a number and finds the next one published.
Scans(p) == Advance(p) \/ Recheck(p)

LEMMA ScansStep == ASSUME MultiInv, NEW p \in Threads, Scans(p) PROVE MultiInv'
<1>1. /\ UNCHANGED <<nextToClaim, published, held, consumed, lastKnown>>
      /\ \/ UNCHANGED pc
         \/ \E to \in MultiPCs : QuietPC(p, to) /\ Goto(p, to)
      /\ \/ UNCHANGED known
         \/ IsPublished(Next1(p)) /\ known' = Set(known, p, Next1(p))
  BY DEF Scans, Advance, Recheck, claims, waits, QuietPC, MultiPCs
<1>2. IsPublished(Next1(p)) => Sound(Next1(p))
  BY SoundNext, KnownTypes DEF Next1
<1>3. known' \in [Threads -> Sequence] /\ \A t \in Threads : Sound(known'[t])
  BY <1>1, <1>2, KnownTypes DEF Set
<1> QED BY <1>1, <1>3, KnownTypes, QuietGoto, QuietStep

LEMMA DivideStep == ASSUME MultiInv, NEW p \in Threads, Divide(p) PROVE MultiInv'
<1>1. /\ UNCHANGED <<nextToClaim, published, held, consumed, known>>
      /\ \E to \in MultiPCs : QuietPC(p, to) /\ Goto(p, to)
      /\ lastKnown' = [c \in Consumers |->
                          IF c \in ToSet(taken[p]) THEN known[p] ELSE lastKnown[c]]
  BY DEF Divide, claims, QuietPC, MultiPCs
<1>2. /\ lastKnown' \in [Consumers -> Sequence]
      /\ \A c \in Consumers : Sound(lastKnown'[c])
  BY <1>1, KnownTypes
<1> QED BY <1>1, <1>2, KnownTypes, QuietGoto, QuietStep

LEMMA ResumeStep ==
    ASSUME MultiInv, NEW p \in Threads, NEW c \in Consumers, Resume(p, c)
    PROVE  MultiInv'
<1>1. /\ UNCHANGED <<nextToClaim, published, held, consumed, known>>
      /\ lastKnown' = Set(lastKnown, c, known[p])
      /\ UNCHANGED pc \/ Goto(c, "reading")
  BY DEF Resume, claims
<1>2. /\ lastKnown' \in [Consumers -> Sequence]
      /\ \A d \in Consumers : Sound(lastKnown'[d])
  BY <1>1, KnownTypes DEF Set
<1>3. /\ pc' \in [Threads -> MultiPCs]
      /\ \A q \in Producers : pc'[q] = "claiming" <=> pc[q] = "claiming"
  BY <1>1, KnownTypes DEF Goto, MultiPCs
<1> QED BY <1>1, <1>2, <1>3, KnownTypes, QuietStep

\* A call ends and forgets what it knew.
Returns(p) == PublishReturn(p) \/ Suspend(p)

LEMMA ReturnsStep == ASSUME MultiInv, NEW p \in Threads, Returns(p) PROVE MultiInv'
<1>1. /\ UNCHANGED <<nextToClaim, published, held, consumed, lastKnown>>
      /\ \E to \in MultiPCs : QuietPC(p, to) /\ Goto(p, to)
      /\ known' = Set(known, p, InitSeq)
  BY DEF Returns, PublishReturn, Suspend, LocalsGone, claims, waits, QuietPC, MultiPCs
<1>2. known' \in [Threads -> Sequence] /\ \A t \in Threads : Sound(known'[t])
  BY <1>1, KnownTypes DEF Set
<1> QED BY <1>1, <1>2, KnownTypes, QuietGoto, QuietStep

LEMMA WaitStep ==
    ASSUME MultiInv, NEW c \in Consumers, NEW n, WaitUntilPublished(c, n)
    PROVE  MultiInv'
<1>1. /\ UNCHANGED <<nextToClaim, published, held, consumed>>
      /\ QuietPC(c, "enqueue") /\ Goto(c, "enqueue")
      /\ known' = Set(known, c, consumed[c]) /\ lastKnown' = Set(lastKnown, c, consumed[c])
  BY KnownTypes DEF WaitUntilPublished, claims, QuietPC, MultiPCs
<1>2. known' \in [Threads -> Sequence] /\ \A t \in Threads : Sound(known'[t])
  BY <1>1, KnownTypes DEF Set
<1>3. /\ lastKnown' \in [Consumers -> Sequence]
      /\ \A d \in Consumers : Sound(lastKnown'[d])
  BY <1>1, KnownTypes DEF Set
<1> QED BY <1>1, <1>2, <1>3, KnownTypes, QuietGoto, QuietStep

\* A consumer goes on to the later of two numbers it may know.
LEMMA ConsumeStep == ASSUME MultiInv, NEW c \in Consumers, Consume(c) PROVE MultiInv'
<1>1. /\ UNCHANGED <<nextToClaim, published, held, known>>
      /\ QuietPC(c, "running") /\ Goto(c, "running")
      /\ lastKnown' = Set(lastKnown, c, InitSeq)
      /\ consumed' = Set(consumed, c, Latest({consumed[c], lastKnown[c]}))
  BY KnownTypes DEF Consume, claims, lists, QuietPC, MultiPCs
<1> DEFINE d == Latest({consumed[c], lastKnown[c]})
<1>2. d \in {consumed[c], lastKnown[c]} /\ Un(consumed[c]) <= Un(d)
  <2>1. /\ consumed[c] \in Sequence /\ lastKnown[c] \in Sequence
        /\ InUse(consumed[c]) /\ InUse(lastKnown[c])
        /\ Un(nextToClaim) <= MaxClaims + 1 /\ nextToClaim \in Sequence
    BY KnownTypes DEF Sound, MultiInv, MultiTypes
  <2>2. Un(consumed[c]) \in Int /\ Un(lastKnown[c]) \in Int /\ Un(nextToClaim) \in Int
    BY <2>1, NthUn
  <2>3. \A s \in {consumed[c], lastKnown[c]} : 0 <= Un(s) /\ 2 * Un(s) < W
    BY <2>1, <2>2, WidthFits DEF InUse
  <2>4. CASE Un(consumed[c]) <= Un(lastKnown[c])
    <3>1. d = lastKnown[c]
      BY <2>1, <2>2, <2>3, <2>4, LatestIsLast
    <3> QED BY <2>4, <3>1
  <2>5. CASE Un(lastKnown[c]) <= Un(consumed[c])
    <3>1. d = consumed[c]
      BY <2>1, <2>2, <2>3, <2>5, LatestIsLast
    <3> QED BY <2>2, <3>1
  <2> QED BY <2>2, <2>4, <2>5
<1> HIDE DEF d
<1>3. /\ consumed' \in [Consumers -> Sequence]
      /\ \A e \in Consumers : /\ Un(consumed[e]) <= Un(consumed'[e])
                              /\ Sound(consumed'[e])
  <2>1. consumed' = [consumed EXCEPT ![c] = d] /\ d \in Sequence /\ Sound(d)
    BY <1>1, <1>2, KnownTypes DEF Set, d
  <2>2. \A e \in Consumers : Un(consumed[e]) \in Int
    BY KnownTypes, NthUn
  <2> QED BY <1>2, <2>1, <2>2, KnownTypes
<1>4. ASSUME NEW v, Sound(v) PROVE Sound(v)'
  BY <1>1, <1>3, <1>4, SoundKept
<1>5. /\ lastKnown' \in [Consumers -> Sequence]
      /\ \A e \in Consumers : Sound(lastKnown'[e])
  BY <1>1, KnownTypes DEF Set
<1>6. KnownInv'
  <2>1. ASSUME NEW v PROVE Sound(v) => Sound(v)'
    BY <1>4
  <2>2. ASSUME NEW t \in Threads PROVE Sound(known[t])'
    <3>1. PICK v : v = known[t]
      OBVIOUS
    <3>2. Sound(v)' /\ v = known'[t]
      BY <1>1, <1>4, <3>1, KnownTypes
    <3> QED BY <3>2 DEF Sound, InUse, Solid, IsPublished
  <2>3. ASSUME NEW e \in Consumers PROVE Sound(lastKnown[e])' /\ Sound(consumed[e])'
    <3>1. PICK v, u : v = lastKnown'[e] /\ u = consumed'[e]
      OBVIOUS
    <3>2. Sound(v)' /\ Sound(u)'
      BY <1>3, <1>4, <1>5, <3>1
    <3> QED BY <3>1, <3>2 DEF Sound, InUse, Solid, IsPublished
  <2> QED BY <2>2, <2>3 DEF KnownInv
<1>7. /\ pc' \in [Threads -> MultiPCs]
      /\ \A q \in Producers : pc'[q] = "claiming" <=> pc[q] = "claiming"
  BY <1>1, QuietGoto
<1>8. MultiTypes' /\ PublishedInv' /\ ClaimInv'
  BY <1>1, <1>3, <1>5, <1>7 DEF MultiInv, MultiTypes, PublishedInv, ClaimInv
<1>9. HeldInv'
  <2>1. ASSUME NEW p \in Producers, NEW s \in held[p], pc[p] # "claiming", NEW e \in Consumers
        PROVE  Un(s) <= Un(consumed'[e]) + Size
    <3>1. s \in Sequence /\ Un(s) <= Un(consumed[e]) + Size /\ Un(consumed[e]) <= Un(consumed'[e])
      BY <1>3, <2>1 DEF MultiInv, MultiTypes, HeldInv
    <3>2. Un(s) \in Int /\ Un(consumed[e]) \in Int /\ Un(consumed'[e]) \in Int /\ Size \in Int
      BY <1>3, <3>1, KnownTypes, NthUn, WidthFits
    <3> QED BY <3>1, <3>2
  <2>2. held' = held /\ nextToClaim' = nextToClaim /\ published' = published
    BY <1>1
  <2> QED BY <1>7, <2>1, <2>2 DEF MultiInv, HeldInv, IsPublished
<1> QED BY <1>6, <1>8, <1>9 DEF MultiInv

LEMMA NumbersFacts ==
    ASSUME NEW v \in Sequence, NEW n \in Int, 0 <= Un(v), Un(v) + n <= MaxClaims + 1
    PROVE  /\ \A s \in Numbers(v, n) : s \in Sequence /\ Un(v) <= Un(s) /\ Un(s) < Un(v) + n
           /\ n >= 1 => /\ Plus(v, n - 1) \in Numbers(v, n)
                        /\ Un(Plus(v, n - 1)) = Un(v) + n - 1
<1>1. ASSUME NEW i \in 0..n - 1
      PROVE  Plus(v, i) \in Sequence /\ Un(Plus(v, i)) = Un(v) + i
  <2>1. Un(v) \in Int /\ 2 * (Un(v) + i) < W /\ -2 * (Un(v) + i) <= W
    BY NthUn, WidthFits
  <2> QED BY <2>1, UnPlus
<1>2. ASSUME NEW s \in Numbers(v, n)
      PROVE  s \in Sequence /\ Un(v) <= Un(s) /\ Un(s) < Un(v) + n
  <2>1. PICK i \in 0..n - 1 : s = Plus(v, i)
    BY DEF Numbers
  <2>2. Un(v) \in Int
    BY NthUn
  <2> QED BY <1>1, <2>1, <2>2
<1>3. ASSUME n >= 1
      PROVE  Plus(v, n - 1) \in Numbers(v, n) /\ Un(Plus(v, n - 1)) = Un(v) + n - 1
  <2>1. n - 1 \in 0..n - 1 /\ Un(v) \in Int
    BY <1>3, NthUn
  <2>2. Plus(v, n - 1) \in Numbers(v, n)
    BY <2>1 DEF Numbers
  <2>3. Un(Plus(v, n - 1)) = Un(v) + (n - 1)
    BY <1>1, <2>1
  <2> QED BY <2>1, <2>2, <2>3
<1> QED BY <1>2, <1>3

\* What the guard of a claim bounds is the distance.
LEMMA ClaimedCount ==
    ASSUME MultiInv
    PROVE  (nextToClaim - InitSeq - 1) % W = Un(nextToClaim) - 1
<1>1. /\ nextToClaim \in Sequence /\ Un(nextToClaim) \in Int
      /\ 0 < Un(nextToClaim) /\ 2 * Un(nextToClaim) < W
      /\ nextToClaim = Nth(Un(nextToClaim))
  BY NthUn DEF MultiInv, MultiTypes
<1>2. InitSeq \in Int /\ W \in Nat \ {0} /\ nextToClaim \in Int
  BY <1>1, SequenceAssumption DEF Sequence
<1>3. PICK u \in Int : u = Un(nextToClaim) - 1
  BY <1>1
<1>4. PICK k \in Int : nextToClaim = InitSeq + Un(nextToClaim) + W * k
  <2>1. PICK x \in Int : x = Un(nextToClaim) /\ nextToClaim = Plus(InitSeq, x)
    BY <1>1 DEF Nth
  <2>2. \E k \in Int : Plus(InitSeq, x) = InitSeq + x + W * k
    BY <1>2, PlusIsShift
  <2> QED BY <2>1, <2>2
<1>5. nextToClaim - InitSeq - 1 = u + W * k
  <2>1. PICK z \in Int : z = W * k
    BY <1>2
  <2> QED BY <1>1, <1>2, <1>3, <1>4, <2>1
<1>6. (u + W * k) % W = u % W
  BY <1>2, ModShift
<1>7. u \in 0..W - 1
  BY <1>1, <1>2, <1>3
<1> QED BY <1>3, <1>5, <1>6, <1>7, SmallMod

LEMMA ClaimStep ==
    ASSUME MultiInv, NEW p \in Producers, NEW n \in 1..Size, Claim(p, n)
    PROVE  MultiInv'
<1>1. /\ UNCHANGED <<published, consumed, lastKnown, known>>
      /\ pc[p] = "running" /\ held[p] = {} /\ pc' = [pc EXCEPT ![p] = "claiming"]
      /\ nextToClaim' = Plus(nextToClaim, n)
      /\ held' = [held EXCEPT ![p] = Numbers(nextToClaim, n)]
      /\ Un(nextToClaim) - 1 + n <= MaxClaims
  BY ClaimedCount DEF Claim, waits, lists, Goto, Set
<1>2. /\ nextToClaim \in Sequence /\ 0 < Un(nextToClaim) /\ Un(nextToClaim) \in Int
      /\ n \in Int /\ n >= 1 /\ MaxClaims \in Int
  BY NthUn, WidthFits DEF MultiInv, MultiTypes
<1>3. PICK C : C = Numbers(nextToClaim, n)
  OBVIOUS
<1>4. /\ \A s \in C : /\ s \in Sequence /\ Un(s) \in Int
                      /\ Un(nextToClaim) <= Un(s) /\ Un(s) < Un(nextToClaim) + n
      /\ \E last \in C : Un(last) = Un(nextToClaim) + n - 1
  <2>1. 0 <= Un(nextToClaim) /\ Un(nextToClaim) + n <= MaxClaims + 1
    BY <1>1, <1>2
  <2> QED BY <1>2, <1>3, <2>1, NumbersFacts, NthUn
<1>5. nextToClaim' \in Sequence /\ Un(nextToClaim') = Un(nextToClaim) + n
  <2>1. 2 * (Un(nextToClaim) + n) < W /\ -2 * (Un(nextToClaim) + n) <= W
    BY <1>1, <1>2, WidthFits
  <2> QED BY <1>1, <1>2, <2>1, UnPlus
<1>6. MultiTypes'
  <2>1. C \subseteq Sequence
    BY <1>4
  <2>2. 0 < Un(nextToClaim') /\ Un(nextToClaim') <= MaxClaims + 1
    BY <1>1, <1>2, <1>5
  <2> QED BY <1>1, <1>3, <1>5, <2>1, <2>2 DEF MultiInv, MultiTypes, MultiPCs
<1>7. PublishedInv'
  <2>1. ASSUME NEW i \in 0..Size - 1 PROVE Un(published[i]) < Un(nextToClaim')
    <3>1. published[i] \in Sequence /\ Un(published[i]) < Un(nextToClaim)
      BY DEF MultiInv, MultiTypes, PublishedInv
    <3> QED BY <1>2, <1>5, <3>1, NthUn
  <2> QED BY <1>1, <2>1 DEF PublishedInv
<1>8. ASSUME NEW v, Sound(v) PROVE v \in Sequence /\ Un(v) \in Int /\ Un(v) < Un(nextToClaim)
  BY <1>8, NthUn DEF Sound, InUse
<1>9. ASSUME NEW v, Sound(v) PROVE Sound(v)'
  <2>1. InUse(v)'
    BY <1>2, <1>5, <1>8, <1>9 DEF Sound, InUse
  <2>2. Solid(v)'
    BY <1>1, <1>9 DEF Sound, Solid, IsPublished
  <2>3. ASSUME NEW q \in Producers, NEW s \in held'[q] PROVE Un(v) < Un(s)
    <3>1. held'[q] = IF q = p THEN C ELSE held[q]
      BY <1>1, <1>3 DEF MultiInv, MultiTypes
    <3>2. CASE q = p
      BY <1>2, <1>4, <1>8, <1>9, <3>1, <3>2
    <3>3. CASE q # p
      BY <1>9, <3>1, <3>3 DEF Sound
    <3> QED BY <3>2, <3>3
  <2> QED BY <2>1, <2>2, <2>3 DEF Sound
<1>10. KnownInv'
  BY <1>1, <1>9, KnownTypes DEF KnownInv
<1>11. HeldInv'
  <2>1. held \in [Producers -> SUBSET Sequence] /\ pc \in [Threads -> MultiPCs] /\ p \in Threads
    BY KnownTypes DEF MultiInv, MultiTypes
  <2>2. \A q \in Producers : held'[q] = IF q = p THEN C ELSE held[q]
    BY <1>1, <1>3, <2>1
  <2>3. \A q \in Producers : \A s \in held[q] : s \in Sequence /\ Un(s) < Un(nextToClaim)
    BY <2>1 DEF MultiInv, HeldInv
  <2>4. ASSUME NEW s \in C
        PROVE  /\ 0 < Un(s) /\ Un(s) < Un(nextToClaim')
               /\ ~IsPublished(s)
               /\ \A q \in Producers : s \notin held[q]
    <3>1. 0 < Un(s) /\ Un(s) < Un(nextToClaim')
      BY <1>2, <1>4, <1>5
    <3>2. ~IsPublished(s)
      <4>1. s \in Sequence /\ Slot(s) \in 0..Size - 1
        BY <1>4, SlotInRing
      <4>2. Un(published[Slot(s)]) < Un(nextToClaim)
        BY <4>1 DEF MultiInv, PublishedInv
      <4> QED BY <1>2, <1>4, <4>2 DEF IsPublished
    <3>3. \A q \in Producers : s \notin held[q]
      BY <1>2, <1>4, <2>3
    <3> QED BY <3>1, <3>2, <3>3
  <2>5. ASSUME NEW q \in Producers, q # p, NEW s \in held[q]
        PROVE  Un(s) < Un(nextToClaim')
    <3>1. s \in Sequence /\ Un(s) < Un(nextToClaim)
      BY <2>3
    <3> QED BY <1>2, <1>5, <3>1, NthUn
  <2>6. pc'[p] = "claiming" /\ \A q \in Producers \ {p} : pc'[q] = pc[q]
    BY <1>1, <2>1
  <2>7. ASSUME NEW q \in Producers, NEW s \in held'[q]
        PROVE  /\ 0 < Un(s) /\ Un(s) < Un(nextToClaim')
               /\ ~IsPublished(s)'
               /\ \A r \in Producers \ {q} : s \notin held'[r]
               /\ pc'[q] # "claiming" =>
                      \A c \in Consumers : Un(s) <= Un(consumed'[c]) + Size
    <3>1. IsPublished(s)' <=> IsPublished(s)
      BY <1>1 DEF IsPublished
    <3>2. CASE q = p
      BY <2>2, <2>4, <2>6, <3>1, <3>2
    <3>3. CASE q # p
      <4>1. s \in held[q]
        BY <2>2, <3>3
      <4>2. 0 < Un(s) /\ ~IsPublished(s) /\ \A r \in Producers \ {q} : s \notin held[r]
        BY <4>1 DEF MultiInv, HeldInv
      <4>3. s \notin C
        BY <2>4, <4>1
      <4>4. pc'[q] # "claiming" => \A c \in Consumers : Un(s) <= Un(consumed'[c]) + Size
        BY <1>1, <2>6, <3>3, <4>1 DEF MultiInv, HeldInv
      <4> QED BY <2>2, <2>5, <3>1, <3>3, <4>1, <4>2, <4>3, <4>4
    <3> QED BY <3>2, <3>3
  <2> QED BY <2>7 DEF HeldInv
<1>12. ClaimInv'
  <2>1. \A q \in Producers : held'[q] = IF q = p THEN C ELSE held[q]
    BY <1>1, <1>3 DEF MultiInv, MultiTypes
  <2>2. \A q \in Producers \ {p} : pc'[q] = pc[q]
    BY <1>1, KnownTypes
  <2>3. PICK last \in C : Un(last) = Un(nextToClaim) + n - 1
    BY <1>4
  <2>4. \A s \in C : Un(s) <= Un(last)
    BY <1>2, <1>4, <2>3
  <2>5. ASSUME NEW q \in Producers, pc'[q] = "claiming"
        PROVE  \E l \in held'[q] : \A s \in held'[q] : Un(s) <= Un(l)
    <3>1. CASE q = p
      BY <2>1, <2>4, <3>1
    <3>2. CASE q # p
      BY <2>1, <2>2, <2>5, <3>2 DEF MultiInv, ClaimInv
    <3> QED BY <3>1, <3>2
  <2> QED BY <2>5 DEF ClaimInv
<1> QED BY <1>6, <1>7, <1>10, <1>11, <1>12 DEF MultiInv

\* What the guard of a claim waits for: the consumers have left the slots of
\* all its numbers.
LEMMA RoomForClaim ==
    ASSUME MultiInv, NEW p \in Producers, Claimed(p),
           NEW s \in held[p], NEW c \in Consumers
    PROVE  Un(s) <= Un(consumed[c]) + Size
<1>1. /\ held[p] \subseteq Sequence /\ nextToClaim \in Sequence
      /\ Un(nextToClaim) <= MaxClaims + 1
      /\ \A r \in held[p] : 0 < Un(r) /\ Un(r) < Un(nextToClaim)
  BY DEF MultiInv, MultiTypes, HeldInv
<1>2. \A r \in held[p] : Un(r) \in Int /\ 0 <= Un(r) /\ 2 * Un(r) < W
  BY <1>1, NthUn, WidthFits
<1>3. PICK last \in held[p] : \A r \in held[p] : Un(r) <= Un(last)
  BY DEF MultiInv, ClaimInv, Claimed
<1>4. Latest(held[p]) = last
  BY <1>1, <1>2, <1>3, LatestIsLast
<1>5. PICK S : S = {consumed[d] : d \in Consumers}
  OBVIOUS
<1>6. S \subseteq Sequence /\ S # {} /\ \A d \in S : 0 <= Un(d) /\ 2 * Un(d) < W
  <2>1. ASSUME NEW d \in S PROVE d \in Sequence /\ 0 <= Un(d) /\ Un(d) < Un(nextToClaim)
    BY <1>5, KnownTypes DEF Sound, InUse
  <2>2. \A d \in S : 2 * Un(d) < W
    BY <1>1, <2>1, NthUn, WidthFits
  <2> QED BY <1>5, <2>1, <2>2
<1>7. PICK b \in S : b = Barrier /\ Un(b) <= Un(consumed[c])
  <2>1. Earliest(S) \in S /\ \A d \in S : Un(Earliest(S)) <= Un(d)
    BY <1>6, EarliestIsLeast
  <2> QED BY <1>5, <2>1 DEF Barrier
<1>8. Un(b) \in Int /\ Un(consumed[c]) \in Int /\ 0 <= Un(b) /\ 2 * Un(b) < W /\ b \in Sequence
  BY <1>6, KnownTypes, NthUn
<1>9. PICK x \in Sequence : x = Plus(last, -Size) /\ Un(x) = Un(last) - Size
  <2>1. /\ -Size \in Int /\ 2 * (Un(last) + (-Size)) < W /\ -2 * (Un(last) + (-Size)) <= W
        /\ Un(last) + (-Size) = Un(last) - Size
    BY <1>2, WidthFits
  <2> QED BY <1>1, <2>1, UnPlus
<1>10. ~Precedes(b, x)
  BY <1>4, <1>7, <1>9 DEF Claimed
<1>11. Precedes(b, x) <=> Un(b) < Un(x)
  <2>1. 2 * (Un(b) - Un(x)) < W
    <3>1. Un(nextToClaim) \in Int /\ Un(b) < Un(nextToClaim)
      BY <1>1, <1>5, KnownTypes, NthUn DEF Sound, InUse
    <3> QED BY <1>1, <1>2, <1>8, <1>9, <3>1, WidthFits
  <2>2. 2 * (Un(x) - Un(b)) <= W
    BY <1>2, <1>8, <1>9, WidthFits
  <2> QED BY <1>8, <2>1, <2>2, UnDifference
<1> QED BY <1>2, <1>3, <1>7, <1>8, <1>9, <1>10, <1>11, WidthFits

LEMMA ClaimedStep == ASSUME MultiInv, NEW p \in Producers, Claimed(p) PROVE MultiInv'
<1>1. /\ UNCHANGED <<nextToClaim, published, held, consumed, lastKnown, known>>
      /\ pc' = [pc EXCEPT ![p] = "running"]
  BY DEF Claimed, claims, waits, Goto
<1>2. \A s \in held[p] : \A c \in Consumers : Un(s) <= Un(consumed[c]) + Size
  BY RoomForClaim
<1>3. \A q \in Producers : pc'[q] = IF q = p THEN "running" ELSE pc[q]
  BY <1>1, KnownTypes
<1>4. MultiTypes'
  BY <1>1 DEF MultiInv, MultiTypes, MultiPCs
<1>5. PublishedInv' /\ KnownInv'
  BY <1>1 DEF MultiInv, PublishedInv, KnownInv, Sound, InUse, Solid, IsPublished
<1>6. HeldInv'
  BY <1>1, <1>2, <1>3 DEF MultiInv, HeldInv, IsPublished
<1>7. ClaimInv'
  BY <1>1, <1>3 DEF MultiInv, ClaimInv
<1> QED BY <1>4, <1>5, <1>6, <1>7 DEF MultiInv

\* A number that is stored takes the slot of one that all consumers have left.
LEMMA StoreStep ==
    ASSUME MultiInv, NEW p \in Producers, NEW s \in held[p], Store(p, s),
           pc[p] # "claiming", NEW to \in MultiPCs \ {"claiming"}, Goto(p, to)
    PROVE  MultiInv'
<1>1. /\ UNCHANGED <<nextToClaim, consumed, lastKnown, known>>
      /\ published' = [published EXCEPT ![Slot(s)] = s]
      /\ held' = [held EXCEPT ![p] = held[p] \ {s}]
      /\ pc' = [pc EXCEPT ![p] = to]
  BY DEF Store, waits, Goto, Set
<1>2. /\ s \in Sequence /\ Un(s) \in Int /\ Slot(s) \in 0..Size - 1
      /\ published \in [0..Size - 1 -> Sequence] /\ held \in [Producers -> SUBSET Sequence]
      /\ Un(s) < Un(nextToClaim)
      /\ \A q \in Producers \ {p} : s \notin held[q]
      /\ \A c \in Consumers : Un(s) <= Un(consumed[c]) + Size
  BY SlotInRing, NthUn DEF MultiInv, MultiTypes, HeldInv
<1>3. /\ \A q \in Producers : held'[q] = held[q] \ {s}
      /\ \A q \in Producers : pc'[q] = IF q = p THEN to ELSE pc[q]
      /\ \A i \in 0..Size - 1 : published'[i] = IF i = Slot(s) THEN s ELSE published[i]
  BY <1>1, <1>2, KnownTypes
<1>4. ASSUME NEW x \in Sequence
      PROVE  IsPublished(x)' <=> IF Slot(x) = Slot(s) THEN x = s ELSE IsPublished(x)
  <2>1. Slot(x) \in 0..Size - 1
    BY SlotInRing
  <2>2. published'[Slot(x)] = IF Slot(x) = Slot(s) THEN s ELSE published[Slot(x)]
    BY <1>3, <2>1
  <2> QED BY <2>2 DEF IsPublished
<1>5. ASSUME NEW v, Sound(v) PROVE Sound(v)'
  <2>1. InUse(v)'
    BY <1>1, <1>5 DEF Sound, InUse
  <2>2. Solid(v)'
    <3>1. SUFFICES ASSUME NEW x \in Sequence, Un(x) <= Un(v),
                          NEW c \in Consumers, Un(consumed[c]) < Un(x)
                   PROVE  IsPublished(x)'
      BY <1>1 DEF Solid
    <3>2. IsPublished(x)
      BY <1>5, <3>1 DEF Sound, Solid
    <3>3. CASE Slot(x) # Slot(s)
      BY <1>4, <3>2, <3>3
    <3>4. CASE Slot(x) = Slot(s)
      <4>1. Un(v) < Un(s) /\ v \in Sequence
        BY <1>5 DEF Sound, InUse
      <4>2. Un(v) \in Int /\ Un(x) \in Int /\ Un(consumed[c]) \in Int
        BY <4>1, KnownTypes, NthUn
      <4>3. Un(x) < Un(s)
        BY <1>2, <3>1, <4>1, <4>2
      <4>4. Un(s) - Un(x) >= Size
        BY <1>2, <3>4, <4>3, DistinctSlots
      <4> QED BY <1>2, <3>1, <4>2, <4>4, WidthFits
    <3> QED BY <3>3, <3>4
  <2>3. \A q \in Producers : \A x \in held'[q] : Un(v) < Un(x)
    BY <1>3, <1>5 DEF Sound
  <2> QED BY <2>1, <2>2, <2>3 DEF Sound
<1>6. MultiTypes'
  BY <1>1, <1>2 DEF MultiInv, MultiTypes
<1>7. PublishedInv'
  <2>1. ASSUME NEW i \in 0..Size - 1 PROVE Un(published'[i]) < Un(nextToClaim)
    BY <1>2, <1>3 DEF MultiInv, PublishedInv
  <2> QED BY <1>1, <2>1 DEF PublishedInv
<1>8. HeldInv'
  <2>1. ASSUME NEW q \in Producers, NEW r \in held'[q]
        PROVE  /\ 0 < Un(r) /\ Un(r) < Un(nextToClaim')
               /\ ~IsPublished(r)'
               /\ \A o \in Producers \ {q} : r \notin held'[o]
               /\ pc'[q] # "claiming" =>
                      \A c \in Consumers : Un(r) <= Un(consumed'[c]) + Size
    <3>1. r \in held[q] /\ r # s
      BY <1>3
    <3>2. /\ 0 < Un(r) /\ Un(r) < Un(nextToClaim) /\ ~IsPublished(r) /\ r \in Sequence
          /\ \A o \in Producers \ {q} : r \notin held[o]
      BY <3>1 DEF MultiInv, MultiTypes, HeldInv
    <3>3. ~IsPublished(r)'
      BY <1>4, <3>1, <3>2
    <3>4. pc'[q] # "claiming" => pc[q] # "claiming"
      BY <1>3
    <3>5. pc'[q] # "claiming" => \A c \in Consumers : Un(r) <= Un(consumed'[c]) + Size
      BY <1>1, <3>1, <3>4 DEF MultiInv, HeldInv
    <3> QED BY <1>1, <1>3, <3>2, <3>3, <3>5
  <2> QED BY <2>1 DEF HeldInv
<1>9. ClaimInv'
  <2>1. ASSUME NEW q \in Producers, pc'[q] = "claiming"
        PROVE  \E l \in held'[q] : \A r \in held'[q] : Un(r) <= Un(l)
    <3>1. q # p /\ pc[q] = "claiming"
      BY <1>3, <2>1
    <3>2. held'[q] = held[q]
      BY <1>1, <1>2, <3>1
    <3> QED BY <3>1, <3>2 DEF MultiInv, ClaimInv
  <2> QED BY <2>1 DEF ClaimInv
<1>10. KnownInv'
  BY <1>1, <1>5, KnownTypes DEF KnownInv
<1> QED BY <1>6, <1>7, <1>8, <1>9, <1>10 DEF MultiInv

Stores(p) ==
    PublishFirst(p) \/ \E s \in held[p] : PublishOne(p, s) \/ PublishRest(p, s)

LEMMA StoresStep == ASSUME MultiInv, NEW p \in Producers, Stores(p) PROVE MultiInv'
<1>1. PICK s \in held[p], to \in {"load", "storing"} :
          Store(p, s) /\ pc[p] # "claiming" /\ Goto(p, to)
  BY DEF Stores, PublishFirst, PublishOne, PublishRest
<1>2. to \in MultiPCs \ {"claiming"}
  BY <1>1 DEF MultiPCs
<1> QED BY <1>1, <1>2, StoreStep

\* In the beginning every slot has a number, none of them after the first.
LEMMA FirstPublished ==
    ASSUME NEW i \in 0..Size - 1
    PROVE  LET P == CHOOSE s \in Numbers(Plus(InitSeq, 1 - Size), Size) : Slot(s) = i
           IN  P \in Sequence /\ Un(P) <= 0
<1>1. W \in Nat \ {0} /\ Size \in Nat \ {0} /\ InitSeq \in Int /\ i \in Int
  BY SequenceAssumption
<1>2. PICK k \in Int, e \in 0..Size - 1 : InitSeq - i = Size * k + e
  <2>1. PICK y \in Int : y = InitSeq - i
    BY <1>1
  <2>2. y = Size * (y \div Size) + (y % Size) /\ y % Size \in 0..Size - 1 /\ y \div Size \in Int
    BY <1>1
  <2> QED BY <2>1, <2>2
<1>3. Plus(InitSeq, 1 - Size) = Nth(1 - Size)
  BY DEF Nth
<1>4. ASSUME NEW j \in 0..Size - 1
      PROVE  /\ Plus(Plus(InitSeq, 1 - Size), j) = Nth(1 - Size + j)
             /\ Nth(1 - Size + j) \in Sequence /\ Un(Nth(1 - Size + j)) <= 0
  <2>1. PICK x \in Int : x = 1 - Size
    BY <1>1
  <2>2. Plus(Nth(x), j) = Nth(x + j) /\ x + j \in Int /\ Nth(x + j) \in Sequence
    <3>1. j \in Int /\ x + j \in Int
      BY <1>1, <2>1
    <3> QED BY <3>1, NthPlus
  <2>3. 2 * (x + j) < W /\ -2 * (x + j) <= W /\ x + j <= 0
    BY <1>1, <2>1, WidthFits
  <2>4. Un(Nth(x + j)) = x + j
    BY <2>2, <2>3, UnNth
  <2> QED BY <1>3, <2>1, <2>2, <2>3, <2>4
<1>5. PICK j \in 0..Size - 1 : j = Size - 1 - e
  BY <1>1
<1>6. Slot(Nth(1 - Size + j)) = i
  <2>1. 1 - Size + j = -e /\ -e \in Int
    BY <1>1, <1>5
  <2>2. PICK z \in Int : z = Size * k
    BY <1>1
  <2>3. InitSeq + (-e) = i + z
    BY <1>1, <1>2, <2>2
  <2>4. PICK q \in Int : W = Size * q
    BY WidthIsRings
  <2>5. PICK m \in Int : Plus(InitSeq, -e) = InitSeq + (-e) + W * m
    BY <1>1, <2>1, PlusIsShift
  <2>6. PICK h \in Int : h = k + q * m /\ Size * h = z + W * m
    <3>1. W * m = Size * (q * m) /\ q * m \in Int
      BY <1>1, <2>4
    <3>2. PICK a \in Int : a = q * m
      BY <3>1
    <3>3. Size * (k + a) = Size * k + Size * a /\ k + a \in Int
      BY <1>1, <3>2
    <3> QED BY <2>2, <3>1, <3>2, <3>3
  <2>7. Plus(InitSeq, -e) = i + Size * h
    <3>1. PICK b \in Int : b = W * m
      BY <1>1
    <3> QED BY <1>1, <2>2, <2>3, <2>5, <2>6, <3>1
  <2>8. (i + Size * h) % Size = i % Size
    BY <1>1, ModShift
  <2>9. i % Size = i
    <3>1. i = Size * 0 + i /\ 0 \in Int
      BY <1>1
    <3> QED BY <1>1, <3>1, ModUnique
  <2> QED BY <2>1, <2>7, <2>8, <2>9 DEF Nth, Slot
<1>7. Nth(1 - Size + j) \in Numbers(Plus(InitSeq, 1 - Size), Size)
  BY <1>4 DEF Numbers
<1>8. \A s \in Numbers(Plus(InitSeq, 1 - Size), Size) : s \in Sequence /\ Un(s) <= 0
  BY <1>4 DEF Numbers
<1> QED BY <1>6, <1>7, <1>8

LEMMA InitMultiInv == Init => MultiInv
<1> SUFFICES ASSUME Init PROVE MultiInv
  OBVIOUS
<1>1. InitSeq \in Sequence /\ Un(InitSeq) = 0
  BY FirstIsZero
<1>2. nextToClaim \in Sequence /\ Un(nextToClaim) = 1
  <2>1. 2 * (0 + 1) < W /\ -2 * (0 + 1) <= W
    BY WidthFits
  <2> QED BY <1>1, <2>1, UnPlus DEF Init
<1>3. published \in [0..Size - 1 -> Sequence] /\ \A i \in 0..Size - 1 : Un(published[i]) <= 0
  BY FirstPublished DEF Init
<1>4. MultiTypes
  <2>1. 0 < Un(nextToClaim) /\ Un(nextToClaim) <= MaxClaims + 1
    BY <1>2, WidthFits
  <2>2. pc \in [Threads -> MultiPCs] /\ held \in [Producers -> SUBSET Sequence]
    BY DEF Init, MultiPCs
  <2>3. /\ consumed \in [Consumers -> Sequence] /\ lastKnown \in [Consumers -> Sequence]
        /\ known \in [Threads -> Sequence]
    BY <1>1 DEF Init
  <2> QED BY <1>2, <1>3, <2>1, <2>2, <2>3 DEF MultiTypes
<1>5. PublishedInv
  BY <1>2, <1>3, NthUn DEF PublishedInv
<1>6. HeldInv /\ ClaimInv
  BY DEF Init, HeldInv, ClaimInv, Threads
<1>7. InUse(InitSeq)
  BY <1>1, <1>2 DEF InUse
<1>8. Solid(InitSeq)
  <2>1. \A c \in Consumers : consumed[c] = InitSeq
    BY DEF Init
  <2>2. \A s \in Sequence : Un(s) <= 0 => ~(0 < Un(s))
    BY NthUn
  <2> QED BY <1>1, <2>1, <2>2 DEF Solid
<1>9. Sound(InitSeq)
  BY <1>7, <1>8 DEF Sound, Init
<1>10. KnownInv
  BY <1>9 DEF Init, KnownInv
<1> QED BY <1>4, <1>5, <1>6, <1>10 DEF MultiInv

LEMMA StepMultiInv == MultiInv /\ [Next]_vars => MultiInv'
<1> SUFFICES ASSUME MultiInv, [Next]_vars PROVE MultiInv'
  OBVIOUS
<1>1. CASE UNCHANGED vars
  BY <1>1 DEF vars, MultiInv, MultiTypes, PublishedInv, HeldInv, ClaimInv, KnownInv,
              Sound, InUse, Solid, IsPublished
<1>2. CASE Next
  <2>1. ASSUME NEW p \in Threads,
               Moves(p) \/ TakeAwaiters(p) \/ Scans(p) \/ Divide(p) \/ Returns(p)
                 \/ \E c \in Consumers : Resume(p, c)
        PROVE  MultiInv'
    BY <2>1, MovesStep, TakeAwaitersStep, ScansStep, DivideStep, ReturnsStep, ResumeStep
  <2>2. ASSUME NEW p \in Producers, Publisher(p) PROVE MultiInv'
    <3>1. p \in Threads
      BY DEF Threads
    <3>2. CASE PublishFirst(p)
      BY <3>2, StoresStep DEF Stores
    <3>3. CASE ~PublishFirst(p)
      BY <2>1, <2>2, <3>1, <3>3 DEF Publisher, Moves, Scans, Returns
    <3> QED BY <3>2, <3>3
  <2>3. ASSUME NEW c \in Consumers, Waiter(c) PROVE MultiInv'
    <3>1. c \in Threads
      BY DEF Threads
    <3> QED BY <2>1, <2>3, <3>1 DEF Waiter, Moves, Scans, Returns
  <2>4. ASSUME NEW p \in Producers, NEW n \in 2..Size + 1, ClaimOne(p) \/ ClaimUpTo(p, n)
        PROVE  MultiInv'
    <3>1. PICK m \in 1..Size : Claim(p, m)
      <4>1. 1 \in 1..Size /\ (IF n < Size THEN n ELSE Size) \in 1..Size
        BY WidthFits
      <4> QED BY <2>4, <4>1 DEF ClaimOne, ClaimUpTo
    <3> QED BY <3>1, ClaimStep
  <2>5. ASSUME NEW p \in Producers, ClaimOne(p) PROVE MultiInv'
    <3>1. 2 \in 2..Size + 1
      BY WidthFits
    <3> QED BY <2>4, <2>5, <3>1
  <2>6. ASSUME NEW p \in Producers, NEW s \in held[p], PublishOne(p, s) \/ PublishRest(p, s)
        PROVE  MultiInv'
    BY <2>6, StoresStep DEF Stores
  <2> QED BY <1>2, <2>2, <2>3, <2>4, <2>5, <2>6, ClaimedStep, ConsumeStep, WaitStep DEF Next
<1> QED BY <1>1, <1>2

\* What a consumer reads it knows to be published.
LEMMA ReaderUses ==
    ASSUME MultiInv, NEW c \in Consumers, NEW s \in Uses(c)
    PROVE  /\ s \in Sequence /\ Un(consumed[c]) < Un(s) /\ Un(s) <= Un(lastKnown[c])
           /\ Un(s) \in Int /\ Un(consumed[c]) \in Int /\ Un(lastKnown[c]) \in Int
<1>1. /\ consumed[c] \in Sequence /\ lastKnown[c] \in Sequence /\ c \notin Producers
      /\ InUse(consumed[c]) /\ InUse(lastKnown[c])
      /\ Un(nextToClaim) <= MaxClaims + 1 /\ nextToClaim \in Sequence
  BY KnownTypes DEF Sound, MultiInv, MultiTypes
<1>2. PICK x \in Int, y \in Int :
          /\ x = Un(consumed[c]) /\ y = Un(lastKnown[c])
          /\ 0 <= x /\ x <= MaxClaims /\ 0 <= y /\ y <= MaxClaims
  <2>1. Un(consumed[c]) \in Int /\ Un(lastKnown[c]) \in Int /\ Un(nextToClaim) \in Int
    BY <1>1, NthUn
  <2> QED BY <1>1, <2>1, WidthFits DEF InUse
<1>3. Difference(lastKnown[c], consumed[c]) = y - x
  <2>1. 2 * (y - x) < W /\ 2 * (x - y) <= W
    BY <1>2, WidthFits
  <2> QED BY <1>1, <1>2, <2>1, UnDifference
<1>4. PICK f \in Sequence : f = Plus(consumed[c], 1) /\ Un(f) = x + 1
  <2>1. 2 * (x + 1) < W /\ -2 * (x + 1) <= W
    BY <1>2, WidthFits
  <2> QED BY <1>1, <1>2, <2>1, UnPlus
<1>5. s \in Numbers(f, y - x)
  BY <1>1, <1>3, <1>4 DEF Uses
<1>6. 0 <= Un(f) /\ Un(f) + (y - x) <= MaxClaims + 1 /\ y - x \in Int
  BY <1>2, <1>4, WidthFits
<1>7. s \in Sequence /\ Un(f) <= Un(s) /\ Un(s) < Un(f) + (y - x)
  BY <1>5, <1>6, NumbersFacts
<1> QED BY <1>2, <1>4, <1>7, NthUn

LEMMA WriterUses ==
    ASSUME MultiInv, NEW p \in Producers, NEW s \in Uses(p)
    PROVE  /\ s \in held[p] /\ s \in Sequence /\ Un(s) \in Int
           /\ \A c \in Consumers : /\ Un(consumed[c]) \in Int /\ Un(consumed[c]) < Un(s)
                                   /\ Un(lastKnown[c]) < Un(s)
                                   /\ Un(s) <= Un(consumed[c]) + Size
           /\ \A q \in Producers \ {p} : s \notin held[q]
<1>1. s \in held[p] /\ pc[p] # "claiming"
  BY DEF Uses
<1>2. s \in Sequence
  BY <1>1 DEF MultiInv, MultiTypes
<1> QED BY <1>1, <1>2, KnownTypes, NthUn DEF MultiInv, HeldInv, Sound

LEMMA InvExclusive == MultiInv => SlotsAreExclusive
<1> SUFFICES ASSUME MultiInv PROVE SlotsAreExclusive
  OBVIOUS
<1>1. ASSUME NEW p \in Producers, NEW q \in Threads \ {p}, NEW s \in Uses(p), NEW r \in Uses(q),
             Slot(s) = Slot(r)
      PROVE  FALSE
  <2>1. CASE q \in Producers
    <3>1. PICK c \in Consumers : TRUE
      BY SequencerAssumption
    <3>2. s # r
      BY <2>1, WriterUses
    <3>3. Un(s) < Un(r) \/ Un(r) < Un(s)
      BY <2>1, <3>2, WriterUses, UnDistinct
    <3>4. Un(s) < Un(r) => Un(r) - Un(s) >= Size
      BY <1>1, <2>1, WriterUses, DistinctSlots
    <3>5. Un(r) < Un(s) => Un(s) - Un(r) >= Size
      BY <1>1, <2>1, WriterUses, DistinctSlots
    <3>6. PICK a \in Int, b \in Int, d \in Int :
              /\ a = Un(s) /\ b = Un(r) /\ d = Un(consumed[c])
              /\ d < a /\ a <= d + Size /\ d < b /\ b <= d + Size
      BY <2>1, WriterUses
    <3> QED BY <3>3, <3>4, <3>5, <3>6, WidthFits
  <2>2. CASE q \in Consumers
    <3>1. PICK a \in Int, b \in Int, d \in Int, l \in Int :
              /\ a = Un(s) /\ b = Un(r) /\ d = Un(consumed[q]) /\ l = Un(lastKnown[q])
              /\ d < a /\ a <= d + Size /\ l < a /\ d < b /\ b <= l
      BY <2>2, WriterUses, ReaderUses
    <3>2. Un(r) < Un(s)
      BY <3>1
    <3>3. Un(s) - Un(r) >= Size
      BY <1>1, <2>2, <3>2, WriterUses, ReaderUses, DistinctSlots
    <3> QED BY <3>1, <3>3, WidthFits
  <2> QED BY <2>1, <2>2 DEF Threads
<1>2. ASSUME NEW c \in Consumers, NEW s \in Uses(c) PROVE IsPublished(s)
  BY ReaderUses, KnownTypes DEF Sound, Solid
<1> QED BY <1>1, <1>2 DEF SlotsAreExclusive

\* For any number of producers and consumers, any size of the ring and any
\* width of the numbers that has room for it, whatever is claimed, published
\* and read in whatever order: no slot is written while another thread writes
\* or reads it, and every number that is read has been published.
THEOREM SlotSafety == Spec => []SlotsAreExclusive
BY InitMultiInv, StepMultiInv, InvExclusive, PTL DEF Spec

-----------------------------------------------------------------------------
(* Who waits for whom in the sequencer with many producers *)

\* The lists in the hands of a thread.
Took(p, c) == In(c, taken[p])
PutsBack(p, c) == In(c, requeue[p])
WillResume(p, c) == In(c, toResume[p])
Keeps(p, c) == Took(p, c) \/ PutsBack(p, c) \/ WillResume(p, c)
Listed(c) == In(c, awaiters) \/ \E p \in Threads : Keeps(p, c)

ProducerPCs ==
    {"running", "claiming", "storing", "load", "take", "scan", "putBack", "recheck", "resume"}
CallPCs == {"enqueue", "check", "grab", "resume"}
ConsumerPCs == CallPCs \cup {"running", "suspended", "reading"}
ResumerPCs == {"take", "scan", "putBack", "recheck", "resume"}

\* An awaiter is in a list until one side of the handshake has come: those that
\* sleep, and those on their way there whom nobody has resumed.
Waiting(c) == pc[c] = "suspended" \/ (pc[c] \in CallPCs /\ ~ready[c])

WaitTypes ==
    /\ awaiters \in Seq(Consumers) /\ Distinct(awaiters)
    /\ taken \in [Threads -> Seq(Consumers)]
    /\ requeue \in [Threads -> Seq(Consumers)]
    /\ toResume \in [Threads -> Seq(Consumers)]
    /\ \A p \in Threads : Distinct(taken[p]) /\ Distinct(requeue[p]) /\ Distinct(toResume[p])
    /\ ready \in [Consumers -> BOOLEAN]
    /\ target \in [Consumers -> Sequence]
    /\ until \in [Threads -> Sequence]

WaitHands ==
    /\ \A p \in Producers : pc[p] \in ProducerPCs
    /\ \A c \in Consumers : pc[c] \in ConsumerPCs
    /\ \A p \in Threads :
          /\ taken[p] # <<>> => pc[p] = "scan"
          /\ requeue[p] # <<>> => pc[p] \in {"putBack", "enqueue"}
          /\ toResume[p] # <<>> => pc[p] \in ResumerPCs

WaitApart ==
    \A c \in Consumers : \A p \in Threads :
        /\ Keeps(p, c) => ~In(c, awaiters) /\ \A q \in Threads \ {p} : ~Keeps(q, c)
        /\ WillResume(p, c) => ~Took(p, c) /\ ~PutsBack(p, c)

WaitHeld ==
    \A c \in Consumers :
        /\ Listed(c) <=> Waiting(c)
        /\ pc[c] = "suspended" => ready[c]
        /\ pc[c] = "running" => ~ready[c]

TargetInv ==
    \A c \in Consumers :
        Waiting(c) => /\ Un(consumed[c]) < Un(target[c])
                      /\ Un(target[c]) <= Un(consumed[c]) + Size
                      /\ Un(consumed[c]) <= Un(lastKnown[c])

\* A scan starts and goes on after what one of the awaiters has consumed.
ScanInv ==
    \A p \in Threads :
        pc[p] = "scan" => \E c \in Consumers : Took(p, c) /\ Un(consumed[c]) <= Un(known[p])

\* What a thread that puts an awaiter back goes through reaches from what the
\* awaiter has consumed to its number or a number before.
Looks(p, c) == Un(consumed[c]) <= Un(known[p]) /\ Un(until[p]) <= Un(target[c])

PutBackInv ==
    \A p \in Threads :
        /\ \A c \in Consumers : PutsBack(p, c) => Looks(p, c)
        /\ pc[p] \in {"putBack", "recheck"} => Un(known[p]) < Un(until[p])
        /\ pc[p] \in {"enqueue", "check"} => 0 <= Un(until[p])

Arrived(c) ==
    \A s \in Sequence : Un(consumed[c]) < Un(s) /\ Un(s) <= Un(target[c]) => IsPublished(s)

\* A thread that is about to take the list, or to find that it has to.
Finds(p, c) ==
    \/ pc[p] \in {"load", "take", "grab"}
    \/ pc[p] \in {"recheck", "check"} /\ Looks(p, c)

\* Nobody is in the list for numbers that are published unless somebody finds out.
FoundInv ==
    \A c \in Consumers : In(c, awaiters) /\ Arrived(c) => \E p \in Threads : Finds(p, c)

ListInv == WaitTypes /\ WaitHands /\ WaitApart /\ WaitHeld
LookInv == TargetInv /\ ScanInv /\ PutBackInv
WaitInv == ListInv /\ LookInv /\ FoundInv

-----------------------------------------------------------------------------

\* The numbers that are in use are far from where they wrap.
LEMMA UseRange ==
    ASSUME MultiInv, NEW v, Sound(v)
    PROVE  v \in Sequence /\ Un(v) \in 0..MaxClaims
<1>1. /\ v \in Sequence /\ nextToClaim \in Sequence
      /\ 0 <= Un(v) /\ Un(v) < Un(nextToClaim) /\ Un(nextToClaim) <= MaxClaims + 1
  BY DEF Sound, InUse, MultiInv, MultiTypes
<1>2. Un(v) \in Int /\ Un(nextToClaim) \in Int
  BY <1>1, NthUn
<1> QED BY <1>1, <1>2, WidthFits

LEMMA NextNumber ==
    ASSUME MultiInv, NEW p \in Threads
    PROVE  /\ known[p] \in Sequence /\ Un(known[p]) \in 0..MaxClaims
           /\ Next1(p) \in Sequence /\ Un(Next1(p)) = Un(known[p]) + 1
<1>1. known[p] \in Sequence /\ Un(known[p]) \in 0..MaxClaims
  BY UseRange, KnownTypes
<1>2. 2 * (Un(known[p]) + 1) < W /\ -2 * (Un(known[p]) + 1) <= W
  BY <1>1, WidthFits
<1> QED BY <1>1, <1>2, UnPlus DEF Next1

LEMMA ConsumerNumbers ==
    ASSUME MultiInv, WaitTypes, NEW c \in Consumers
    PROVE  /\ consumed[c] \in Sequence /\ Un(consumed[c]) \in 0..MaxClaims
           /\ lastKnown[c] \in Sequence /\ Un(lastKnown[c]) \in 0..MaxClaims
           /\ target[c] \in Sequence /\ Un(target[c]) \in Int
BY UseRange, KnownTypes, NthUn DEF WaitTypes

\* A thread moves awaiters between the shared list and its own, or lets go of
\* them, or puts in one that was in no list.
HandsAlone(p) ==
    \A q \in Threads \ {p} :
        taken'[q] = taken[q] /\ requeue'[q] = requeue[q] /\ toResume'[q] = toResume[q]

LEMMA ApartKept ==
    ASSUME WaitApart, NEW p \in Threads, HandsAlone(p),
           \A c \in Consumers :
              /\ In(c, awaiters)' \/ Keeps(p, c)' =>
                    In(c, awaiters) \/ Keeps(p, c) \/ ~Listed(c)
              /\ ~(In(c, awaiters)' /\ Keeps(p, c)')
              /\ ~(WillResume(p, c)' /\ (Took(p, c)' \/ PutsBack(p, c)'))
    PROVE  WaitApart'
<1> SUFFICES ASSUME NEW c \in Consumers, NEW q \in Threads
             PROVE  /\ Keeps(q, c)' => ~In(c, awaiters)' /\ \A r \in Threads \ {q} : ~Keeps(r, c)'
                    /\ WillResume(q, c)' => ~Took(q, c)' /\ ~PutsBack(q, c)'
  BY DEF WaitApart
<1>1. \A r \in Threads \ {p} : /\ Keeps(r, c)' <=> Keeps(r, c)
                               /\ WillResume(r, c)' <=> WillResume(r, c)
                               /\ Took(r, c)' <=> Took(r, c)
                               /\ PutsBack(r, c)' <=> PutsBack(r, c)
  BY DEF HandsAlone, Keeps, Took, PutsBack, WillResume
<1>2. CASE q = p
  <2>1. ASSUME NEW r \in Threads \ {p}, Keeps(p, c)', Keeps(r, c) PROVE FALSE
    <3>1. (Listed(c) /\ In(c, awaiters)) \/ Keeps(p, c)
      BY <2>1 DEF Listed
    <3> QED BY <2>1, <3>1 DEF WaitApart
  <2> QED BY <1>1, <1>2, <2>1
<1>3. CASE q # p
  <2>1. Keeps(q, c) => ~In(c, awaiters)' /\ ~Keeps(p, c)'
    BY <1>3 DEF WaitApart, Listed
  <2>2. Keeps(q, c) => \A r \in Threads \ {q} : ~Keeps(r, c)
    BY DEF WaitApart
  <2>3. WillResume(q, c) => ~Took(q, c) /\ ~PutsBack(q, c)
    BY DEF WaitApart
  <2> QED BY <1>1, <1>3, <2>1, <2>2, <2>3
<1> QED BY <1>2, <1>3

LEMMA ListedKept ==
    ASSUME NEW p \in Threads, HandsAlone(p), NEW c,
           In(c, awaiters)' \/ Keeps(p, c)' <=> In(c, awaiters) \/ Keeps(p, c)
    PROVE  Listed(c)' <=> Listed(c)
<1>1. \A r \in Threads \ {p} : Keeps(r, c)' <=> Keeps(r, c)
  BY DEF HandsAlone, Keeps, Took, PutsBack, WillResume
<1> QED BY <1>1 DEF Listed

\* A thread that goes on, but neither goes to sleep nor returns.
GoesOn(p, to) ==
    /\ p \in Threads /\ Goto(p, to) /\ UNCHANGED ready
    /\ \/ p \in Producers /\ to \in ProducerPCs
       \/ p \in Consumers /\ pc[p] \in CallPCs /\ to \in CallPCs

LEMMA WaitingKept ==
    ASSUME MultiInv, WaitHeld, NEW p, NEW to, GoesOn(p, to)
    PROVE  /\ \A q \in Threads : pc'[q] = IF q = p THEN to ELSE pc[q]
           /\ \A c \in Consumers :
                 /\ Waiting(c)' <=> Waiting(c)
                 /\ pc'[c] = "suspended" => ready'[c]
                 /\ pc'[c] = "running" => ~ready'[c]
<1>1. \A q \in Threads : pc'[q] = IF q = p THEN to ELSE pc[q]
  BY KnownTypes DEF GoesOn, Goto
<1>2. ASSUME NEW c \in Consumers
      PROVE  /\ Waiting(c)' <=> Waiting(c)
             /\ pc'[c] = "suspended" => ready'[c]
             /\ pc'[c] = "running" => ~ready'[c]
  <2>1. c \in Threads /\ c \notin Producers
    BY KnownTypes
  <2> QED BY <1>1, <2>1 DEF GoesOn, Waiting, WaitHeld, CallPCs
<1> QED BY <1>1, <1>2

LEMMA HandsKept ==
    ASSUME MultiInv, WaitHands, NEW p, NEW to, GoesOn(p, to), HandsAlone(p),
           taken'[p] # <<>> => to = "scan",
           requeue'[p] # <<>> => to \in {"putBack", "enqueue"},
           toResume'[p] # <<>> => to \in ResumerPCs
    PROVE  WaitHands'
<1>1. \A q \in Threads : pc'[q] = IF q = p THEN to ELSE pc[q]
  BY KnownTypes DEF GoesOn, Goto
<1>2. (\A q \in Producers : pc[q] \in ProducerPCs)' /\ (\A c \in Consumers : pc[c] \in ConsumerPCs)'
  BY <1>1, KnownTypes DEF GoesOn, WaitHands, ConsumerPCs
<1>3. (\A q \in Threads : /\ taken[q] # <<>> => pc[q] = "scan"
                          /\ requeue[q] # <<>> => pc[q] \in {"putBack", "enqueue"}
                          /\ toResume[q] # <<>> => pc[q] \in ResumerPCs)'
  BY <1>1 DEF HandsAlone, WaitHands
<1> QED BY <1>2, <1>3 DEF WaitHands

-----------------------------------------------------------------------------
\* The steps that move nobody between lists.

\* What a thread knows and looks for are its own.
OwnLocals(p) ==
    \A q \in Threads \ {p} : known'[q] = known[q] /\ until'[q] = until[q]

Quiet(p, to) ==
    /\ GoesOn(p, to) /\ OwnLocals(p)
    /\ UNCHANGED <<awaiters, consumed, waits, lists>>
    /\ until' \in [Threads -> Sequence]
    /\ taken[p] # <<>> => to = "scan"
    /\ requeue[p] = <<>>
    /\ toResume[p] # <<>> => to \in ResumerPCs
    /\ to = "scan" => pc[p] = "scan" /\ Un(known[p]) <= Un(known'[p])
    /\ to \in {"putBack", "recheck"} => Un(known'[p]) < Un(until'[p])
    /\ to \in {"enqueue", "check"} => 0 <= Un(until'[p])

LEMMA QuietWaits ==
    ASSUME MultiInv, MultiInv', WaitInv, NEW p, NEW to, Quiet(p, to)
    PROVE  ListInv' /\ LookInv'
<1> USE DEF WaitInv, ListInv, LookInv
<1>1. /\ \A q \in Threads : pc'[q] = IF q = p THEN to ELSE pc[q]
      /\ \A c \in Consumers :
            /\ Waiting(c)' <=> Waiting(c)
            /\ pc'[c] = "suspended" => ready'[c]
            /\ pc'[c] = "running" => ~ready'[c]
  BY WaitingKept DEF Quiet
<1>2. /\ p \in Threads /\ HandsAlone(p)
      /\ UNCHANGED <<awaiters, consumed, target, lastKnown, ready, taken, requeue, toResume>>
  BY DEF Quiet, GoesOn, HandsAlone, waits, lists
<1>3. \A c : /\ Listed(c)' <=> Listed(c)
             /\ In(c, awaiters)' <=> In(c, awaiters)
             /\ \A q : /\ Took(q, c)' <=> Took(q, c)
                       /\ PutsBack(q, c)' <=> PutsBack(q, c)
                       /\ WillResume(q, c)' <=> WillResume(q, c)
                       /\ Keeps(q, c)' <=> Keeps(q, c)
  BY <1>2 DEF Listed, Keeps, Took, PutsBack, WillResume
<1>4. WaitTypes'
  BY <1>2 DEF WaitTypes, Quiet
<1>5. WaitHands'
  BY <1>2, HandsKept DEF Quiet
<1>6. WaitApart'
  BY <1>2, <1>3 DEF WaitApart
<1>7. WaitHeld'
  BY <1>1, <1>3 DEF WaitHeld
<1>8. TargetInv'
  BY <1>1, <1>2 DEF TargetInv
<1>9. ScanInv'
  <2>1. SUFFICES ASSUME NEW q \in Threads, pc'[q] = "scan"
                 PROVE  \E c \in Consumers : Took(q, c)' /\ Un(consumed'[c]) <= Un(known'[q])
    BY DEF ScanInv
  <2>2. pc[q] = "scan" /\ Un(known[q]) <= Un(known'[q])
    <3>1. CASE q = p
      BY <1>1, <2>1, <3>1 DEF Quiet
    <3>2. CASE q # p
      <4>1. pc[q] = "scan" /\ known'[q] = known[q]
        BY <1>1, <2>1, <3>2 DEF Quiet, OwnLocals
      <4> QED BY <4>1, NextNumber
    <3> QED BY <3>1, <3>2
  <2>3. PICK c \in Consumers : Took(q, c) /\ Un(consumed[c]) <= Un(known[q])
    BY <2>2 DEF ScanInv
  <2>4. Un(consumed[c]) \in Int /\ Un(known[q]) \in Int
    BY ConsumerNumbers, NextNumber
  <2>5. Un(known'[q]) \in Int
    <3>1. known'[q] \in Sequence
      BY DEF MultiInv, MultiTypes
    <3> QED BY <3>1, NthUn
  <2>6. Took(q, c)' /\ Un(consumed[c]) <= Un(known'[q])
    BY <1>3, <2>2, <2>3, <2>4, <2>5
  <2> QED BY <1>2, <2>6
<1>10. PutBackInv'
  <2>1. ASSUME NEW q \in Threads, NEW c \in Consumers, PutsBack(q, c)' PROVE Looks(q, c)'
    <3>1. PutsBack(q, c) /\ q # p
      BY <1>3, <2>1, EmptyHolds DEF PutsBack, Quiet
    <3>2. Looks(q, c)
      BY <3>1 DEF PutBackInv
    <3> QED BY <1>2, <3>1, <3>2 DEF Looks, Quiet, OwnLocals
  <2>2. ASSUME NEW q \in Threads
        PROVE  /\ pc'[q] \in {"putBack", "recheck"} => Un(known'[q]) < Un(until'[q])
               /\ pc'[q] \in {"enqueue", "check"} => 0 <= Un(until'[q])
    BY <1>1 DEF PutBackInv, Quiet, OwnLocals
  <2> QED BY <2>1, <2>2 DEF PutBackInv
<1> QED BY <1>4, <1>5, <1>6, <1>7, <1>8, <1>9, <1>10

\* Whoever else was about to find an awaiter still is.
LEMMA FoundKept ==
    ASSUME FoundInv, NEW p \in Threads, OwnLocals(p), UNCHANGED <<consumed, target>>,
           \A q \in Threads \ {p} : pc'[q] = pc[q],
           \A c \in Consumers :
              In(c, awaiters)' /\ Arrived(c)' =>
                 \/ \E q \in Threads : Finds(q, c)'
                 \/ In(c, awaiters) /\ Arrived(c) /\ ~Finds(p, c)
    PROVE  FoundInv'
<1> SUFFICES ASSUME NEW c \in Consumers, In(c, awaiters)', Arrived(c)',
                    In(c, awaiters), Arrived(c), ~Finds(p, c)
             PROVE  \E q \in Threads : Finds(q, c)'
  BY DEF FoundInv
<1>1. PICK q \in Threads \ {p} : Finds(q, c)
  BY DEF FoundInv
<1>2. Finds(q, c)'
  BY <1>1 DEF Finds, Looks, OwnLocals
<1> QED BY <1>2

Idles(p) == (\E n : Claim(p, n)) \/ Claimed(p) \/ PublishReturn(p)

LEMMA IdlesWaits ==
    ASSUME MultiInv, MultiInv', WaitInv, NEW p \in Producers, Idles(p) PROVE WaitInv'
<1> USE DEF WaitInv, ListInv, LookInv
<1>1. PICK to \in {"claiming", "running"} :
          /\ Goto(p, to) /\ pc[p] \in {"running", "claiming", "resume"}
          /\ UNCHANGED <<awaiters, consumed, waits, lists, published>>
          /\ \/ UNCHANGED <<known, until>>
             \/ LocalsGone(p)
          /\ toResume[p] = <<>>
  BY KnownTypes DEF Idles, Claim, Claimed, PublishReturn, WaitHands, ResumerPCs
<1>2. Quiet(p, to)
  <2>1. p \in Threads /\ to \in ProducerPCs
    BY KnownTypes DEF ProducerPCs
  <2>2. OwnLocals(p) /\ until' \in [Threads -> Sequence]
    BY <1>1, FirstIsZero, KnownTypes DEF OwnLocals, LocalsGone, Set, WaitTypes
  <2>3. taken[p] = <<>> /\ requeue[p] = <<>>
    BY <1>1, <2>1 DEF WaitHands
  <2> QED BY <1>1, <2>1, <2>2, <2>3 DEF Quiet, GoesOn, waits
<1>3. FoundInv'
  <2>1. \A q \in Threads \ {p} : pc'[q] = pc[q]
    BY <1>1, KnownTypes DEF Goto
  <2>2. \A c \in Consumers : ~Finds(p, c)
    BY <1>1 DEF Finds
  <2>3. UNCHANGED <<consumed, target, awaiters, published>>
    BY <1>1 DEF waits
  <2>4. \A c : (In(c, awaiters)' <=> In(c, awaiters)) /\ (Arrived(c)' <=> Arrived(c))
    BY <2>3 DEF Arrived, IsPublished
  <2> QED BY <1>2, <2>1, <2>2, <2>3, <2>4, FoundKept DEF Quiet, GoesOn
<1> QED BY <1>2, <1>3, QuietWaits

\* A thread finds its list empty or is about to take it.
LEMMA LoadWaits ==
    ASSUME MultiInv, MultiInv', WaitInv, NEW p \in Threads, LoadAwaiters(p) PROVE WaitInv'
<1> USE DEF WaitInv, ListInv, LookInv
<1>1. PICK to \in {"running", "take"} :
          /\ Goto(p, to) /\ pc[p] = "load"
          /\ to = "running" => awaiters = <<>>
          /\ UNCHANGED <<awaiters, consumed, waits, lists, published, known, until>>
  BY DEF LoadAwaiters
<1>2. p \in Producers /\ to \in ProducerPCs
  BY <1>1 DEF WaitHands, Threads, ConsumerPCs, CallPCs, ProducerPCs
<1>3. Quiet(p, to)
  BY <1>1, <1>2 DEF Quiet, GoesOn, OwnLocals, WaitHands, WaitTypes, ResumerPCs, waits
<1>4. FoundInv'
  <2>1. CASE to = "running"
    BY <1>1, <2>1, EmptyHolds DEF FoundInv
  <2>2. CASE to = "take"
    <3>1. pc'[p] = "take"
      BY <1>1, <2>2, KnownTypes DEF Goto
    <3> QED BY <3>1 DEF FoundInv, Finds
  <2> QED BY <2>1, <2>2
<1> QED BY <1>3, <1>4, QuietWaits

\* A scan goes on by a number.
LEMMA AdvanceWaits ==
    ASSUME MultiInv, MultiInv', WaitInv, NEW p \in Threads, Advance(p) PROVE WaitInv'
<1> USE DEF WaitInv, ListInv, LookInv
<1>1. /\ pc[p] \in {"scan", "check"} /\ pc' = pc
      /\ UNCHANGED <<awaiters, consumed, waits, lists, published, until>>
      /\ known' = Set(known, p, Next1(p))
  BY DEF Advance
<1>2. known'[p] = Next1(p) /\ OwnLocals(p)
  BY <1>1, KnownTypes DEF Set, OwnLocals
<1>3. Un(known'[p]) = Un(known[p]) + 1 /\ Un(known[p]) \in Int
  BY <1>2, NextNumber
<1>4. Quiet(p, pc[p])
  <2>1. Goto(p, pc[p])
    BY <1>1, KnownTypes DEF Goto
  <2>2. \/ p \in Producers /\ pc[p] \in ProducerPCs
        \/ p \in Consumers /\ pc[p] \in CallPCs
    BY <1>1 DEF WaitHands, Threads, ConsumerPCs
  <2>3. GoesOn(p, pc[p])
    BY <1>1, <2>1, <2>2 DEF GoesOn, waits
  <2>4. requeue[p] = <<>>
    BY <1>1 DEF WaitHands
  <2> QED BY <1>1, <1>2, <1>3, <2>3, <2>4 DEF Quiet, WaitHands, WaitTypes, PutBackInv
<1>5. FoundInv'
  <2>1. UNCHANGED <<consumed, target, awaiters, published>>
    BY <1>1 DEF waits
  <2>2. \A c : (In(c, awaiters)' <=> In(c, awaiters)) /\ (Arrived(c)' <=> Arrived(c))
    BY <2>1 DEF Arrived, IsPublished
  <2>3. ASSUME NEW c \in Consumers, Finds(p, c) PROVE Finds(p, c)'
    <3>1. pc[p] = "check" /\ Looks(p, c)
      BY <1>1, <2>3 DEF Finds
    <3>2. Un(consumed[c]) \in Int /\ UNCHANGED <<until, target, consumed>>
      BY <1>1, ConsumerNumbers DEF waits
    <3>3. Un(consumed[c]) <= Un(known'[p])
      BY <1>3, <3>1, <3>2 DEF Looks
    <3>4. Looks(p, c)'
      BY <3>1, <3>2, <3>3 DEF Looks
    <3> QED BY <1>1, <3>1, <3>4 DEF Finds
  <2>4. \A q \in Threads \ {p} : pc'[q] = pc[q]
    BY <1>1
  <2> QED BY <1>2, <2>1, <2>2, <2>3, <2>4, FoundKept
<1> QED BY <1>4, <1>5, QuietWaits

\* A look that does not find the next number: what it looks for has not come.
LEMMA NotArrived ==
    ASSUME MultiInv, WaitTypes, NEW p \in Threads, NEW c \in Consumers, Looks(p, c),
           until[p] \in Sequence, Un(known[p]) < Un(until[p]), ~IsPublished(Next1(p))
    PROVE  ~Arrived(c)
<1>1. /\ Un(known[p]) \in Int /\ Next1(p) \in Sequence /\ Un(Next1(p)) = Un(known[p]) + 1
      /\ Un(consumed[c]) \in Int /\ Un(target[c]) \in Int /\ Un(until[p]) \in Int
  BY NextNumber, ConsumerNumbers, NthUn
<1>2. Un(consumed[c]) < Un(Next1(p)) /\ Un(Next1(p)) <= Un(target[c])
  BY <1>1 DEF Looks
<1> QED BY <1>1, <1>2 DEF Arrived

LEMMA RecheckWaits ==
    ASSUME MultiInv, MultiInv', WaitInv, NEW p \in Threads, Recheck(p) PROVE WaitInv'
<1> USE DEF WaitInv, ListInv, LookInv
<1>1. PICK to \in {"take", "recheck", "resume"} :
          /\ pc[p] = "recheck" /\ Goto(p, to)
          /\ UNCHANGED <<awaiters, consumed, waits, lists, published, until>>
          /\ \/ to # "resume" /\ known' = Set(known, p, Next1(p))
             \/ to = "resume" /\ known' = known /\ ~IsPublished(Next1(p))
          /\ to = "recheck" => Next1(p) # until[p]
  BY DEF Recheck
<1>2. /\ p \in Producers /\ to \in ProducerPCs /\ OwnLocals(p)
      /\ to # "resume" => known'[p] = Next1(p)
  BY <1>1, KnownTypes DEF WaitHands, Threads, ConsumerPCs, CallPCs, ProducerPCs, Set, OwnLocals
<1>3. /\ Un(known[p]) \in Int /\ Next1(p) \in Sequence /\ Un(Next1(p)) = Un(known[p]) + 1
      /\ until[p] \in Sequence /\ Un(until[p]) \in Int /\ Un(known[p]) < Un(until[p])
  BY <1>1, NextNumber, NthUn DEF WaitTypes, PutBackInv
<1>4. to = "recheck" => Un(known'[p]) < Un(until'[p])
  <2>1. to = "recheck" => Un(Next1(p)) # Un(until[p])
    BY <1>1, <1>3, UnDistinct
  <2> QED BY <1>1, <1>2, <1>3, <2>1
<1>5. Quiet(p, to)
  BY <1>1, <1>2, <1>4 DEF Quiet, GoesOn, WaitHands, WaitTypes, ResumerPCs, waits
<1>6. FoundInv'
  <2>1. UNCHANGED <<consumed, target, awaiters, published>>
    BY <1>1 DEF waits
  <2>2. \A c : (In(c, awaiters)' <=> In(c, awaiters)) /\ (Arrived(c)' <=> Arrived(c))
    BY <2>1 DEF Arrived, IsPublished
  <2>3. \A q \in Threads : pc'[q] = IF q = p THEN to ELSE pc[q]
    BY <1>1, KnownTypes DEF Goto
  <2>4. ASSUME NEW c \in Consumers, Arrived(c), Finds(p, c) PROVE Finds(p, c)'
    <3>1. Looks(p, c)
      BY <1>1, <2>4 DEF Finds
    <3>2. to # "resume"
      BY <1>1, <1>3, <2>4, <3>1, NotArrived
    <3>3. CASE to = "take"
      BY <2>3, <3>3 DEF Finds
    <3>4. CASE to = "recheck"
      <4>1. Un(consumed[c]) \in Int
        BY ConsumerNumbers
      <4>2. Un(consumed[c]) <= Un(known'[p])
        BY <1>2, <1>3, <3>1, <3>2, <4>1 DEF Looks
      <4>3. Looks(p, c)'
        BY <1>1, <2>1, <3>1, <4>2 DEF Looks
      <4> QED BY <2>3, <3>4, <4>3 DEF Finds
    <3> QED BY <1>1, <3>2, <3>3, <3>4
  <2>5. \A q \in Threads \ {p} : pc'[q] = pc[q]
    BY <2>3
  <2> QED BY <1>2, <2>1, <2>2, <2>4, <2>5, FoundKept
<1> QED BY <1>5, <1>6, QuietWaits

LEMMA CheckWaits ==
    ASSUME MultiInv, MultiInv', WaitInv, NEW c \in Consumers, Check(c) PROVE WaitInv'
<1> USE DEF WaitInv, ListInv, LookInv
<1>1. PICK to \in {"resume", "grab"} :
          /\ pc[c] = "check" /\ Goto(c, to) /\ ~IsPublished(Next1(c))
          /\ to = "resume" => Precedes(known[c], until[c])
          /\ UNCHANGED <<awaiters, consumed, waits, lists, published, known, until>>
  BY DEF Check
<1>2. c \in Threads
  BY KnownTypes
<1>3. Quiet(c, to)
  BY <1>1, <1>2 DEF Quiet, GoesOn, OwnLocals, WaitHands, WaitTypes, ResumerPCs, waits, CallPCs
<1>4. FoundInv'
  <2>1. UNCHANGED <<consumed, target, awaiters, published>>
    BY <1>1 DEF waits
  <2>2. \A d : (In(d, awaiters)' <=> In(d, awaiters)) /\ (Arrived(d)' <=> Arrived(d))
    BY <2>1 DEF Arrived, IsPublished
  <2>3. \A q \in Threads : pc'[q] = IF q = c THEN to ELSE pc[q]
    BY <1>1, KnownTypes DEF Goto
  <2>4. ASSUME NEW d \in Consumers, In(d, awaiters), Arrived(d), Finds(c, d) PROVE Finds(c, d)'
    <3>1. Looks(c, d)
      BY <1>1, <2>4 DEF Finds
    <3>2. to # "resume"
      <4>1. SUFFICES ASSUME Precedes(known[c], until[c]) PROVE FALSE
        BY <1>1
      <4>2. /\ known[c] \in Sequence /\ Un(known[c]) \in 0..MaxClaims
            /\ until[c] \in Sequence /\ Un(until[c]) \in Int
        BY <1>2, NextNumber, NthUn DEF WaitTypes
      <4>3. Un(target[d]) <= MaxClaims + Size
        <5>1. Waiting(d)
          BY <2>4 DEF WaitHeld, Listed
        <5> QED BY <5>1, ConsumerNumbers, WidthFits DEF TargetInv
      <4>4. Un(known[c]) < Un(until[c])
        <5>1. 0 <= Un(until[c]) /\ Un(until[c]) <= MaxClaims + Size
          <6>1. 0 <= Un(until[c])
            BY <1>1, <1>2 DEF PutBackInv
          <6>2. Un(until[c]) <= Un(target[d]) /\ Un(target[d]) \in Int
            BY <3>1, ConsumerNumbers DEF Looks
          <6> QED BY <4>2, <4>3, <6>1, <6>2, WidthFits
        <5>2. /\ 2 * (Un(known[c]) - Un(until[c])) < W
              /\ 2 * (Un(until[c]) - Un(known[c])) <= W
          BY <4>2, <5>1, WidthFits
        <5> QED BY <4>1, <4>2, <5>2, UnDifference
      <4> QED BY <1>1, <1>2, <2>4, <3>1, <4>2, <4>4, NotArrived
    <3> QED BY <1>1, <2>3, <1>2, <3>2 DEF Finds
  <2>5. \A q \in Threads \ {c} : pc'[q] = pc[q]
    BY <2>3
  <2>6. OwnLocals(c)
    BY <1>1 DEF OwnLocals
  <2> QED BY <1>2, <2>1, <2>2, <2>4, <2>5, <2>6, FoundKept
<1> QED BY <1>3, <1>4, QuietWaits

\* A number of a range that is not its first: the first, not yet published, is
\* before what nobody waits for, or on the way to what is waited for.
LEMMA RestArrives ==
    ASSUME MultiInv, MultiInv', WaitInv, NEW p \in Producers, NEW s \in held[p],
           s # Earliest(held[p]), Store(p, s), NEW c \in Consumers, Arrived(c)'
    PROVE  Arrived(c)
<1>0. PICK e : e = Earliest(held[p])
  OBVIOUS
<1>1. /\ UNCHANGED <<consumed, target>> /\ published' = Set(published, Slot(s), s)
      /\ held' = Set(held, p, held[p] \ {s})
  BY DEF Store, waits
<1>2. held[p] \subseteq Sequence /\ held \in [Producers -> SUBSET Sequence]
  BY DEF MultiInv, MultiTypes
<1>3. \A r \in held[p] : 0 <= Un(r) /\ 2 * Un(r) < W /\ Un(r) \in Int
  <2>1. ASSUME NEW r \in held[p] PROVE 0 <= Un(r) /\ 2 * Un(r) < W /\ Un(r) \in Int
    <3>1. 0 < Un(r) /\ Un(r) < Un(nextToClaim) /\ Un(nextToClaim) <= MaxClaims + 1
      BY DEF MultiInv, HeldInv, MultiTypes
    <3>2. Un(r) \in Int /\ Un(nextToClaim) \in Int
      BY <1>2, NthUn DEF MultiInv, MultiTypes
    <3> QED BY <3>1, <3>2, WidthFits
  <2> QED BY <2>1
<1>4. e \in held[p] /\ \A r \in held[p] : Un(e) <= Un(r)
  BY <1>0, <1>2, <1>3, EarliestIsLeast
<1>5. e # s /\ e \in held'[p] /\ Un(e) < Un(s)
  <2>1. e # s
    BY <1>0
  <2>2. Un(e) # Un(s)
    BY <1>2, <1>4, <2>1, UnDistinct
  <2> QED BY <1>1, <1>2, <1>3, <1>4, <2>1, <2>2 DEF Set
<1>6. ~IsPublished(e)' /\ Un(consumed[c]) < Un(e)
  <2>1. Sound(consumed[c])
    BY KnownTypes
  <2>2. ~IsPublished(e)'
    BY <1>5 DEF MultiInv, HeldInv
  <2> QED BY <1>4, <2>1, <2>2 DEF Sound
<1>7. /\ Un(consumed[c]) \in Int /\ Un(target[c]) \in Int
      /\ Un(e) \in Int /\ Un(s) \in Int
  BY <1>3, <1>4, ConsumerNumbers DEF WaitInv, ListInv
<1>8. Un(target[c]) < Un(s)
  BY <1>1, <1>2, <1>4, <1>5, <1>6, <1>7 DEF Arrived
<1>9. SUFFICES ASSUME NEW x \in Sequence, Un(consumed[c]) < Un(x), Un(x) <= Un(target[c])
               PROVE  IsPublished(x)
  BY DEF Arrived
<1>10. IsPublished(x)' /\ x # s
  BY <1>1, <1>7, <1>8, <1>9 DEF Arrived
<1>11. Slot(x) \in 0..Size - 1 /\ published \in [0..Size - 1 -> Sequence]
  BY SlotInRing DEF MultiInv, MultiTypes
<1> QED BY <1>1, <1>10, <1>11 DEF IsPublished, Set

LEMMA StoresWaits ==
    ASSUME MultiInv, MultiInv', WaitInv, NEW p \in Producers, Stores(p) PROVE WaitInv'
<1> USE DEF WaitInv, ListInv, LookInv
<1>1. PICK s \in held[p], to \in {"load", "storing"} :
          /\ Store(p, s) /\ Goto(p, to) /\ pc[p] \in {"running", "storing"}
          /\ to = "storing" => s # Earliest(held[p])
  BY DEF Stores, PublishFirst, PublishOne, PublishRest
<1>2. p \in Threads /\ to \in ProducerPCs
  BY <1>1, KnownTypes DEF ProducerPCs
<1>3. Quiet(p, to)
  BY <1>1, <1>2 DEF Quiet, GoesOn, OwnLocals, Store, WaitHands, WaitTypes, ResumerPCs, waits
<1>4. \A q \in Threads : pc'[q] = IF q = p THEN to ELSE pc[q]
  BY <1>1, KnownTypes DEF Goto
<1>5. FoundInv'
  <2>1. CASE to = "load"
    BY <1>2, <1>4, <2>1 DEF FoundInv, Finds
  <2>2. CASE to = "storing"
    <3>1. \A c \in Consumers : Arrived(c)' => Arrived(c)
      BY <1>1, <2>2, RestArrives
    <3>2. \A c \in Consumers : ~Finds(p, c)
      BY <1>1 DEF Finds
    <3>3. OwnLocals(p) /\ UNCHANGED <<consumed, target, awaiters>>
      BY <1>3 DEF Quiet, waits
    <3>4. (\A q \in Threads \ {p} : pc'[q] = pc[q]) /\ \A c : In(c, awaiters)' <=> In(c, awaiters)
      BY <1>4, <3>3
    <3> QED BY <1>2, <3>1, <3>2, <3>3, <3>4, FoundKept
  <2> QED BY <2>1, <2>2
<1> QED BY <1>3, <1>5, QuietWaits

-----------------------------------------------------------------------------
\* The steps that move awaiters from one list to another.

LEMMA TakeWaits ==
    ASSUME MultiInv, MultiInv', WaitInv, NEW p \in Threads, TakeAwaiters(p) PROVE WaitInv'
<1> USE DEF WaitInv, ListInv, LookInv
<1>1. PICK to \in {"scan", "resume"} :
          /\ pc[p] = "take" /\ Goto(p, to)
          /\ awaiters' = <<>> /\ taken' = Set(taken, p, awaiters)
          /\ awaiters # <<>> => to = "scan" /\ known' = Set(known, p, lastKnown[Head(awaiters)])
          /\ to = "scan" => awaiters # <<>>
          /\ awaiters = <<>> => known' = known
          /\ UNCHANGED <<consumed, target, lastKnown, ready, until, requeue, toResume>>
  BY DEF TakeAwaiters, waits
<1>2. p \in Producers /\ GoesOn(p, to)
  BY <1>1 DEF WaitHands, Threads, ConsumerPCs, CallPCs, ProducerPCs, GoesOn
<1>3. /\ \A q \in Threads : pc'[q] = IF q = p THEN to ELSE pc[q]
      /\ \A c \in Consumers :
            /\ Waiting(c)' <=> Waiting(c)
            /\ pc'[c] = "suspended" => ready'[c]
            /\ pc'[c] = "running" => ~ready'[c]
  BY <1>2, WaitingKept
<1>4. HandsAlone(p) /\ OwnLocals(p) /\ taken'[p] = awaiters
  BY <1>1, KnownTypes DEF HandsAlone, OwnLocals, Set, WaitTypes
<1>5. taken[p] = <<>> /\ requeue[p] = <<>>
  BY <1>1 DEF WaitHands
<1>6. \A c : /\ ~In(c, awaiters)' /\ ~Took(p, c) /\ ~PutsBack(p, c)
             /\ Took(p, c)' <=> In(c, awaiters)
             /\ PutsBack(p, c)' <=> PutsBack(p, c)
             /\ WillResume(p, c)' <=> WillResume(p, c)
  BY <1>1, <1>4, <1>5, EmptyHolds DEF Took, PutsBack, WillResume
<1>7. WaitTypes'
  BY <1>1, <1>4, EmptyHolds DEF WaitTypes, Set
<1>8. WaitHands'
  BY <1>1, <1>2, <1>4, HandsKept DEF WaitHands, ResumerPCs
<1>9. WaitApart'
  BY <1>4, <1>6, ApartKept DEF WaitApart, Keeps
<1>10. WaitHeld'
  <2>1. \A c \in Consumers : Listed(c)' <=> Listed(c)
    BY <1>4, <1>6, ListedKept DEF Keeps
  <2> QED BY <1>3, <2>1 DEF WaitHeld
<1>11. TargetInv'
  BY <1>1, <1>3 DEF TargetInv
<1>12. ScanInv'
  <2>1. SUFFICES ASSUME NEW q \in Threads, pc'[q] = "scan"
                 PROVE  \E c \in Consumers : Took(q, c)' /\ Un(consumed[c]) <= Un(known'[q])
    BY <1>1 DEF ScanInv
  <2>2. CASE q = p
    <3>1. to = "scan" /\ awaiters # <<>>
      BY <1>1, <1>3, <2>1, <2>2
    <3>2. PICK c : c = Head(awaiters)
      OBVIOUS
    <3>3. c \in Consumers /\ In(c, awaiters)
      BY <3>1, <3>2, TailHolds DEF WaitTypes
    <3>4. Waiting(c)
      BY <3>3 DEF WaitHeld, Listed
    <3>5. known'[p] = lastKnown[c]
      BY <1>1, <3>1, <3>2, KnownTypes DEF Set
    <3> QED BY <1>6, <2>2, <3>3, <3>4, <3>5 DEF TargetInv
  <2>3. CASE q # p
    <3>1. /\ pc[q] = "scan" /\ known'[q] = known[q]
          /\ \A c \in Consumers : Took(q, c)' <=> Took(q, c)
      BY <1>3, <1>4, <2>1, <2>3 DEF OwnLocals, HandsAlone, Took
    <3> QED BY <3>1 DEF ScanInv
  <2> QED BY <2>2, <2>3
<1>13. PutBackInv'
  <2>1. ASSUME NEW q \in Threads, NEW c \in Consumers, PutsBack(q, c)' PROVE Looks(q, c)'
    <3>1. q # p /\ PutsBack(q, c)
      BY <1>1, <1>6, <2>1 DEF PutsBack
    <3> QED BY <1>1, <1>4, <3>1 DEF PutBackInv, Looks, OwnLocals
  <2>2. ASSUME NEW q \in Threads
        PROVE  /\ pc'[q] \in {"putBack", "recheck"} => Un(known'[q]) < Un(until'[q])
               /\ pc'[q] \in {"enqueue", "check"} => 0 <= Un(until'[q])
    BY <1>1, <1>3, <1>4 DEF PutBackInv, OwnLocals
  <2> QED BY <2>1, <2>2 DEF PutBackInv
<1>14. FoundInv'
  BY <1>6 DEF FoundInv
<1> QED BY <1>7, <1>8, <1>9, <1>10, <1>11, <1>12, <1>13, <1>14

\* The list of a scan is divided at what is published.
LEMMA Divided ==
    ASSUME NEW s \in Seq(Consumers), Distinct(s), NEW n
    PROVE  /\ StillWaits(s, n) \in Seq(Consumers) /\ Distinct(StillWaits(s, n))
           /\ IsReady(s, n) \in Seq(Consumers) /\ Distinct(IsReady(s, n))
           /\ \A c \in Consumers :
                 /\ In(c, StillWaits(s, n)) <=> In(c, s) /\ Difference(target[c], n) > 0
                 /\ In(c, IsReady(s, n)) <=> In(c, s) /\ Difference(target[c], n) <= 0
BY EntriesHold DEF StillWaits, IsReady

\* Where a scan ends nobody has consumed more: the consumer that it started
\* from has not, and what another has consumed is published all the way.
LEMMA NobodyFurther ==
    ASSUME MultiInv, WaitTypes, ScanInv, NEW p \in Threads, pc[p] = "scan",
           ~IsPublished(Next1(p)), NEW c \in Consumers
    PROVE  Un(consumed[c]) <= Un(known[p])
<1>1. PICK d \in Consumers : Un(consumed[d]) <= Un(known[p])
  BY DEF ScanInv
<1>2. /\ Un(known[p]) \in Int /\ Next1(p) \in Sequence /\ Un(Next1(p)) = Un(known[p]) + 1
      /\ Un(consumed[c]) \in Int /\ Un(consumed[d]) \in Int
  BY NextNumber, ConsumerNumbers
<1>3. SUFFICES ASSUME Un(Next1(p)) <= Un(consumed[c]) PROVE FALSE
  BY <1>2
<1>4. Un(consumed[d]) < Un(Next1(p))
  BY <1>1, <1>2
<1>5. Solid(consumed[c])
  BY KnownTypes DEF Sound
<1> QED BY <1>2, <1>3, <1>4, <1>5 DEF Solid

\* What those in the hands of a thread wait for is within the range.
LEMMA TargetRange ==
    ASSUME MultiInv, WaitTypes, TargetInv, NEW c \in Consumers, Waiting(c)
    PROVE  /\ Un(target[c]) \in 1..MaxClaims + Size
           /\ \A v \in Sequence : Un(v) \in 0..MaxClaims =>
                                    Difference(target[c], v) = Un(target[c]) - Un(v)
<1>1. /\ Un(consumed[c]) \in 0..MaxClaims /\ Un(target[c]) \in Int /\ target[c] \in Sequence
      /\ Un(consumed[c]) < Un(target[c]) /\ Un(target[c]) <= Un(consumed[c]) + Size
  BY ConsumerNumbers DEF TargetInv
<1>2. Un(target[c]) \in 1..MaxClaims + Size
  BY <1>1, WidthFits
<1>3. ASSUME NEW v \in Sequence, Un(v) \in 0..MaxClaims
      PROVE  Difference(target[c], v) = Un(target[c]) - Un(v)
  <2>1. 2 * (Un(target[c]) - Un(v)) < W /\ 2 * (Un(v) - Un(target[c])) <= W
    BY <1>2, <1>3, WidthFits
  <2> QED BY <1>1, <2>1, UnDifference
<1> QED BY <1>2, <1>3

LEMMA DivideWaits ==
    ASSUME MultiInv, MultiInv', WaitInv, NEW p \in Threads, Divide(p) PROVE WaitInv'
<1> USE DEF WaitInv, ListInv, LookInv
<1>1. PICK later, now, to, u :
          /\ later = StillWaits(taken[p], known[p]) /\ now = IsReady(taken[p], known[p])
          /\ pc[p] = "scan" /\ ~IsPublished(Next1(p))
          /\ Goto(p, to) /\ to = IF later = <<>> THEN "resume" ELSE "putBack"
          /\ taken' = Set(taken, p, <<>>) /\ requeue' = Set(requeue, p, later)
          /\ toResume' = Set(toResume, p, toResume[p] \o now)
          /\ u = Earliest({target[c] : c \in ToSet(later)})
          /\ until' = IF later = <<>> THEN until ELSE Set(until, p, u)
          /\ UNCHANGED <<awaiters, consumed, target, ready, known, published>>
          /\ lastKnown' = [c \in Consumers |->
                              IF c \in ToSet(taken[p]) THEN known[p] ELSE lastKnown[c]]
  <2>1. PICK later, now : later = StillWaits(taken[p], known[p]) /\ now = IsReady(taken[p], known[p])
    OBVIOUS
  <2> QED BY <2>1 DEF Divide
<1>2. p \in Producers /\ GoesOn(p, to)
  BY <1>1 DEF WaitHands, Threads, ConsumerPCs, CallPCs, ProducerPCs, GoesOn
<1>3. /\ \A q \in Threads : pc'[q] = IF q = p THEN to ELSE pc[q]
      /\ \A c \in Consumers :
            /\ Waiting(c)' <=> Waiting(c)
            /\ pc'[c] = "suspended" => ready'[c]
            /\ pc'[c] = "running" => ~ready'[c]
  BY <1>2, WaitingKept
<1>4. /\ HandsAlone(p) /\ OwnLocals(p)
      /\ taken'[p] = <<>> /\ requeue'[p] = later /\ toResume'[p] = toResume[p] \o now
      /\ later # <<>> => until'[p] = u
  BY <1>1, KnownTypes DEF HandsAlone, OwnLocals, Set, WaitTypes
<1>5. /\ taken[p] \in Seq(Consumers) /\ Distinct(taken[p])
      /\ toResume[p] \in Seq(Consumers) /\ Distinct(toResume[p]) /\ requeue[p] = <<>>
  BY <1>1 DEF WaitTypes, WaitHands
<1>6. /\ later \in Seq(Consumers) /\ Distinct(later) /\ now \in Seq(Consumers) /\ Distinct(now)
      /\ \A c \in Consumers : /\ In(c, later) <=> Took(p, c) /\ Difference(target[c], known[p]) > 0
                              /\ In(c, now) <=> Took(p, c) /\ Difference(target[c], known[p]) <= 0
  BY <1>1, <1>5, Divided DEF Took
<1>7. known[p] \in Sequence /\ Un(known[p]) \in 0..MaxClaims
  BY NextNumber
<1>8. \A c \in Consumers : Took(p, c) =>
          /\ Un(target[c]) \in 1..MaxClaims + Size
          /\ Difference(target[c], known[p]) = Un(target[c]) - Un(known[p])
  <2>1. \A c \in Consumers : Took(p, c) => Waiting(c)
    BY DEF WaitHeld, Listed, Keeps
  <2> QED BY <1>7, <2>1, TargetRange
<1>9. /\ toResume'[p] \in Seq(Consumers) /\ Distinct(toResume'[p])
      /\ \A c : WillResume(p, c)' <=> WillResume(p, c) \/ In(c, now)
  <2>1. \A c \in Consumers : ~(In(c, toResume[p]) /\ In(c, now))
    BY <1>6 DEF WaitApart, WillResume
  <2>2. PICK r : r = toResume[p] \o now
    OBVIOUS
  <2>3. r \in Seq(Consumers) /\ Distinct(r) /\ \A c : In(c, r) <=> In(c, toResume[p]) \/ In(c, now)
    BY <1>5, <1>6, <2>1, <2>2, ConcatHolds
  <2> QED BY <1>4, <2>2, <2>3 DEF WillResume
<1>10. \A c \in Consumers :
          /\ In(c, awaiters)' <=> In(c, awaiters)
          /\ ~Took(p, c)' /\ ~PutsBack(p, c)
          /\ PutsBack(p, c)' <=> In(c, later)
          /\ Took(p, c) <=> In(c, later) \/ In(c, now)
          /\ ~(In(c, later) /\ In(c, now))
  BY <1>1, <1>4, <1>5, <1>6, <1>7, <1>8, EmptyHolds DEF Took, PutsBack
<1>11. later # <<>> => u \in Sequence /\ Un(known[p]) < Un(u)
                       /\ \A c \in Consumers : In(c, later) => Un(u) <= Un(target[c])
  <2> SUFFICES ASSUME later # <<>>
               PROVE  /\ u \in Sequence /\ Un(known[p]) < Un(u)
                      /\ \A c \in Consumers : In(c, later) => Un(u) <= Un(target[c])
    OBVIOUS
  <2>1. PICK T : T = {target[c] : c \in ToSet(later)}
    OBVIOUS
  <2>2. \A c : c \in ToSet(later) <=> c \in Consumers /\ In(c, later)
    BY <1>6, InToSet DEF In
  <2>3. T = {target[c] : c \in {d \in Consumers : In(d, later)}}
    BY <2>1, <2>2
  <2>4. T # {}
    BY <1>6, <2>3, NothingIn
  <2>5. \A t \in T : t \in Sequence /\ Un(t) \in 1..MaxClaims + Size /\ Un(known[p]) < Un(t)
    BY <1>6, <1>7, <1>8, <2>3 DEF WaitTypes
  <2>6. \A t \in T : 0 <= Un(t) /\ 2 * Un(t) < W
    BY <2>5, WidthFits
  <2>7. T \subseteq Sequence
    BY <2>5
  <2>8. u \in T /\ \A t \in T : Un(u) <= Un(t)
    BY <1>1, <2>1, <2>4, <2>6, <2>7, EarliestIsLeast
  <2> QED BY <2>3, <2>5, <2>8
<1>12. WaitTypes'
  <2>1. taken' \in [Threads -> Seq(Consumers)] /\ requeue' \in [Threads -> Seq(Consumers)]
    BY <1>1, <1>6, EmptyHolds DEF WaitTypes, Set
  <2>2. toResume' \in [Threads -> Seq(Consumers)]
    BY <1>1, <1>4, <1>9 DEF WaitTypes, Set
  <2>3. until' \in [Threads -> Sequence]
    BY <1>1, <1>11 DEF WaitTypes, Set
  <2>4. \A q \in Threads : Distinct(taken'[q]) /\ Distinct(requeue'[q]) /\ Distinct(toResume'[q])
    BY <1>4, <1>6, <1>9, EmptyHolds DEF WaitTypes, HandsAlone
  <2> QED BY <1>1, <2>1, <2>2, <2>3, <2>4 DEF WaitTypes
<1>13. WaitHands'
  BY <1>1, <1>2, <1>4, HandsKept DEF ResumerPCs
<1>14. WaitApart'
  <2>1. \A c \in Consumers : In(c, now) => ~In(c, awaiters) /\ Keeps(p, c) /\ ~WillResume(p, c)
    BY <1>10 DEF WaitApart, Keeps
  <2> QED BY <1>4, <1>9, <1>10, <2>1, ApartKept DEF WaitApart, Keeps
<1>15. WaitHeld'
  <2>1. \A c \in Consumers : Listed(c)' <=> Listed(c)
    BY <1>4, <1>9, <1>10, ListedKept DEF Keeps
  <2> QED BY <1>3, <2>1 DEF WaitHeld
<1>16. TargetInv'
  <2>1. \A c \in Consumers : Waiting(c) => Un(consumed[c]) <= Un(lastKnown'[c])
    BY <1>1, NobodyFurther DEF TargetInv
  <2> QED BY <1>1, <1>3, <2>1 DEF TargetInv
<1>17. ScanInv'
  <2>1. \A q \in Threads : pc'[q] = "scan" => q # p /\ pc[q] = "scan"
    BY <1>1, <1>3
  <2>2. \A q \in Threads \ {p} : \A c : Took(q, c)' <=> Took(q, c)
    BY <1>4 DEF HandsAlone, Took
  <2> QED BY <1>1, <2>1, <2>2 DEF ScanInv
<1>18. PutBackInv'
  <2>1. ASSUME NEW q \in Threads, NEW c \in Consumers, PutsBack(q, c)' PROVE Looks(q, c)'
    <3>1. CASE q = p
      <4>1. In(c, later) /\ later # <<>>
        BY <1>10, <2>1, <3>1, EmptyHolds
      <4>2. Un(consumed[c]) <= Un(known[p])
        BY <1>1, NobodyFurther
      <4> QED BY <1>1, <1>4, <1>11, <3>1, <4>1, <4>2 DEF Looks
    <3>2. CASE q # p
      <4>1. PutsBack(q, c) /\ until'[q] = until[q]
        BY <1>4, <2>1, <3>2 DEF HandsAlone, PutsBack, OwnLocals
      <4> QED BY <1>1, <4>1 DEF PutBackInv, Looks
    <3> QED BY <3>1, <3>2
  <2>2. ASSUME NEW q \in Threads
        PROVE  /\ pc'[q] \in {"putBack", "recheck"} => Un(known'[q]) < Un(until'[q])
               /\ pc'[q] \in {"enqueue", "check"} => 0 <= Un(until'[q])
    BY <1>1, <1>3, <1>4, <1>11 DEF PutBackInv, OwnLocals
  <2> QED BY <2>1, <2>2 DEF PutBackInv
<1>19. FoundInv'
  <2>1. \A c : (Arrived(c)' <=> Arrived(c)) /\ (In(c, awaiters)' <=> In(c, awaiters))
    BY <1>1 DEF Arrived, IsPublished
  <2>2. \A c \in Consumers : ~Finds(p, c)
    BY <1>1 DEF Finds
  <2>3. \A q \in Threads \ {p} : pc'[q] = pc[q]
    BY <1>3
  <2> QED BY <1>1, <1>4, <2>1, <2>2, <2>3, FoundKept
<1> QED BY <1>12, <1>13, <1>14, <1>15, <1>16, <1>17, <1>18, <1>19

\* A thread puts the awaiters it has divided off, or its own, into the list.
LEMMA JoinWaits ==
    ASSUME MultiInv, MultiInv', WaitInv, NEW p \in Threads, PutBack(p) \/ Enqueue(p)
    PROVE  WaitInv'
<1> USE DEF WaitInv, ListInv, LookInv
<1>1. PICK to \in {"recheck", "check"} :
          /\ pc[p] = IF to = "recheck" THEN "putBack" ELSE "enqueue"
          /\ Goto(p, to)
          /\ awaiters' = requeue[p] \o awaiters /\ requeue' = Set(requeue, p, <<>>)
          /\ UNCHANGED <<published, consumed, target, lastKnown, ready, known, until,
                          taken, toResume>>
  BY DEF PutBack, Enqueue, waits
<1>2. GoesOn(p, to)
  BY <1>1 DEF WaitHands, Threads, ConsumerPCs, CallPCs, ProducerPCs, GoesOn
<1>3. /\ \A q \in Threads : pc'[q] = IF q = p THEN to ELSE pc[q]
      /\ \A c \in Consumers :
            /\ Waiting(c)' <=> Waiting(c)
            /\ pc'[c] = "suspended" => ready'[c]
            /\ pc'[c] = "running" => ~ready'[c]
  BY <1>2, WaitingKept
<1>4. HandsAlone(p) /\ OwnLocals(p) /\ requeue'[p] = <<>>
  BY <1>1 DEF HandsAlone, OwnLocals, Set, WaitTypes
<1>5. taken[p] = <<>>
  BY <1>1 DEF WaitHands
<1>6. /\ awaiters' \in Seq(Consumers) /\ Distinct(awaiters')
      /\ \A c : In(c, awaiters)' <=> In(c, awaiters) \/ PutsBack(p, c)
  <2>1. /\ requeue[p] \in Seq(Consumers) /\ Distinct(requeue[p])
        /\ awaiters \in Seq(Consumers) /\ Distinct(awaiters)
    BY DEF WaitTypes
  <2>2. \A c \in Consumers : ~(In(c, requeue[p]) /\ In(c, awaiters))
    BY DEF WaitApart, Keeps, PutsBack
  <2>3. PICK r : r = requeue[p] \o awaiters
    OBVIOUS
  <2>4. r \in Seq(Consumers) /\ Distinct(r) /\ \A c : In(c, r) <=> In(c, requeue[p]) \/ In(c, awaiters)
    BY <2>1, <2>2, <2>3, ConcatHolds
  <2> QED BY <1>1, <2>3, <2>4 DEF PutsBack
<1>7. \A c : /\ ~PutsBack(p, c)' /\ ~Took(p, c)
             /\ Took(p, c)' <=> Took(p, c)
             /\ WillResume(p, c)' <=> WillResume(p, c)
  BY <1>1, <1>4, <1>5, EmptyHolds DEF Took, PutsBack, WillResume
<1>8. WaitTypes'
  BY <1>1, <1>4, <1>6, EmptyHolds DEF WaitTypes, Set
<1>9. WaitHands'
  BY <1>1, <1>2, <1>4, <1>5, HandsKept DEF WaitHands, ResumerPCs
<1>10. WaitApart'
  BY <1>4, <1>6, <1>7, ApartKept DEF WaitApart, Keeps
<1>11. WaitHeld'
  <2>1. \A c \in Consumers : Listed(c)' <=> Listed(c)
    BY <1>4, <1>6, <1>7, ListedKept DEF Keeps
  <2> QED BY <1>3, <2>1 DEF WaitHeld
<1>12. TargetInv'
  BY <1>1, <1>3 DEF TargetInv
<1>13. ScanInv'
  <2>1. \A q \in Threads : pc'[q] = "scan" => pc[q] = "scan"
    BY <1>1, <1>3
  <2>2. \A q \in Threads : \A c : Took(q, c)' <=> Took(q, c)
    BY <1>1 DEF Took
  <2> QED BY <1>1, <2>1, <2>2 DEF ScanInv
<1>14. PutBackInv'
  <2>1. ASSUME NEW q \in Threads, NEW c \in Consumers, PutsBack(q, c)' PROVE Looks(q, c)'
    <3>1. q # p /\ PutsBack(q, c)
      BY <1>4, <1>7, <2>1 DEF HandsAlone, PutsBack
    <3> QED BY <1>1, <3>1 DEF PutBackInv, Looks
  <2>2. ASSUME NEW q \in Threads
        PROVE  /\ pc'[q] \in {"putBack", "recheck"} => Un(known'[q]) < Un(until'[q])
               /\ pc'[q] \in {"enqueue", "check"} => 0 <= Un(until'[q])
    BY <1>1, <1>3 DEF PutBackInv
  <2> QED BY <2>1, <2>2 DEF PutBackInv
<1>15. FoundInv'
  <2>1. \A c : Arrived(c)' <=> Arrived(c)
    BY <1>1 DEF Arrived, IsPublished
  <2>2. \A c \in Consumers : PutsBack(p, c) => Finds(p, c)'
    <3>1. pc'[p] \in {"recheck", "check"}
      BY <1>3
    <3>2. \A c \in Consumers : PutsBack(p, c) => Looks(p, c)'
      BY <1>1 DEF PutBackInv, Looks
    <3> QED BY <3>1, <3>2 DEF Finds
  <2>3. \A c \in Consumers : ~Finds(p, c)
    BY <1>1 DEF Finds
  <2>4. \A q \in Threads \ {p} : pc'[q] = pc[q]
    BY <1>3
  <2> QED BY <1>1, <1>4, <1>6, <2>1, <2>2, <2>3, <2>4, FoundKept
<1> QED BY <1>8, <1>9, <1>10, <1>11, <1>12, <1>13, <1>14, <1>15

LEMMA GrabWaits ==
    ASSUME MultiInv, MultiInv', WaitInv, NEW p \in Consumers, Grab(p) PROVE WaitInv'
<1> USE DEF WaitInv, ListInv, LookInv
<1>1. /\ pc[p] = "grab" /\ Goto(p, "resume")
      /\ awaiters' = <<>> /\ toResume' = Set(toResume, p, awaiters)
      /\ UNCHANGED <<consumed, target, lastKnown, ready, known, until, taken, requeue>>
  BY DEF Grab, waits
<1>2. p \in Threads /\ GoesOn(p, "resume")
  BY <1>1, KnownTypes DEF CallPCs, GoesOn
<1>3. /\ \A q \in Threads : pc'[q] = IF q = p THEN "resume" ELSE pc[q]
      /\ \A c \in Consumers :
            /\ Waiting(c)' <=> Waiting(c)
            /\ pc'[c] = "suspended" => ready'[c]
            /\ pc'[c] = "running" => ~ready'[c]
  BY <1>2, WaitingKept
<1>4. HandsAlone(p) /\ toResume'[p] = awaiters
  BY <1>1, <1>2 DEF HandsAlone, Set, WaitTypes
<1>5. taken[p] = <<>> /\ requeue[p] = <<>> /\ toResume[p] = <<>>
  BY <1>1, <1>2 DEF WaitHands, ResumerPCs
<1>6. \A c : /\ ~In(c, awaiters)' /\ ~Keeps(p, c) /\ ~Took(p, c)' /\ ~PutsBack(p, c)'
             /\ WillResume(p, c)' <=> In(c, awaiters)
  BY <1>1, <1>4, <1>5, EmptyHolds DEF Took, PutsBack, WillResume, Keeps
<1>7. WaitTypes'
  BY <1>1, <1>4, EmptyHolds DEF WaitTypes, Set
<1>8. WaitHands'
  BY <1>1, <1>2, <1>4, <1>5, HandsKept DEF WaitHands, ResumerPCs
<1>9. WaitApart'
  BY <1>2, <1>4, <1>6, ApartKept DEF WaitApart, Keeps
<1>10. WaitHeld'
  <2>1. \A c \in Consumers : Listed(c)' <=> Listed(c)
    BY <1>2, <1>4, <1>6, ListedKept DEF Keeps
  <2> QED BY <1>3, <2>1 DEF WaitHeld
<1>11. TargetInv'
  BY <1>1, <1>3 DEF TargetInv
<1>12. ScanInv'
  <2>1. \A q \in Threads : pc'[q] = "scan" => pc[q] = "scan"
    BY <1>3
  <2>2. \A q \in Threads : \A c : Took(q, c)' <=> Took(q, c)
    BY <1>1 DEF Took
  <2> QED BY <1>1, <2>1, <2>2 DEF ScanInv
<1>13. PutBackInv'
  <2>1. \A q \in Threads, c \in Consumers :
           (PutsBack(q, c)' <=> PutsBack(q, c)) /\ (Looks(q, c)' <=> Looks(q, c))
    BY <1>1 DEF PutsBack, Looks
  <2> QED BY <1>1, <1>3, <2>1 DEF PutBackInv
<1>14. FoundInv'
  BY <1>6 DEF FoundInv
<1> QED BY <1>7, <1>8, <1>9, <1>10, <1>11, <1>12, <1>13, <1>14

-----------------------------------------------------------------------------
\* The steps at the ends of a wait.

LEMMA ResumeWaits ==
    ASSUME MultiInv, MultiInv', WaitInv, NEW p \in Threads, NEW c \in Consumers, Resume(p, c)
    PROVE  WaitInv'
<1> USE DEF WaitInv, ListInv, LookInv
<1>1. /\ pc[p] = "resume" /\ toResume[p] # <<>> /\ c = Head(toResume[p])
      /\ toResume' = Set(toResume, p, Tail(toResume[p]))
      /\ lastKnown' = Set(lastKnown, c, known[p]) /\ ready' = Set(ready, c, TRUE)
      /\ pc' = IF ready[c] THEN [pc EXCEPT ![c] = "reading"] ELSE pc
      /\ UNCHANGED <<published, awaiters, consumed, target, known, until, taken, requeue>>
  BY DEF Resume, Goto
<1>2. /\ Tail(toResume[p]) \in Seq(Consumers) /\ Distinct(Tail(toResume[p]))
      /\ WillResume(p, c)
      /\ \A d : In(d, Tail(toResume[p])) <=> WillResume(p, d) /\ d # c
  BY <1>1, TailHolds DEF WaitTypes, WillResume
<1>3. Waiting(c) /\ c \in Threads /\ (ready[c] => pc[c] = "suspended" /\ c # p)
  BY <1>1, <1>2, KnownTypes DEF WaitHeld, Listed, Keeps, Waiting
<1>4. /\ \A q \in Threads : pc'[q] = IF q = c /\ ready[c] THEN "reading" ELSE pc[q]
      /\ \A d \in Consumers : ready'[d] = IF d = c THEN TRUE ELSE ready[d]
  BY <1>1, <1>3, KnownTypes DEF WaitTypes, Set
<1>5. \A d \in Consumers :
         /\ Waiting(d)' <=> Waiting(d) /\ d # c
         /\ pc'[d] = "suspended" => ready'[d]
         /\ pc'[d] = "running" => ~ready'[d]
  BY <1>1, <1>3, <1>4, KnownTypes DEF Waiting, WaitHeld, CallPCs
<1>6. HandsAlone(p) /\ toResume'[p] = Tail(toResume[p])
  BY <1>1 DEF HandsAlone, Set, WaitTypes
<1>7. \A d : /\ In(d, awaiters)' <=> In(d, awaiters)
             /\ WillResume(p, d)' <=> WillResume(p, d) /\ d # c
             /\ \A q : (Took(q, d)' <=> Took(q, d)) /\ (PutsBack(q, d)' <=> PutsBack(q, d))
  BY <1>1, <1>2, <1>6 DEF Took, PutsBack, WillResume
<1>8. WaitTypes'
  BY <1>1, <1>2, <1>6 DEF WaitTypes, Set
<1>9. WaitHands'
  <2>1. (\A q \in Producers : pc[q] \in ProducerPCs)' /\ (\A d \in Consumers : pc[d] \in ConsumerPCs)'
    BY <1>4, KnownTypes DEF WaitHands, ConsumerPCs
  <2>2. ASSUME NEW q \in Threads
        PROVE  /\ taken'[q] # <<>> => pc'[q] = "scan"
               /\ requeue'[q] # <<>> => pc'[q] \in {"putBack", "enqueue"}
               /\ toResume'[q] # <<>> => pc'[q] \in ResumerPCs
    <3>1. CASE q = p
      BY <1>1, <1>3, <1>4, <3>1 DEF WaitHands, ResumerPCs
    <3>2. CASE q # p
      <4>1. toResume'[q] = toResume[q] /\ taken'[q] = taken[q] /\ requeue'[q] = requeue[q]
        BY <1>6, <3>2 DEF HandsAlone
      <4> QED BY <1>3, <1>4, <4>1 DEF WaitHands, ResumerPCs
    <3> QED BY <3>1, <3>2
  <2> QED BY <2>1, <2>2 DEF WaitHands
<1>10. WaitApart'
  BY <1>6, <1>7, ApartKept DEF WaitApart, Keeps
<1>11. WaitHeld'
  <2>1. ASSUME NEW d \in Consumers PROVE Listed(d)' <=> Listed(d) /\ d # c
    <3>1. CASE d = c
      <4>1. /\ ~In(c, awaiters) /\ \A q \in Threads \ {p} : ~Keeps(q, c)
            /\ ~Took(p, c) /\ ~PutsBack(p, c)
        BY <1>2 DEF WaitApart, Keeps
      <4>2. \A q \in Threads \ {p} : ~Keeps(q, c)'
        BY <1>6, <4>1 DEF HandsAlone, Keeps, Took, PutsBack, WillResume
      <4> QED BY <1>7, <3>1, <4>1, <4>2 DEF Listed, Keeps
    <3>2. CASE d # c
      BY <1>6, <1>7, <3>2, ListedKept DEF Keeps
    <3> QED BY <3>1, <3>2
  <2> QED BY <1>5, <2>1 DEF WaitHeld
<1>12. TargetInv'
  <2>1. \A d \in Consumers : d # c => lastKnown'[d] = lastKnown[d]
    BY <1>1, KnownTypes DEF Set
  <2> QED BY <1>1, <1>5, <2>1 DEF TargetInv
<1>13. ScanInv'
  <2>1. \A q \in Threads : pc'[q] = "scan" => pc[q] = "scan"
    BY <1>4
  <2> QED BY <1>1, <1>7, <2>1 DEF ScanInv
<1>14. \A q, d : Looks(q, d)' <=> Looks(q, d)
  BY <1>1 DEF Looks
<1>15. PutBackInv'
  <2>1. \A q \in Threads, d \in Consumers : PutsBack(q, d)' => Looks(q, d)'
    BY <1>7, <1>14 DEF PutBackInv
  <2>2. \A q \in Threads : pc'[q] = pc[q] \/ pc'[q] = "reading"
    BY <1>4
  <2> QED BY <1>1, <2>1, <2>2 DEF PutBackInv
<1>16. FoundInv'
  <2>1. \A d : Arrived(d)' <=> Arrived(d)
    BY <1>1 DEF Arrived, IsPublished
  <2>2. \A q \in Threads, d \in Consumers : Finds(q, d) => Finds(q, d)'
    BY <1>3, <1>4, <1>14 DEF Finds
  <2> QED BY <1>7, <2>1, <2>2 DEF FoundInv
<1> QED BY <1>8, <1>9, <1>10, <1>11, <1>12, <1>13, <1>15, <1>16

LEMMA SuspendWaits ==
    ASSUME MultiInv, MultiInv', WaitInv, NEW c \in Consumers, Suspend(c) PROVE WaitInv'
<1> USE DEF WaitInv, ListInv, LookInv
<1>1. /\ pc[c] = "resume" /\ toResume[c] = <<>>
      /\ ready' = Set(ready, c, TRUE)
      /\ pc' = [pc EXCEPT ![c] = IF ready[c] THEN "reading" ELSE "suspended"]
      /\ LocalsGone(c)
      /\ UNCHANGED <<published, awaiters, consumed, target, lastKnown, taken, requeue, toResume>>
  BY DEF Suspend, Goto, lists
<1>2. c \in Threads
  BY KnownTypes
<1>3. /\ \A q \in Threads : pc'[q] = IF q = c THEN IF ready[c] THEN "reading" ELSE "suspended"
                                              ELSE pc[q]
      /\ \A d \in Consumers : ready'[d] = IF d = c THEN TRUE ELSE ready[d]
      /\ OwnLocals(c)
  BY <1>1, <1>2, KnownTypes DEF WaitTypes, Set, LocalsGone, OwnLocals
<1>4. \A d \in Consumers :
         /\ Waiting(d)' <=> Waiting(d)
         /\ pc'[d] = "suspended" => ready'[d]
         /\ pc'[d] = "running" => ~ready'[d]
  BY <1>1, <1>3, KnownTypes DEF Waiting, WaitHeld, CallPCs
<1>5. /\ taken[c] = <<>> /\ requeue[c] = <<>>
      /\ \A d : ~PutsBack(c, d)
  BY <1>1, <1>2, EmptyHolds DEF WaitHands, PutsBack
<1>6. \A d : /\ Listed(d)' <=> Listed(d)
             /\ In(d, awaiters)' <=> In(d, awaiters)
             /\ \A q : /\ Took(q, d)' <=> Took(q, d)
                       /\ PutsBack(q, d)' <=> PutsBack(q, d)
                       /\ WillResume(q, d)' <=> WillResume(q, d)
                       /\ Keeps(q, d)' <=> Keeps(q, d)
  BY <1>1 DEF Listed, Keeps, Took, PutsBack, WillResume
<1>7. WaitTypes'
  <2>1. until' \in [Threads -> Sequence]
    BY <1>1, FirstIsZero DEF LocalsGone, Set, WaitTypes
  <2> QED BY <1>1, <2>1 DEF WaitTypes, Set
<1>8. WaitHands'
  BY <1>1, <1>3, <1>5, KnownTypes DEF WaitHands, ConsumerPCs
<1>9. WaitApart'
  BY <1>6 DEF WaitApart
<1>10. WaitHeld'
  BY <1>4, <1>6 DEF WaitHeld
<1>11. TargetInv'
  BY <1>1, <1>4 DEF TargetInv
<1>12. ScanInv'
  BY <1>1, <1>3, <1>6 DEF ScanInv, OwnLocals
<1>13. PutBackInv'
  <2>1. ASSUME NEW q \in Threads, NEW d \in Consumers, PutsBack(q, d)' PROVE Looks(q, d)'
    <3>1. q # c /\ PutsBack(q, d)
      BY <1>5, <1>6, <2>1
    <3> QED BY <1>1, <1>3, <3>1 DEF PutBackInv, Looks, OwnLocals
  <2> QED BY <1>3, <2>1 DEF PutBackInv, OwnLocals
<1>14. FoundInv'
  <2>1. \A d : Arrived(d)' <=> Arrived(d)
    BY <1>1 DEF Arrived, IsPublished
  <2>2. \A d \in Consumers : ~Finds(c, d)
    BY <1>1 DEF Finds
  <2> QED BY <1>1, <1>2, <1>3, <1>6, <2>1, <2>2, FoundKept
<1> QED BY <1>7, <1>8, <1>9, <1>10, <1>11, <1>12, <1>13, <1>14

LEMMA BeginWaits ==
    ASSUME MultiInv, MultiInv', WaitInv, NEW c \in Consumers, NEW n \in 1..Size,
           WaitUntilPublished(c, n)
    PROVE  WaitInv'
<1> USE DEF WaitInv, ListInv, LookInv
<1>1. PICK t : t = Plus(consumed[c], n)
  OBVIOUS
<1>2. /\ pc[c] = "running" /\ pc' = [pc EXCEPT ![c] = "enqueue"]
      /\ target' = Set(target, c, t) /\ until' = Set(until, c, t)
      /\ lastKnown' = Set(lastKnown, c, consumed[c]) /\ known' = Set(known, c, consumed[c])
      /\ requeue' = Set(requeue, c, <<c>>)
      /\ UNCHANGED <<published, awaiters, consumed, ready, taken, toResume>>
  BY <1>1 DEF WaitUntilPublished, Goto
<1>3. c \in Threads /\ consumed[c] \in Sequence /\ Un(consumed[c]) \in 0..MaxClaims
  BY ConsumerNumbers, KnownTypes
<1>4. t \in Sequence /\ Un(t) = Un(consumed[c]) + n
  <2>1. 2 * (Un(consumed[c]) + n) < W /\ -2 * (Un(consumed[c]) + n) <= W
    BY <1>3, WidthFits
  <2> QED BY <1>1, <1>3, <2>1, UnPlus
<1>5. /\ target'[c] = t /\ until'[c] = t /\ lastKnown'[c] = consumed[c]
      /\ known'[c] = consumed[c] /\ requeue'[c] = <<c>>
      /\ \A d \in Consumers \ {c} : target'[d] = target[d] /\ lastKnown'[d] = lastKnown[d]
      /\ HandsAlone(c) /\ OwnLocals(c)
      /\ \A q \in Threads : pc'[q] = IF q = c THEN "enqueue" ELSE pc[q]
  BY <1>2, <1>3, KnownTypes DEF WaitTypes, Set, HandsAlone, OwnLocals
<1>6. ~Waiting(c) /\ ~Listed(c) /\ ~ready[c]
  BY <1>2 DEF Waiting, WaitHeld, CallPCs
<1>7. \A d \in Consumers :
         /\ Waiting(d)' <=> Waiting(d) \/ d = c
         /\ pc'[d] = "suspended" => ready'[d]
         /\ pc'[d] = "running" => ~ready'[d]
  BY <1>2, <1>5, <1>6, KnownTypes DEF Waiting, WaitHeld, CallPCs
<1>8. taken[c] = <<>> /\ requeue[c] = <<>> /\ toResume[c] = <<>>
  BY <1>2, <1>3 DEF WaitHands, ResumerPCs
<1>9. <<c>> \in Seq(Consumers) /\ Distinct(<<c>>) /\ \A d : In(d, <<c>>) <=> d = c
  BY SingleHolds
<1>10. \A d : /\ In(d, awaiters)' <=> In(d, awaiters)
              /\ ~Keeps(c, d) /\ ~Took(c, d)' /\ ~WillResume(c, d)'
              /\ PutsBack(c, d)' <=> d = c
              /\ \A q : Took(q, d)' <=> Took(q, d)
  BY <1>2, <1>5, <1>8, <1>9, EmptyHolds DEF Keeps, Took, PutsBack, WillResume
<1>11. WaitTypes'
  BY <1>2, <1>4, <1>5, <1>9 DEF WaitTypes, Set
<1>12. WaitHands'
  BY <1>2, <1>5, <1>8, KnownTypes DEF WaitHands, HandsAlone, ConsumerPCs, CallPCs
<1>13. WaitApart'
  <2>1. ~In(c, awaiters)
    BY <1>6 DEF Listed
  <2> QED BY <1>3, <1>5, <1>6, <1>10, <2>1, ApartKept DEF Keeps
<1>14. WaitHeld'
  <2>1. ASSUME NEW d \in Consumers PROVE Listed(d)' <=> Listed(d) \/ d = c
    <3>1. CASE d = c
      BY <1>3, <1>10, <3>1 DEF Listed, Keeps
    <3>2. CASE d # c
      BY <1>3, <1>5, <1>10, <3>2, ListedKept DEF Keeps
    <3> QED BY <3>1, <3>2
  <2> QED BY <1>7, <2>1 DEF WaitHeld
<1>15. TargetInv'
  <2>1. ASSUME NEW d \in Consumers, Waiting(d)'
        PROVE  /\ Un(consumed'[d]) < Un(target'[d])
               /\ Un(target'[d]) <= Un(consumed'[d]) + Size
               /\ Un(consumed'[d]) <= Un(lastKnown'[d])
    <3>1. CASE d = c
      <4>1. PICK k \in Int : k = Un(consumed[c])
        BY <1>3
      <4> QED BY <1>2, <1>4, <1>5, <3>1, <4>1, WidthFits
    <3>2. CASE d # c
      BY <1>2, <1>5, <1>7, <2>1, <3>2 DEF TargetInv
    <3> QED BY <3>1, <3>2
  <2> QED BY <2>1 DEF TargetInv
<1>16. ScanInv'
  <2>1. \A q \in Threads : pc'[q] = "scan" => pc[q] = "scan" /\ known'[q] = known[q]
    BY <1>5 DEF OwnLocals
  <2> QED BY <1>2, <1>10, <2>1 DEF ScanInv
<1>17. \A q \in Threads \ {c}, d \in Consumers \ {c} : Looks(q, d)' <=> Looks(q, d)
  BY <1>2, <1>5 DEF Looks, OwnLocals
<1>18. PutBackInv'
  <2>1. ASSUME NEW q \in Threads, NEW d \in Consumers, PutsBack(q, d)' PROVE Looks(q, d)'
    <3>1. CASE q = c
      <4>1. d = c
        BY <1>10, <2>1, <3>1
      <4> QED BY <1>2, <1>3, <1>4, <1>5, <3>1, <4>1, NthUn DEF Looks
    <3>2. CASE q # c
      <4>1. PutsBack(q, d)
        BY <1>5, <2>1, <3>2 DEF HandsAlone, PutsBack
      <4>2. d # c
        BY <1>6, <4>1 DEF Listed, Keeps
      <4> QED BY <1>17, <3>2, <4>1, <4>2 DEF PutBackInv
    <3> QED BY <3>1, <3>2
  <2>2. ASSUME NEW q \in Threads
        PROVE  /\ pc'[q] \in {"putBack", "recheck"} => Un(known'[q]) < Un(until'[q])
               /\ pc'[q] \in {"enqueue", "check"} => 0 <= Un(until'[q])
    <3>1. CASE q = c
      <4>1. 0 <= Un(t)
        BY <1>3, <1>4
      <4> QED BY <1>5, <3>1, <4>1
    <3>2. CASE q # c
      BY <1>5, <3>2 DEF PutBackInv, OwnLocals
    <3> QED BY <3>1, <3>2
  <2> QED BY <2>1, <2>2 DEF PutBackInv
<1>19. FoundInv'
  <2>1. SUFFICES ASSUME NEW d \in Consumers, In(d, awaiters)', Arrived(d)'
                 PROVE  \E q \in Threads : Finds(q, d)'
    BY DEF FoundInv
  <2>2. In(d, awaiters) /\ d # c
    BY <1>6, <1>10, <2>1 DEF Listed
  <2>3. Arrived(d)
    BY <1>2, <1>5, <2>1, <2>2 DEF Arrived, IsPublished
  <2>4. PICK q \in Threads : Finds(q, d)
    BY <2>2, <2>3 DEF FoundInv
  <2>5. q # c
    BY <1>2, <2>4 DEF Finds
  <2>6. Finds(q, d)'
    BY <1>5, <1>17, <2>2, <2>4, <2>5 DEF Finds
  <2> QED BY <2>6
<1> QED BY <1>11, <1>12, <1>13, <1>14, <1>15, <1>16, <1>18, <1>19

LEMMA ConsumeWaits ==
    ASSUME MultiInv, MultiInv', WaitInv, NEW c \in Consumers, Consume(c) PROVE WaitInv'
<1> USE DEF WaitInv, ListInv, LookInv
<1>1. /\ pc[c] = "reading" /\ pc' = [pc EXCEPT ![c] = "running"]
      /\ target' = Set(target, c, InitSeq) /\ ready' = Set(ready, c, FALSE)
      /\ \A d \in Consumers \ {c} : /\ consumed'[d] = consumed[d]
                                    /\ lastKnown'[d] = lastKnown[d]
                                    /\ target'[d] = target[d]
      /\ UNCHANGED <<published, awaiters, known, until, taken, requeue, toResume>>
  BY KnownTypes DEF Consume, Goto, Set, lists, WaitTypes
<1>2. /\ \A q \in Threads : pc'[q] = IF q = c THEN "running" ELSE pc[q]
      /\ \A d \in Consumers : ready'[d] = IF d = c THEN FALSE ELSE ready[d]
      /\ c \in Threads
  BY <1>1, KnownTypes DEF WaitTypes, Set
<1>3. ~Waiting(c) /\ ~Listed(c)
  BY <1>1 DEF Waiting, WaitHeld, CallPCs
<1>4. \A d \in Consumers :
         /\ Waiting(d)' <=> Waiting(d)
         /\ pc'[d] = "suspended" => ready'[d]
         /\ pc'[d] = "running" => ~ready'[d]
  BY <1>1, <1>2, <1>3, KnownTypes DEF Waiting, WaitHeld, CallPCs
<1>5. \A d : /\ Listed(d)' <=> Listed(d)
             /\ In(d, awaiters)' <=> In(d, awaiters)
             /\ \A q : /\ Took(q, d)' <=> Took(q, d)
                       /\ PutsBack(q, d)' <=> PutsBack(q, d)
                       /\ WillResume(q, d)' <=> WillResume(q, d)
                       /\ Keeps(q, d)' <=> Keeps(q, d)
  BY <1>1 DEF Listed, Keeps, Took, PutsBack, WillResume
<1>6. \A q \in Threads : ~Keeps(q, c)
  BY <1>3 DEF Listed
<1>7. WaitTypes'
  BY <1>1, FirstIsZero DEF WaitTypes, Set
<1>8. WaitHands'
  BY <1>1, <1>2, KnownTypes DEF WaitHands, ConsumerPCs, ResumerPCs
<1>9. WaitApart'
  BY <1>5 DEF WaitApart
<1>10. WaitHeld'
  BY <1>4, <1>5 DEF WaitHeld
<1>11. TargetInv'
  BY <1>1, <1>3, <1>4 DEF TargetInv
<1>12. ScanInv'
  <2>1. SUFFICES ASSUME NEW q \in Threads, pc'[q] = "scan"
                 PROVE  \E d \in Consumers : Took(q, d)' /\ Un(consumed'[d]) <= Un(known'[q])
    BY DEF ScanInv
  <2>2. PICK d \in Consumers : Took(q, d) /\ Un(consumed[d]) <= Un(known[q])
    BY <1>2, <2>1 DEF ScanInv
  <2>3. d # c
    BY <1>6, <2>2 DEF Keeps
  <2> QED BY <1>1, <1>5, <2>2, <2>3
<1>13. \A q, d : d \in Consumers \ {c} => (Looks(q, d)' <=> Looks(q, d))
  BY <1>1 DEF Looks
<1>14. PutBackInv'
  <2>1. ASSUME NEW q \in Threads, NEW d \in Consumers, PutsBack(q, d)' PROVE Looks(q, d)'
    BY <1>5, <1>6, <1>13, <2>1 DEF PutBackInv, Keeps
  <2> QED BY <1>1, <1>2, <2>1 DEF PutBackInv
<1>15. FoundInv'
  <2>1. SUFFICES ASSUME NEW d \in Consumers, In(d, awaiters)', Arrived(d)'
                 PROVE  \E q \in Threads : Finds(q, d)'
    BY DEF FoundInv
  <2>2. In(d, awaiters) /\ d # c
    BY <1>3, <1>5, <2>1 DEF Listed
  <2>3. Arrived(d)
    BY <1>1, <2>1, <2>2 DEF Arrived, IsPublished
  <2>4. PICK q \in Threads : Finds(q, d)
    BY <2>2, <2>3 DEF FoundInv
  <2>5. Finds(q, d)'
    BY <1>1, <1>2, <1>13, <2>2, <2>4 DEF Finds
  <2> QED BY <2>5
<1> QED BY <1>7, <1>8, <1>9, <1>10, <1>11, <1>12, <1>14, <1>15

-----------------------------------------------------------------------------

LEMMA InitWaitInv == Init => WaitInv
<1> SUFFICES ASSUME Init PROVE WaitInv
  OBVIOUS
<1>1. \A p \in Threads : taken[p] = <<>> /\ requeue[p] = <<>> /\ toResume[p] = <<>> /\ pc[p] = "running"
  BY DEF Init
<1>2. \A p \in Threads : \A c : ~Took(p, c) /\ ~PutsBack(p, c) /\ ~WillResume(p, c)
  BY <1>1, EmptyHolds DEF Took, PutsBack, WillResume
<1>3. awaiters = <<>> /\ \A c : ~In(c, awaiters)
  BY EmptyHolds DEF Init
<1>4. WaitTypes
  BY EmptyHolds, FirstIsZero DEF Init, WaitTypes
<1>5. WaitHands
  BY <1>1 DEF WaitHands, ProducerPCs, ConsumerPCs, Threads
<1>6. \A c \in Consumers : ~Waiting(c) /\ ~Listed(c) /\ ~ready[c] /\ pc[c] = "running"
  BY <1>1, <1>2, <1>3 DEF Waiting, Listed, Keeps, CallPCs, Init, Threads
<1>7. WaitApart /\ WaitHeld /\ TargetInv /\ ScanInv /\ PutBackInv /\ FoundInv
  BY <1>1, <1>2, <1>3, <1>6 DEF WaitApart, WaitHeld, TargetInv, ScanInv, PutBackInv, FoundInv, Keeps
<1> QED BY <1>4, <1>5, <1>7 DEF WaitInv, ListInv, LookInv

LEMMA StepWaitInv == MultiInv /\ WaitInv /\ [Next]_vars => WaitInv'
<1> SUFFICES ASSUME MultiInv, WaitInv, [Next]_vars PROVE WaitInv'
  OBVIOUS
<1>0. MultiInv'
  BY StepMultiInv
<1>1. CASE UNCHANGED vars
  BY <1>1 DEF vars, WaitInv, ListInv, LookInv, WaitTypes, WaitHands, WaitApart, WaitHeld,
              TargetInv, ScanInv, PutBackInv, FoundInv, Waiting, Listed, Keeps, Took,
              PutsBack, WillResume, Looks, Finds, Arrived, IsPublished
<1>2. CASE Next
  <2>1. ASSUME NEW p \in Threads,
               \/ LoadAwaiters(p) \/ TakeAwaiters(p) \/ Advance(p) \/ Divide(p)
               \/ PutBack(p) \/ Enqueue(p) \/ Recheck(p)
               \/ \E c \in Consumers : Resume(p, c)
        PROVE  WaitInv'
    BY <1>0, <2>1, LoadWaits, TakeWaits, AdvanceWaits, DivideWaits, JoinWaits, RecheckWaits, ResumeWaits
  <2>2. ASSUME NEW p \in Producers, Publisher(p) PROVE WaitInv'
    <3>1. p \in Threads
      BY DEF Threads
    <3>2. CASE PublishFirst(p)
      BY <1>0, <3>2, StoresWaits DEF Stores
    <3>3. CASE PublishReturn(p)
      BY <1>0, <3>3, IdlesWaits DEF Idles
    <3> QED BY <2>1, <2>2, <3>1, <3>2, <3>3 DEF Publisher
  <2>3. ASSUME NEW c \in Consumers, Waiter(c) PROVE WaitInv'
    <3>1. c \in Threads
      BY DEF Threads
    <3>2. CASE Check(c) \/ Grab(c) \/ Suspend(c)
      BY <1>0, <3>2, CheckWaits, GrabWaits, SuspendWaits
    <3> QED BY <2>1, <2>3, <3>1, <3>2 DEF Waiter
  <2>4. ASSUME NEW p \in Producers,
               \/ ClaimOne(p) \/ Claimed(p)
               \/ \E n \in 2..Size + 1 : ClaimUpTo(p, n)
        PROVE  WaitInv'
    BY <1>0, <2>4, IdlesWaits DEF Idles, ClaimOne, ClaimUpTo
  <2>5. ASSUME NEW p \in Producers, NEW s \in held[p], PublishOne(p, s) \/ PublishRest(p, s)
        PROVE  WaitInv'
    BY <1>0, <2>5, StoresWaits DEF Stores
  <2> QED BY <1>0, <1>2, <2>2, <2>3, <2>4, <2>5, BeginWaits, ConsumeWaits DEF Next
<1> QED BY <1>1, <1>2

\* All that a consumer waits for, as the code counts it.
LEMMA AllArrived ==
    ASSUME MultiInv, WaitTypes, TargetInv, NEW c \in Consumers, Waiting(c), AllPublished(c)
    PROVE  Arrived(c)
<1>1. PICK x \in Int, y \in Int :
          /\ x = Un(consumed[c]) /\ y = Un(target[c]) /\ consumed[c] \in Sequence
          /\ 0 <= x /\ x <= MaxClaims /\ x < y /\ y <= x + Size
  BY ConsumerNumbers DEF TargetInv
<1>2. Difference(target[c], consumed[c]) = y - x
  BY <1>1, ConsumerNumbers, TargetRange
<1>3. PICK f \in Sequence : f = Plus(consumed[c], 1) /\ Un(f) = x + 1
  <2>1. 2 * (x + 1) < W /\ -2 * (x + 1) <= W
    BY <1>1, WidthFits
  <2> QED BY <1>1, <2>1, UnPlus
<1>4. SUFFICES ASSUME NEW s \in Sequence, x < Un(s), Un(s) <= y PROVE IsPublished(s)
  BY <1>1 DEF Arrived
<1>5. PICK i \in 0..(y - x) - 1 : Un(s) = x + 1 + i
  <2>1. Un(s) \in Int
    BY NthUn
  <2>2. Un(s) - x - 1 \in 0..(y - x) - 1
    BY <1>1, <1>4, <2>1
  <2> QED BY <1>1, <2>1, <2>2
<1>6. Plus(f, i) \in Sequence /\ Un(Plus(f, i)) = x + 1 + i
  <2>1. 2 * (Un(f) + i) < W /\ -2 * (Un(f) + i) <= W
    BY <1>1, <1>3, WidthFits
  <2> QED BY <1>3, <2>1, UnPlus
<1>7. s = Plus(f, i)
  BY <1>5, <1>6, UnDistinct
<1>8. s \in Numbers(f, y - x)
  BY <1>7 DEF Numbers
<1> QED BY <1>2, <1>3, <1>8 DEF AllPublished

LEMMA InvNobodyLeft == MultiInv /\ WaitInv => NobodyLeftBehind
<1> USE DEF WaitInv, ListInv, LookInv
<1> SUFFICES ASSUME MultiInv, WaitInv, \A p \in Threads : ~InCall(p),
                    NEW c \in Consumers, pc[c] = "suspended"
             PROVE  /\ ~AllPublished(c)
                    /\ \E i \in DOMAIN awaiters :
                           \A j \in DOMAIN awaiters : awaiters[j] = c <=> j = i
  BY DEF NobodyLeftBehind
<1>1. \A p \in Threads : pc[p] \in {"running", "claiming", "suspended", "reading"}
  BY DEF InCall
<1>2. \A p \in Threads : taken[p] = <<>> /\ requeue[p] = <<>> /\ toResume[p] = <<>>
  BY <1>1 DEF WaitHands, ResumerPCs
<1>3. \A p \in Threads : ~Keeps(p, c)
  BY <1>2, EmptyHolds DEF Keeps, Took, PutsBack, WillResume
<1>4. Waiting(c) /\ In(c, awaiters)
  BY <1>3 DEF WaitHeld, Waiting, Listed
<1>5. \A p \in Threads : ~Finds(p, c)
  BY <1>1 DEF Finds
<1>6. ~AllPublished(c)
  BY <1>4, <1>5, AllArrived DEF FoundInv
<1>7. \E i \in DOMAIN awaiters : \A j \in DOMAIN awaiters : awaiters[j] = c <=> j = i
  <2>1. DOMAIN awaiters = 1..Len(awaiters) /\ Distinct(awaiters)
    BY DEF WaitTypes
  <2>2. PICK i \in 1..Len(awaiters) : awaiters[i] = c
    BY <1>4 DEF In
  <2> QED BY <2>1, <2>2 DEF Distinct
<1> QED BY <1>6, <1>7

\* For any number of producers and consumers no race between the last number
\* that is stored and the awaiters that are put (back) into the list leaves one
\* asleep: when no call is under way, whoever sleeps is in the list, once, and
\* waits for a number that is not published.
THEOREM WaitSafety == Spec => []NobodyLeftBehind
<1>1. Init => MultiInv /\ WaitInv
  BY InitMultiInv, InitWaitInv
<1>2. MultiInv /\ WaitInv /\ [Next]_vars => (MultiInv /\ WaitInv)'
  BY StepMultiInv, StepWaitInv
<1>3. MultiInv /\ WaitInv => NobodyLeftBehind
  BY InvNobodyLeft
<1> QED BY <1>1, <1>2, <1>3, PTL DEF Spec

=============================================================================
