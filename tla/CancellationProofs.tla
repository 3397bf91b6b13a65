------------------------- MODULE CancellationProofs -------------------------
(***************************************************************************)
(* Proofs about Cancellation, for any finite sets of threads, any number   *)
(* of lists, any sizes of chunks and any number of registrations.          *)
(***************************************************************************)
EXTENDS Cancellation, FiniteSetTheorems, SequenceTheorems, TLAPS

Slot == Registrants \cup {None}
Place == Lists \X (Nat \ {0}) \X (Nat \ {0})

\* s is a slot of a chunk that exists.
Valid(s) ==
    /\ s \in Place
    /\ s[2] <= Len(entries[s[1]])
    /\ s[3] <= Len(entries[s[1]][s[2]])

RegistrantPCs ==
    {"idle", "canCancel", "check", "allocate", "list", "tail", "chunk", "slot",
     "append", "recheck", "unslot", "registered", "wait", "selfCall", "release"}

Walking == {"state", "lists", "entry", "callback", "nextChunk", "finish"}
CancellerPCs == Walking \cup {"source", "returned", "gone"}

\* The constructor of r is on its way to a slot.
Adding(r) == pc[r] \in {"list", "tail", "chunk", "slot", "append"}
Unlisted(r) == Adding(r) \/ pc[r] \in {"canCancel", "check", "allocate", "selfCall"}

ShapeInv ==
    /\ entries \in [Lists -> Seq(Seq(Slot))]
    /\ \A l \in Lists : \A c \in 1..Len(entries[l]) : Len(entries[l][c]) > 0
    /\ free \in [Lists -> Seq(Int)]
    /\ \A l \in Lists : Len(free[l]) = Len(entries[l])

Search == [last : Nat, chunk : Nat, i : Nat, count : Int]

\* Where a constructor searches there are chunks; where a registration is
\* listed there is a slot.
Located(r) ==
    /\ pc[r] = "tail" => entries[ListOf(r)] # <<>>
    /\ pc[r] \in {"chunk", "slot", "append"} =>
          /\ look[r] \in Search
          /\ 0 < look[r].last /\ look[r].last <= Len(entries[ListOf(r)])
          /\ pc[r] # "append" => 0 < look[r].chunk /\ look[r].chunk <= look[r].last
    /\ Adding(r) \/ Listed(r) => allocated
    /\ Listed(r) => Valid(place[r])

PlaceInv ==
    /\ pc \in [Threads -> RegistrantPCs \cup CancellerPCs]
    /\ place \in [Registrants -> Place \cup {<<>>}]
    /\ look \in [Registrants -> Search \cup {<<>>}]
    /\ \A r \in Registrants : pc[r] \in RegistrantPCs /\ Located(r)

SlotInv ==
    \A s \in Place : Valid(s) /\ At(s) # None => Listed(At(s)) /\ place[At(s)] = s

\* While a registration is in its slot its callback has not been called; who
\* took it out has called it.
Ran(r) ==
    /\ runs[r] = 1 \/ pc[r] \in {"unslot", "selfCall"} => requested
    /\ Unlisted(r) => runs[r] = 0
    /\ Listed(r) => (runs[r] = 0 <=> At(place[r]) = r)
    /\ pc[r] = "wait" => runs[r] = 1

RunInv == runs \in [Registrants -> {0, 1}] /\ \A r \in Registrants : Ran(r)

\* Only one request walks over the slots, and it is where there are slots.
Walked(t) ==
    /\ pc[t] \in CancellerPCs
    /\ pc[t] \in Walking \cup {"returned"} => requested
    /\ pc[t] = "lists" => \E l \in 1..ListCount + 1 : pos[t] = <<l, 1, 1>>
    /\ pc[t] \in {"entry", "callback"} => Valid(pos[t])
    /\ pc[t] = "nextChunk" =>
          /\ pos[t] \in Place
          /\ pos[t][2] <= Len(entries[pos[t][1]])
          /\ pos[t][3] = Len(entries[pos[t][1]][pos[t][2]]) + 1

WalkInv ==
    /\ complete => requested
    /\ pos \in [Cancellers -> Nat \X Nat \X Nat \cup {<<>>}]
    /\ \A t \in Cancellers : Walked(t)
    /\ \A t \in Cancellers : pc[t] \in Walking => ~complete
    /\ \A t, u \in Cancellers : pc[t] \in Walking /\ pc[u] \in Walking => t = u

\* The registration whose callback runs stands and is out of its slot.
CurrentInv ==
    /\ current \in [Cancellers -> Slot]
    /\ \A t \in Cancellers :
          current[t] # None =>
              pc[t] = "callback" /\ Listed(current[t]) /\ runs[current[t]] = 1

Before(p, s) ==
    \/ p[1] < s[1]
    \/ p[1] = s[1] /\ p[2] < s[2]
    \/ p[1] = s[1] /\ p[2] = s[2] /\ p[3] <= s[3]

\* A request that will still come to the slot s.
Ahead(t, s) ==
    \/ pc[t] = "state"
    \/ pc[t] \in {"lists", "entry", "nextChunk"} /\ Before(pos[t], s)
    \/ pc[t] = "callback" /\ Before(pos[t], s) /\ s # pos[t]

MissedInv ==
    \A r \in Registrants :
        requested /\ pc[r] = "registered" /\ runs[r] = 0 =>
            \E t \in Cancellers : Ahead(t, place[r])

ReferenceInv ==
    /\ holds \in [Registrants -> BOOLEAN] /\ deleted \in BOOLEAN
    /\ sources = Cardinality({t \in Cancellers : pc[t] # "gone"})
    /\ tokens = Cardinality({r \in Registrants : holds[r]})
                + Cardinality({r \in Registrants : pc[r] # "idle"})
    /\ deleted <=> sources = 0 /\ tokens = 0

SlotsInv == ShapeInv /\ PlaceInv /\ SlotInv
CallsInv == RunInv /\ WalkInv /\ CurrentInv /\ MissedInv
CancelInv == SlotsInv /\ CallsInv /\ ReferenceInv

-----------------------------------------------------------------------------
\* What can happen to the slots.

SameSizes ==
    \A l \in Lists :
        /\ Len(entries[l]) <= Len(entries'[l])
        /\ \A c \in 1..Len(entries[l]) : Len(entries'[l][c]) = Len(entries[l][c])

\* r is put into the slot s, which was free or comes with a new chunk.
Filled(r, s) ==
    /\ SameSizes
    /\ Valid(s)' /\ At(s)' = r
    /\ Valid(s) => At(s) = None
    /\ \A u \in Place :
          /\ Valid(u) => Valid(u)' /\ (u # s => At(u)' = At(u))
          /\ Valid(u)' /\ ~Valid(u) /\ u # s => At(u)' = None

\* Nobody but r comes into a slot or leaves one.
Only(r) ==
    /\ SameSizes
    /\ \A u \in Place :
          /\ Valid(u) => Valid(u)' /\ \A p \in Registrants \ {r} : At(u)' = p <=> At(u) = p
          /\ Valid(u)' /\ ~Valid(u) => At(u)' \in {None, r}

LEMMA Constants ==
    /\ None \notin Registrants /\ None \notin Cancellers
    /\ Registrants \cap Cancellers = {}
    /\ \A r \in Registrants : ListOf(r) \in Lists
    /\ HeadSize \in Nat \ {0} /\ SizeLimit \in Nat \ {0} /\ ListCount \in Nat \ {0}
BY CancellationAssumption DEF Lists

LEMMA PutSlot ==
    ASSUME ShapeInv, NEW s \in Place, Valid(s), NEW v \in Slot, entries' = Put(s, v)
    PROVE  /\ entries' \in [Lists -> Seq(Seq(Slot))]
           /\ \A l \in Lists :
                 /\ Len(entries'[l]) = Len(entries[l])
                 /\ \A c \in 1..Len(entries[l]) : Len(entries'[l][c]) = Len(entries[l][c])
           /\ \A u \in Place :
                 /\ Valid(u)' <=> Valid(u)
                 /\ Valid(u) => At(u)' = IF u = s THEN v ELSE At(u)
<1>1. PICK a \in Lists, b \in Nat \ {0}, c \in Nat \ {0} : s = <<a, b, c>>
  BY DEF Place
<1>2. /\ entries \in [Lists -> Seq(Seq(Slot))]
      /\ b \in 1..Len(entries[a]) /\ c \in 1..Len(entries[a][b])
      /\ entries[a] \in Seq(Seq(Slot)) /\ entries[a][b] \in Seq(Slot)
  <2>1. entries[a] \in Seq(Seq(Slot)) /\ b <= Len(entries[a]) /\ c <= Len(entries[a][b])
    BY <1>1 DEF ShapeInv, Valid
  <2>2. b \in 1..Len(entries[a])
    BY <2>1
  <2>3. entries[a][b] \in Seq(Slot)
    BY <2>1, <2>2
  <2> QED BY <2>1, <2>2, <2>3 DEF ShapeInv
<1> DEFINE x == [entries[a][b] EXCEPT ![c] = v]
           y == [entries[a] EXCEPT ![b] = x]
<1>3. /\ x \in Seq(Slot) /\ Len(x) = Len(entries[a][b])
      /\ \A i \in 1..Len(entries[a][b]) : x[i] = IF i = c THEN v ELSE entries[a][b][i]
  BY <1>2, ExceptSeq
<1> HIDE DEF x
<1>4. /\ y \in Seq(Seq(Slot)) /\ Len(y) = Len(entries[a])
      /\ \A i \in 1..Len(entries[a]) : y[i] = IF i = b THEN x ELSE entries[a][i]
  BY <1>2, <1>3, ExceptSeq
<1> HIDE DEF y
<1>5. entries' = [entries EXCEPT ![a] = y]
  BY <1>1 DEF Put, x, y
<1>6. entries' \in [Lists -> Seq(Seq(Slot))] /\ entries'[a] = y
      /\ \A l \in Lists \ {a} : entries'[l] = entries[l]
  BY <1>2, <1>4, <1>5
<1>7. ASSUME NEW l \in Lists
      PROVE  /\ Len(entries'[l]) = Len(entries[l])
             /\ \A k \in 1..Len(entries[l]) : Len(entries'[l][k]) = Len(entries[l][k])
  BY <1>3, <1>4, <1>6
<1>8. ASSUME NEW u \in Place
      PROVE  /\ Valid(u)' <=> Valid(u)
             /\ Valid(u) => At(u)' = IF u = s THEN v ELSE At(u)
  <2>1. PICK l \in Lists, k \in Nat \ {0}, i \in Nat \ {0} : u = <<l, k, i>>
    BY DEF Place
  <2>2. Len(entries[l]) \in Nat
    BY <1>2
  <2>3. Valid(u)' <=> Valid(u)
    <3>1. u[1] = l /\ u[2] = k /\ u[3] = i /\ 1 <= k /\ k \in Int
      BY <2>1
    <3>2. Valid(u) <=> k <= Len(entries[l]) /\ i <= Len(entries[l][k])
      BY <3>1 DEF Valid
    <3>3. Valid(u)' <=> k <= Len(entries'[l]) /\ i <= Len(entries'[l][k])
      BY <3>1 DEF Valid
    <3>4. k <= Len(entries[l]) => k \in 1..Len(entries[l])
      BY <2>2, <3>1
    <3>5. Len(entries'[l]) = Len(entries[l])
      BY <1>7
    <3>6. k <= Len(entries[l]) => Len(entries'[l][k]) = Len(entries[l][k])
      BY <1>7, <3>4
    <3> QED BY <3>2, <3>3, <3>5, <3>6
  <2>4. ASSUME Valid(u) PROVE At(u)' = IF u = s THEN v ELSE At(u)
    <3>1. k \in 1..Len(entries[l]) /\ i <= Len(entries[l][k])
      BY <2>1, <2>2, <2>4 DEF Valid
    <3>2. At(u)' = entries'[l][k][i] /\ At(u) = entries[l][k][i]
      BY <2>1 DEF At
    <3>3. CASE l # a \/ k # b
      BY <1>1, <1>4, <1>6, <2>1, <3>1, <3>2, <3>3
    <3>4. CASE l = a /\ k = b
      <4>1. entries'[l][k] = x
        BY <1>2, <1>4, <1>6, <3>4
      <4>2. i \in 1..Len(entries[a][b])
        BY <1>2, <3>1, <3>4
      <4> QED BY <1>1, <1>3, <2>1, <3>2, <3>4, <4>1, <4>2
    <3> QED BY <3>3, <3>4
  <2> QED BY <2>3, <2>4
<1> QED BY <1>6, <1>7, <1>8

LEMMA NewChunk ==
    ASSUME NEW n \in Nat \ {0}, NEW r \in Registrants
    PROVE  /\ Chunk(n, r) \in Seq(Slot) /\ Len(Chunk(n, r)) = n
           /\ Chunk(n, r)[1] = r /\ \A i \in 2..n : Chunk(n, r)[i] = None
BY DEF Chunk, Slot

\* A chunk at the end of a chain brings the slot of r and free ones.
LEMMA AppendSlot ==
    ASSUME ShapeInv, NEW a \in Lists, NEW r \in Registrants, NEW n \in Nat \ {0},
           entries' = [entries EXCEPT ![a] = Append(@, Chunk(n, r))]
    PROVE  /\ entries' \in [Lists -> Seq(Seq(Slot))]
           /\ \A l \in Lists : \A c \in 1..Len(entries'[l]) : Len(entries'[l][c]) > 0
           /\ \A l \in Lists : Len(entries'[l]) = Len(entries[l]) + (IF l = a THEN 1 ELSE 0)
           /\ \E s \in Place : s = <<a, Len(entries[a]) + 1, 1>> /\ Filled(r, s)
<1> DEFINE q == Chunk(n, r)
           y == Append(entries[a], q)
           m == Len(entries[a])
<1>1. /\ q \in Seq(Slot) /\ Len(q) = n /\ q[1] = r /\ \A i \in 2..n : q[i] = None
  BY NewChunk
<1> HIDE DEF q
<1>2. entries \in [Lists -> Seq(Seq(Slot))] /\ entries[a] \in Seq(Seq(Slot)) /\ m \in Nat
  BY DEF ShapeInv
<1>3. /\ y \in Seq(Seq(Slot)) /\ Len(y) = m + 1 /\ y[m + 1] = q
      /\ \A i \in 1..m : y[i] = entries[a][i]
  BY <1>1, <1>2, AppendProperties
<1>4. entries' = [entries EXCEPT ![a] = y]
  BY DEF q
<1> HIDE DEF y
<1>5. entries' \in [Lists -> Seq(Seq(Slot))] /\ entries'[a] = y
      /\ \A l \in Lists \ {a} : entries'[l] = entries[l]
  BY <1>2, <1>3, <1>4
<1>6. \A l \in Lists : Len(entries'[l]) = Len(entries[l]) + (IF l = a THEN 1 ELSE 0)
  <2>1. \A l \in Lists : Len(entries[l]) \in Nat
    BY <1>2
  <2> QED BY <1>3, <1>5, <2>1
<1>7. \A l \in Lists : \A c \in 1..Len(entries[l]) : entries'[l][c] = entries[l][c]
  BY <1>3, <1>5
<1>8. ASSUME NEW l \in Lists, NEW c \in 1..Len(entries'[l]) PROVE Len(entries'[l][c]) > 0
  <2>1. CASE c \in 1..Len(entries[l])
    BY <1>7, <2>1 DEF ShapeInv
  <2>2. CASE c \notin 1..Len(entries[l])
    <3>1. l = a /\ c = m + 1
      BY <1>2, <1>6, <2>2
    <3> QED BY <1>1, <1>3, <1>5, <3>1
  <2> QED BY <2>1, <2>2
<1>9. SameSizes
  <2>1. \A l \in Lists : Len(entries[l]) \in Nat
    BY <1>2
  <2> QED BY <1>6, <1>7, <2>1 DEF SameSizes
<1>14. m + 1 \in Nat \ {0} /\ 1 \in Nat \ {0}
  BY <1>2
<1>15. <<a, m + 1, 1>> \in Place
  BY <1>14 DEF Place
<1>10. PICK s \in Place : s = <<a, m + 1, 1>>
  BY <1>15
<1>11. Valid(s)' /\ ~Valid(s) /\ At(s)' = r
  BY <1>1, <1>2, <1>3, <1>5, <1>10 DEF Valid, At
<1>12. ASSUME NEW u \in Place
       PROVE  /\ Valid(u) => Valid(u)' /\ (u # s => At(u)' = At(u))
              /\ Valid(u)' /\ ~Valid(u) /\ u # s => At(u)' = None
  <2>1. PICK l \in Lists, k \in Nat \ {0}, i \in Nat \ {0} : u = <<l, k, i>>
    BY DEF Place
  <2>2. Len(entries[l]) \in Nat
    BY <1>2
  <2>3. ASSUME Valid(u) PROVE Valid(u)' /\ At(u)' = At(u)
    <3>1. k \in 1..Len(entries[l]) /\ i <= Len(entries[l][k])
      BY <2>1, <2>2, <2>3 DEF Valid
    <3>2. entries'[l][k] = entries[l][k] /\ k <= Len(entries'[l])
      BY <1>6, <1>7, <2>2, <3>1
    <3> QED BY <2>1, <3>1, <3>2 DEF Valid, At
  <2>4. ASSUME Valid(u)', ~Valid(u), u # s PROVE At(u)' = None
    <3>1. k <= Len(entries'[l]) /\ i <= Len(entries'[l][k])
      BY <2>1, <2>4 DEF Valid
    <3>2. k \notin 1..Len(entries[l])
      BY <1>7, <2>1, <2>2, <2>4, <3>1 DEF Valid
    <3>3. l = a /\ k = m + 1
      BY <1>6, <2>2, <3>1, <3>2
    <3>4. entries'[l][k] = q
      BY <1>3, <1>5, <3>3
    <3>5. i \in 2..n
      BY <1>1, <1>10, <2>1, <2>4, <3>1, <3>3, <3>4
    <3> QED BY <1>1, <2>1, <3>4, <3>5 DEF At
  <2> QED BY <2>3, <2>4
<1>13. Filled(r, s)
  BY <1>9, <1>11, <1>12 DEF Filled
<1> QED BY <1>5, <1>6, <1>8, <1>10, <1>13

LEMMA OnlyQuiet ==
    ASSUME ShapeInv, UNCHANGED entries, NEW r
    PROVE  Only(r)
<1>1. \A l \in Lists : Len(entries[l]) \in Nat
  BY DEF ShapeInv
<1>2. \A u \in Place : (Valid(u)' <=> Valid(u)) /\ At(u)' = At(u)
  BY DEF Valid, At
<1> QED BY <1>1, <1>2 DEF Only, SameSizes

LEMMA OnlyFilled ==
    ASSUME NEW r \in Registrants, NEW s \in Place, Filled(r, s)
    PROVE  Only(r)
<1>1. ASSUME NEW u \in Place, Valid(u), NEW p \in Registrants \ {r}
      PROVE  Valid(u)' /\ (At(u)' = p <=> At(u) = p)
  <2>1. CASE u = s
    BY <1>1, <2>1, Constants DEF Filled
  <2>2. CASE u # s
    BY <1>1, <2>2 DEF Filled
  <2> QED BY <2>1, <2>2
<1>2. \A u \in Place : Valid(u) => Valid(u)'
  BY DEF Filled
<1>3. \A u \in Place : Valid(u)' /\ ~Valid(u) => At(u)' \in {None, r}
  BY DEF Filled
<1> QED BY <1>1, <1>2, <1>3 DEF Only, Filled

\* A slot is claimed, or its registration is taken out.
LEMMA PutFilled ==
    ASSUME ShapeInv, NEW s \in Place, Valid(s), NEW r \in Registrants,
           At(s) = None, entries' = Put(s, r)
    PROVE  Filled(r, s)
<1>1. r \in Slot /\ \A l \in Lists : Len(entries[l]) \in Nat
  BY DEF Slot, ShapeInv
<1>2. SameSizes
  <2>1. \A l \in Lists :
           /\ Len(entries'[l]) = Len(entries[l])
           /\ \A c \in 1..Len(entries[l]) : Len(entries'[l][c]) = Len(entries[l][c])
    BY <1>1, PutSlot
  <2>2. \A l \in Lists : Len(entries[l]) <= Len(entries'[l])
    BY <1>1, <2>1
  <2> QED BY <2>1, <2>2 DEF SameSizes
<1> QED BY <1>1, <1>2, PutSlot DEF Filled

LEMMA PutEmptied ==
    ASSUME ShapeInv, NEW s \in Place, Valid(s), NEW r \in Registrants,
           At(s) = r, entries' = Put(s, None)
    PROVE  Only(r) /\ \A u \in Place : Valid(u)' /\ At(u)' = r => u # s /\ Valid(u) /\ At(u) = r
<1>1. None \in Slot /\ \A l \in Lists : Len(entries[l]) \in Nat
  BY DEF Slot, ShapeInv
<1>2. SameSizes
  <2>1. \A l \in Lists :
           /\ Len(entries'[l]) = Len(entries[l])
           /\ \A c \in 1..Len(entries[l]) : Len(entries'[l][c]) = Len(entries[l][c])
    BY <1>1, PutSlot
  <2>2. \A l \in Lists : Len(entries[l]) <= Len(entries'[l])
    BY <1>1, <2>1
  <2> QED BY <2>1, <2>2 DEF SameSizes
<1>3. \A u \in Place : (Valid(u)' <=> Valid(u)) /\ (Valid(u) => At(u)' = IF u = s THEN None ELSE At(u))
  BY <1>1, PutSlot
<1> QED BY <1>2, <1>3, Constants DEF Only

LEMMA EntryType ==
    ASSUME NEW e \in [Lists -> Seq(Seq(Slot))], NEW s \in Place,
           s[2] <= Len(e[s[1]]), s[3] <= Len(e[s[1]][s[2]])
    PROVE  e[s[1]][s[2]][s[3]] \in Slot
<1>1. PICK a \in Lists, b \in Nat \ {0}, c \in Nat \ {0} : s = <<a, b, c>>
  BY DEF Place
<1>2. e[a] \in Seq(Seq(Slot)) /\ b <= Len(e[a]) /\ c <= Len(e[a][b])
  BY <1>1
<1>3. e[a][b] \in Seq(Slot)
  BY <1>2
<1>4. c \in 1..Len(e[a][b])
  BY <1>2, <1>3
<1> QED BY <1>1, <1>3, <1>4

\* Where nobody's slot but r's changes, the others are where they were.
LEMMA SlotsKeep ==
    ASSUME SlotsInv, NEW r \in Slot, Only(r), ShapeInv',
           allocated => allocated',
           pc' \in [Threads -> RegistrantPCs \cup CancellerPCs],
           place' \in [Registrants -> Place \cup {<<>>}],
           look' \in [Registrants -> Search \cup {<<>>}],
           \A p \in Registrants \ {r} :
               pc'[p] = pc[p] /\ place'[p] = place[p] /\ look'[p] = look[p],
           r # None => pc'[r] \in RegistrantPCs /\ Located(r)',
           \A u \in Place :
               r # None /\ Valid(u)' /\ At(u)' = r => Listed(r)' /\ place'[r] = u
    PROVE  /\ SlotsInv'
           /\ \A p \in Registrants \ {r} : Listed(p) => (At(place[p])' = p <=> At(place[p]) = p)
<1>1. /\ \A l \in Lists : Len(entries[l]) <= Len(entries'[l])
      /\ \A l \in Lists : Len(entries[l]) \in Nat /\ Len(entries'[l]) \in Nat
      /\ \A p \in Registrants : ListOf(p) \in Lists
  BY Constants DEF SlotsInv, ShapeInv, Only, SameSizes
<1>2. ASSUME NEW p \in Registrants \ {r}
      PROVE  /\ pc'[p] \in RegistrantPCs /\ Located(p)'
             /\ Listed(p) => (At(place[p])' = p <=> At(place[p]) = p)
  <2>1. pc[p] \in RegistrantPCs /\ Located(p) /\ pc'[p] = pc[p] /\ place'[p] = place[p]
        /\ look'[p] = look[p] /\ (Listed(p)' <=> Listed(p)) /\ (Adding(p)' <=> Adding(p))
    BY DEF SlotsInv, PlaceInv, Listed, Adding
  <2>2. PICK s \in Place \cup {<<>>} : place[p] = s
    BY DEF SlotsInv, PlaceInv
  <2>3. ASSUME Listed(p) PROVE s \in Place /\ Valid(s) /\ Valid(s)'
    BY <2>1, <2>2, <2>3 DEF Located, Valid, Only
  <2>4. At(place[p]) = At(s) /\ At(place[p])' = At(s)' /\ (Valid(place[p])' <=> Valid(s)')
    BY <2>1, <2>2
  <2>5. entries'[ListOf(p)] # <<>> \/ entries[ListOf(p)] = <<>>
    <3>1. entries[ListOf(p)] \in Seq(Seq(Slot)) /\ entries'[ListOf(p)] \in Seq(Seq(Slot))
      BY <1>1 DEF SlotsInv, ShapeInv
    <3>2. entries[ListOf(p)] # <<>> => Len(entries[ListOf(p)]) > 0
      BY <3>1, EmptySeq
    <3> QED BY <1>1, <3>1, <3>2, EmptySeq
  <2>6. ASSUME pc'[p] \in {"chunk", "slot", "append"}
        PROVE  look'[p] \in Search /\ 0 < look'[p].last
               /\ look'[p].last <= Len(entries'[ListOf(p)])
               /\ (pc'[p] # "append" => 0 < look'[p].chunk /\ look'[p].chunk <= look'[p].last)
    <3>1. look[p] \in Search /\ 0 < look[p].last /\ look[p].last <= Len(entries[ListOf(p)])
      BY <2>1, <2>6 DEF Located
    <3>2. look[p].last \in Nat
      BY <3>1 DEF Search
    <3> QED BY <1>1, <2>1, <2>6, <3>1, <3>2 DEF Located
  <2>7. Located(p)'
    BY <2>1, <2>3, <2>4, <2>5, <2>6 DEF Located
  <2>8. Listed(p) => (At(s)' = p <=> At(s) = p)
    BY <2>3 DEF Only
  <2> QED BY <2>1, <2>4, <2>7, <2>8
<1>3. PlaceInv'
  BY <1>2, Constants DEF PlaceInv, Slot
<1>4. ASSUME NEW s \in Place, Valid(s)', At(s)' # None
      PROVE  Listed(At(s))' /\ place'[At(s)'] = s
  <2>1. PICK p \in Registrants : At(s)' = p
    <3>1. At(s)' \in Slot
      BY <1>4, EntryType DEF ShapeInv, Valid, At
    <3> QED BY <1>4, <3>1 DEF Slot
  <2>2. CASE p = r
    BY <1>4, <2>1, <2>2, Constants
  <2>3. CASE p # r
    <3>1. Valid(s)
      BY <1>4, <2>1, <2>3, Constants DEF Only
    <3>2. At(s) = p
      BY <2>1, <2>3, <3>1 DEF Only
    <3>3. Listed(p) /\ place[p] = s
      BY <3>1, <3>2, Constants DEF SlotsInv, SlotInv
    <3> QED BY <2>1, <2>3, <3>3 DEF Listed
  <2> QED BY <2>2, <2>3
<1>5. SlotInv'
  BY <1>4 DEF SlotInv
<1> QED BY <1>2, <1>3, <1>5 DEF SlotsInv

\* A request that does nothing stays where it is.
LEMMA WalkKeeps ==
    ASSUME ShapeInv, NEW r, Only(r), NEW t \in Cancellers, Walked(t),
           ShapeInv', pc'[t] = pc[t], pos'[t] = pos[t], requested => requested'
    PROVE  Walked(t)'
<1>1. ASSUME pc[t] \in {"entry", "callback"} PROVE Valid(pos[t])'
  <2>1. PICK s \in Place : pos[t] = s /\ Valid(s)
    BY <1>1 DEF Walked, Valid
  <2>2. Valid(s)'
    BY <2>1 DEF Only
  <2> QED BY <2>1, <2>2 DEF Valid
<1>2. ASSUME pc[t] = "nextChunk"
      PROVE  /\ pos'[t] \in Place
             /\ pos'[t][2] <= Len(entries'[pos'[t][1]])
             /\ pos'[t][3] = Len(entries'[pos'[t][1]][pos'[t][2]]) + 1
  <2>1. PICK s \in Place : /\ pos[t] = s /\ s[2] <= Len(entries[s[1]])
                           /\ s[3] = Len(entries[s[1]][s[2]]) + 1
    BY <1>2 DEF Walked
  <2>2. PICK a \in Lists, b \in Nat \ {0}, c \in Nat \ {0} : s = <<a, b, c>>
    BY DEF Place
  <2>3. Len(entries[a]) \in Nat /\ Len(entries'[a]) \in Nat /\ b \in 1..Len(entries[a])
    BY <2>1, <2>2 DEF ShapeInv
  <2>4. /\ Len(entries[a]) <= Len(entries'[a])
        /\ Len(entries'[a][b]) = Len(entries[a][b])
    BY <2>3 DEF Only, SameSizes
  <2>5. b <= Len(entries'[a])
    BY <2>1, <2>2, <2>3, <2>4
  <2>6. /\ pos'[t] \in Place /\ pos'[t] = s
        /\ s[1] = a /\ s[2] = b /\ s[3] = c
    BY <2>1, <2>2
  <2>7. c = Len(entries'[a][b]) + 1
    BY <2>1, <2>4, <2>6
  <2> QED BY <2>5, <2>6, <2>7
<1> QED BY <1>1, <1>2 DEF Walked

\* Steps of a registrant, and of a callback that destroys its registration.
LEMMA RegistrantKeeps ==
    ASSUME SlotsInv, CallsInv, NEW r \in Registrants, NEW at \in RegistrantPCs,
           Goto(r, at), Only(r), ShapeInv',
           place' \in [Registrants -> Place \cup {<<>>}],
           look' \in [Registrants -> Search \cup {<<>>}],
           runs' \in [Registrants -> {0, 1}],
           \A p \in Registrants \ {r} :
               place'[p] = place[p] /\ look'[p] = look[p] /\ runs'[p] = runs[p],
           allocated => allocated',
           UNCHANGED <<requested, complete, pos>>,
           current' \in [Cancellers -> Slot],
           \A t \in Cancellers : current'[t] # None =>
               /\ current'[t] = current[t]
               /\ current[t] = r => Listed(r)' /\ runs'[r] = 1,
           Located(r)', Ran(r)',
           \A u \in Place : Valid(u)' /\ At(u)' = r => Listed(r)' /\ place'[r] = u,
           at = "registered" => ~requested \/ runs'[r] = 1
    PROVE  SlotsInv' /\ CallsInv'
<1>1. /\ pc' \in [Threads -> RegistrantPCs \cup CancellerPCs] /\ pc'[r] = at
      /\ \A p \in Registrants \ {r} : pc'[p] = pc[p] /\ (Listed(p)' <=> Listed(p))
      /\ \A t \in Cancellers : pc'[t] = pc[t]
  <2>1. r \in Threads /\ pc \in [Threads -> RegistrantPCs \cup CancellerPCs]
    BY DEF Threads, SlotsInv, PlaceInv
  <2>2. /\ pc' \in [Threads -> RegistrantPCs \cup CancellerPCs] /\ pc'[r] = at
        /\ \A p \in Threads \ {r} : pc'[p] = pc[p]
    BY <2>1 DEF Goto
  <2> QED BY <2>2, Constants DEF Threads, Listed
<1>2. /\ SlotsInv'
      /\ \A p \in Registrants \ {r} : Listed(p) => (At(place[p])' = p <=> At(place[p]) = p)
  <2>1. r \in Slot /\ r # None
    BY Constants DEF Slot
  <2> QED BY <1>1, <2>1, SlotsKeep
<1>3. RunInv'
  <2>1. ASSUME NEW p \in Registrants \ {r} PROVE Ran(p)'
    BY <1>1, <1>2 DEF CallsInv, RunInv, Ran, Unlisted, Adding, Listed
  <2> QED BY <2>1 DEF RunInv
<1>4. WalkInv'
  <2>1. ASSUME NEW t \in Cancellers PROVE Walked(t)'
    BY <1>1, WalkKeeps DEF CallsInv, WalkInv, SlotsInv
  <2> QED BY <1>1, <2>1 DEF CallsInv, WalkInv
<1>5. CurrentInv'
  <2>1. ASSUME NEW t \in Cancellers, current'[t] # None
        PROVE  pc'[t] = "callback" /\ Listed(current[t])' /\ runs'[current'[t]] = 1
    <3>1. PICK p \in Registrants : current'[t] = p /\ current[t] = p
      BY <2>1 DEF Slot
    <3>2. pc[t] = "callback" /\ Listed(p) /\ runs[p] = 1
      BY <2>1, <3>1 DEF CallsInv, CurrentInv
    <3>3. Listed(p)' /\ runs'[p] = 1
      BY <1>1, <2>1, <3>1, <3>2
    <3> QED BY <1>1, <3>1, <3>2, <3>3 DEF Listed
  <2> QED BY <2>1 DEF CurrentInv
<1>6. MissedInv'
  <2>1. ASSUME NEW p \in Registrants, requested', pc'[p] = "registered", runs'[p] = 0
        PROVE  \E t \in Cancellers : Ahead(t, place[p])'
    <3>1. p # r
      BY <1>1, <2>1
    <3>2. PICK t \in Cancellers : Ahead(t, place[p])
      BY <1>1, <2>1, <3>1 DEF CallsInv, MissedInv
    <3> QED BY <1>1, <3>1, <3>2 DEF Ahead
  <2> QED BY <2>1 DEF MissedInv
<1> QED BY <1>2, <1>3, <1>4, <1>5, <1>6 DEF CallsInv

\* Steps of a request; r is the registration that it takes out, if it does.
LEMMA CancellerKeeps ==
    ASSUME SlotsInv, CallsInv, NEW t \in Cancellers, NEW at \in CancellerPCs, NEW r \in Slot,
           Goto(t, at), Only(r), ShapeInv',
           UNCHANGED <<place, look, allocated>>,
           requested => requested',
           complete' => requested',
           pos' \in [Cancellers -> Nat \X Nat \X Nat \cup {<<>>}],
           current' \in [Cancellers -> Slot],
           runs' \in [Registrants -> {0, 1}],
           \A p \in Registrants \ {r} : runs'[p] = runs[p],
           \A u \in Cancellers \ {t} : pos'[u] = pos[u] /\ current'[u] = current[u],
           Walked(t)',
           at \in Walking => ~complete' /\ \A u \in Cancellers \ {t} : pc[u] \notin Walking,
           \A u \in Cancellers \ {t} : pc[u] \in Walking => ~complete',
           current'[t] # None =>
               at = "callback" /\ (current'[t] = current[t] \/ current'[t] = r),
           r # None => Listed(r) /\ Ran(r)' /\ runs[r] = 0 /\ runs'[r] = 1,
           \A u \in Place : r # None /\ Valid(u)' => At(u)' # r,
           \A s \in Place : requested' /\ Valid(s) /\ At(s) \notin {None, r}
                            /\ (requested => Ahead(t, s)) => Ahead(t, s)'
    PROVE  SlotsInv' /\ CallsInv'
<1>1. /\ pc' \in [Threads -> RegistrantPCs \cup CancellerPCs] /\ pc'[t] = at
      /\ \A p \in Registrants : pc'[p] = pc[p] /\ (Listed(p)' <=> Listed(p))
      /\ \A u \in Cancellers \ {t} : pc'[u] = pc[u]
  <2>1. t \in Threads /\ pc \in [Threads -> RegistrantPCs \cup CancellerPCs]
    BY DEF Threads, SlotsInv, PlaceInv
  <2>2. /\ pc' \in [Threads -> RegistrantPCs \cup CancellerPCs] /\ pc'[t] = at
        /\ \A p \in Threads \ {t} : pc'[p] = pc[p]
    BY <2>1 DEF Goto
  <2> QED BY <2>2, Constants DEF Threads, Listed
<1>2. /\ SlotsInv'
      /\ \A p \in Registrants \ {r} : Listed(p) => (At(place[p])' = p <=> At(place[p]) = p)
  <2>1. ASSUME r # None PROVE pc'[r] \in RegistrantPCs /\ Located(r)'
    <3>1. /\ r \in Registrants /\ pc[r] \in RegistrantPCs /\ Located(r) /\ Listed(r)
          /\ Valid(place[r])
      BY <2>1 DEF Slot, SlotsInv, PlaceInv, Located
    <3>2. PICK s \in Place : place[r] = s /\ Valid(s) /\ Valid(s)'
      BY <3>1 DEF Valid, Only
    <3>3. Valid(place[r])'
      BY <3>2 DEF Valid
    <3> QED BY <1>1, <3>1, <3>3 DEF Located, Listed, Adding
  <2>2. /\ place' \in [Registrants -> Place \cup {<<>>}]
        /\ look' \in [Registrants -> Search \cup {<<>>}]
    BY DEF SlotsInv, PlaceInv
  <2> QED BY <1>1, <2>1, <2>2, SlotsKeep
<1>3. RunInv'
  <2>1. ASSUME NEW p \in Registrants PROVE Ran(p)'
    <3>1. CASE p = r
      BY <3>1, Constants
    <3>2. CASE p # r
      BY <1>1, <1>2, <3>2 DEF CallsInv, RunInv, Ran, Unlisted, Adding, Listed
    <3> QED BY <3>1, <3>2
  <2> QED BY <2>1 DEF RunInv
<1>4. WalkInv'
  <2>1. ASSUME NEW u \in Cancellers PROVE Walked(u)'
    <3>1. CASE u # t
      BY <1>1, <3>1, WalkKeeps DEF CallsInv, WalkInv, SlotsInv
    <3> QED BY <3>1
  <2>2. \A u \in Cancellers : pc'[u] \in Walking => ~complete'
    BY <1>1
  <2>3. \A u, v \in Cancellers : pc'[u] \in Walking /\ pc'[v] \in Walking => u = v
    BY <1>1 DEF CallsInv, WalkInv
  <2> QED BY <2>1, <2>2, <2>3 DEF WalkInv
<1>5. CurrentInv'
  <2>1. ASSUME NEW u \in Cancellers, current'[u] # None
        PROVE  pc'[u] = "callback" /\ Listed(current[u])' /\ runs'[current'[u]] = 1
    <3>1. PICK p \in Registrants : current'[u] = p
      BY <2>1 DEF Slot
    <3>2. CASE p = r
      <4>1. Listed(p)' /\ runs'[p] = 1
        BY <1>1, <3>1, <3>2, Constants
      <4>2. u # t => current[u] = p /\ runs[p] = 1
        BY <2>1, <3>1 DEF CallsInv, CurrentInv
      <4> QED BY <1>1, <2>1, <3>1, <3>2, <4>1, <4>2, Constants DEF Listed
    <3>3. CASE p # r
      <4>1. current[u] = p
        BY <3>1, <3>3, <2>1
      <4>2. pc[u] = "callback" /\ Listed(p) /\ runs[p] = 1
        BY <2>1, <3>1, <4>1 DEF CallsInv, CurrentInv
      <4>3. pc'[u] = "callback" /\ Listed(p)' /\ runs'[p] = 1
        BY <1>1, <2>1, <3>1, <3>3, <4>2
      <4> QED BY <3>1, <4>3 DEF Listed
    <3> QED BY <3>2, <3>3
  <2> QED BY <2>1 DEF CurrentInv
<1>6. MissedInv'
  <2>1. ASSUME NEW p \in Registrants, requested', pc'[p] = "registered", runs'[p] = 0
        PROVE  \E u \in Cancellers : Ahead(u, place[p])'
    <3>1. p # r /\ runs[p] = 0 /\ pc[p] = "registered" /\ Listed(p)
      BY <1>1, <2>1, Constants DEF Listed
    <3>2. PICK s \in Place : place[p] = s /\ Valid(s)
      BY <3>1 DEF SlotsInv, PlaceInv, Located, Valid
    <3>3. At(s) = p
      BY <3>1, <3>2 DEF CallsInv, RunInv, Ran
    <3>4. (requested => Ahead(t, s)) => Ahead(t, s)'
      BY <2>1, <3>1, <3>2, <3>3, Constants
    <3>5. CASE requested => Ahead(t, s)
      BY <3>2, <3>4, <3>5 DEF Ahead
    <3>6. CASE requested /\ ~Ahead(t, s)
      <4>1. PICK u \in Cancellers : Ahead(u, s)
        BY <3>1, <3>2, <3>6 DEF CallsInv, MissedInv
      <4>2. u # t
        BY <3>6, <4>1
      <4> QED BY <1>1, <3>2, <4>1, <4>2 DEF Ahead
    <3> QED BY <3>5, <3>6
  <2> QED BY <2>1 DEF MissedInv
<1> QED BY <1>2, <1>3, <1>4, <1>5, <1>6 DEF CallsInv

-----------------------------------------------------------------------------
\* The three kinds of steps of a registrant.

LEMMA FreeKeeps ==
    ASSUME ShapeInv, NEW l \in Lists, NEW c \in 1..Len(free[l]), NEW k \in Int,
           free' = [free EXCEPT ![l][c] = k]
    PROVE  /\ free' \in [Lists -> Seq(Int)]
           /\ \A m \in Lists : Len(free'[m]) = Len(free[m])
<1> DEFINE x == [free[l] EXCEPT ![c] = k]
<1>1. free \in [Lists -> Seq(Int)] /\ free[l] \in Seq(Int)
  BY DEF ShapeInv
<1>2. x \in Seq(Int) /\ Len(x) = Len(free[l])
  BY <1>1, ExceptSeq
<1>3. free' = [free EXCEPT ![l] = x]
  OBVIOUS
<1> HIDE DEF x
<1> QED BY <1>1, <1>2, <1>3

LEMMA QuietRegistrant ==
    ASSUME SlotsInv, CallsInv, NEW r \in Registrants, NEW at \in RegistrantPCs,
           Goto(r, at), UNCHANGED <<entries, place, requested, complete, pos>>,
           ShapeInv',
           look' \in [Registrants -> Search \cup {<<>>}],
           runs' \in [Registrants -> {0, 1}],
           \A p \in Registrants \ {r} : look'[p] = look[p] /\ runs'[p] = runs[p],
           allocated => allocated',
           current' \in [Cancellers -> Slot],
           \A t \in Cancellers : current'[t] # None =>
               /\ current'[t] = current[t]
               /\ current[t] = r => Listed(r)' /\ runs'[r] = 1,
           Located(r)', Ran(r)',
           Listed(r) /\ runs[r] = 0 => Listed(r)',
           at = "registered" => ~requested \/ runs'[r] = 1
    PROVE  SlotsInv' /\ CallsInv'
<1>1. ShapeInv /\ Only(r)
  BY OnlyQuiet DEF SlotsInv
<1>2. place' \in [Registrants -> Place \cup {<<>>}]
  BY DEF SlotsInv, PlaceInv
<1>3. ASSUME NEW u \in Place, Valid(u)', At(u)' = r PROVE Listed(r)' /\ place'[r] = u
  <2>1. Valid(u) /\ At(u) = r
    BY <1>3 DEF Valid, At
  <2>2. Listed(r) /\ place[r] = u
    BY <2>1, Constants DEF SlotsInv, SlotInv
  <2>3. runs[r] = 0
    BY <2>1, <2>2 DEF CallsInv, RunInv, Ran
  <2> QED BY <2>2, <2>3
<1> QED BY <1>1, <1>2, <1>3, RegistrantKeeps

LEMMA FillingRegistrant ==
    ASSUME SlotsInv, CallsInv, NEW r \in Registrants, NEW s \in Place,
           Goto(r, "recheck"), Adding(r), Filled(r, s), ShapeInv',
           place' = [place EXCEPT ![r] = s],
           UNCHANGED <<requested, complete, pos, current, look, runs, allocated>>
    PROVE  SlotsInv' /\ CallsInv'
<1>1. ShapeInv /\ Only(r)
  BY OnlyFilled DEF SlotsInv
<1>2. /\ place' \in [Registrants -> Place \cup {<<>>}] /\ place'[r] = s
      /\ \A p \in Registrants \ {r} : place'[p] = place[p]
      /\ pc'[r] = "recheck" /\ allocated
  BY DEF SlotsInv, PlaceInv, Located, Goto, Threads
<1>3. ~Listed(r)
  BY DEF Adding, Listed
<1>4. Located(r)'
  <2>1. Valid(s)'
    BY DEF Filled
  <2>2. Valid(place[r])'
    BY <1>2, <2>1 DEF Valid
  <2> QED BY <1>2, <2>2 DEF Located, Adding, Listed
<1>5. runs[r] = 0
  BY DEF CallsInv, RunInv, Ran, Unlisted
<1>6. Ran(r)'
  <2>1. At(s)' = r
    BY DEF Filled
  <2>2. At(place[r])' = r
    BY <1>2, <2>1
  <2> QED BY <1>2, <1>5, <2>2 DEF Ran, Unlisted, Adding, Listed
<1>7. ASSUME NEW u \in Place, Valid(u)', At(u)' = r PROVE Listed(r)' /\ place'[r] = u
  <2>1. u = s
    <3>1. ASSUME Valid(u), u # s PROVE FALSE
      <4>1. At(u) = r
        BY <1>7, <3>1 DEF Filled
      <4> QED BY <1>3, <3>1, <4>1, Constants DEF SlotsInv, SlotInv
    <3>2. ASSUME ~Valid(u), u # s PROVE FALSE
      BY <1>7, <3>2, Constants DEF Filled
    <3> QED BY <3>1, <3>2
  <2> QED BY <1>2, <2>1 DEF Listed
<1>8. \A t \in Cancellers : current[t] # r
  BY <1>3, Constants DEF CallsInv, CurrentInv
<1>9. /\ look' \in [Registrants -> Search \cup {<<>>}]
      /\ runs' \in [Registrants -> {0, 1}] /\ current' \in [Cancellers -> Slot]
  BY DEF SlotsInv, PlaceInv, CallsInv, RunInv, CurrentInv
<1>10. "recheck" \in RegistrantPCs
  BY DEF RegistrantPCs
<1> QED BY <1>1, <1>2, <1>4, <1>6, <1>7, <1>8, <1>9, <1>10, RegistrantKeeps

LEMMA LeavingRegistrant ==
    ASSUME SlotsInv, CallsInv, NEW r \in Registrants, NEW at \in {"idle", "release", "selfCall"},
           Goto(r, at), pc[r] \in {"unslot", "registered"},
           at = "selfCall" => requested,
           At(place[r]) = r, entries' = Put(place[r], None),
           free' \in [Lists -> Seq(Int)], \A l \in Lists : Len(free'[l]) = Len(free[l]),
           current' \in [Cancellers -> Slot],
           \A t \in Cancellers : current'[t] # None => current'[t] = current[t],
           UNCHANGED <<requested, complete, pos, place, look, runs, allocated>>
    PROVE  SlotsInv' /\ CallsInv'
<1>1. PICK s \in Place : place[r] = s /\ Valid(s)
  BY DEF SlotsInv, PlaceInv, Located, Listed, Valid
<1>2. ShapeInv /\ At(s) = r /\ entries' = Put(s, None)
  BY <1>1 DEF SlotsInv
<1>3. /\ Only(r)
      /\ \A u \in Place : Valid(u)' /\ At(u)' = r => u # s /\ Valid(u) /\ At(u) = r
  BY <1>1, <1>2, PutEmptied
<1>4. ShapeInv'
  <2>1. None \in Slot
    BY DEF Slot
  <2>2. /\ entries' \in [Lists -> Seq(Seq(Slot))]
        /\ \A l \in Lists :
              /\ Len(entries'[l]) = Len(entries[l])
              /\ \A c \in 1..Len(entries[l]) : Len(entries'[l][c]) = Len(entries[l][c])
    BY <1>1, <1>2, <2>1, PutSlot
  <2>3. \A l \in Lists : Len(free'[l]) = Len(entries'[l])
    BY <1>2, <2>2 DEF ShapeInv
  <2>4. ASSUME NEW l \in Lists, NEW c \in 1..Len(entries'[l])
        PROVE  Len(entries'[l][c]) > 0
    <3>1. c \in 1..Len(entries[l]) /\ Len(entries'[l][c]) = Len(entries[l][c])
      BY <2>2
    <3> QED BY <1>2, <3>1 DEF ShapeInv
  <2> QED BY <2>2, <2>3, <2>4 DEF ShapeInv
<1>5. pc'[r] = at /\ runs[r] = 0
  <2>1. pc'[r] = at
    BY DEF Goto, SlotsInv, PlaceInv, Threads
  <2> QED BY <2>1 DEF CallsInv, RunInv, Ran, Listed
<1>6. Located(r)'
  BY <1>5 DEF Located, Adding, Listed
<1>7. Ran(r)'
  BY <1>5 DEF Ran, Unlisted, Adding, Listed
<1>8. \A u \in Place : ~(Valid(u)' /\ At(u)' = r)
  BY <1>1, <1>3, Constants DEF SlotsInv, SlotInv
<1>9. \A t \in Cancellers : current[t] # r
  BY <1>5, Constants DEF CallsInv, CurrentInv
<1>10. /\ place' \in [Registrants -> Place \cup {<<>>}]
       /\ look' \in [Registrants -> Search \cup {<<>>}]
       /\ runs' \in [Registrants -> {0, 1}]
  BY DEF SlotsInv, PlaceInv, CallsInv, RunInv
<1>11. at \in RegistrantPCs /\ at # "registered"
  BY DEF RegistrantPCs
<1> QED BY <1>3, <1>4, <1>6, <1>7, <1>8, <1>9, <1>10, <1>11, RegistrantKeeps

-----------------------------------------------------------------------------
\* The steps of a registrant.

LEMMA Facts ==
    ASSUME SlotsInv, CallsInv, NEW r \in Registrants
    PROVE  /\ Located(r) /\ Ran(r) /\ pc[r] \in RegistrantPCs
           /\ pc \in [Threads -> RegistrantPCs \cup CancellerPCs] /\ r \in Threads
           /\ place \in [Registrants -> Place \cup {<<>>}]
           /\ look \in [Registrants -> Search \cup {<<>>}]
           /\ runs \in [Registrants -> {0, 1}]
           /\ current \in [Cancellers -> Slot]
           /\ \A t \in Cancellers : current[t] = r => Listed(r) /\ runs[r] = 1
           /\ ListOf(r) \in Lists
BY Constants DEF SlotsInv, PlaceInv, CallsInv, RunInv, CurrentInv, Threads

LEMMA StartSteps ==
    ASSUME SlotsInv, CallsInv, NEW r \in Registrants,
           Register(r) \/ CanBeCancelled(r) \/ CheckRequested(r) \/ AllocateState(r)
    PROVE  SlotsInv' /\ CallsInv'
<1> USE Facts DEF RegistrantPCs, slots, reg, walk, Goto
<1>1. ShapeInv'
  BY DEF SlotsInv, ShapeInv, Register, CanBeCancelled, CheckRequested, AllocateState
<1>2. CASE Register(r)
  <2>1. pc'[r] = "canCancel" /\ runs'[r] = 0 /\ runs' \in [Registrants -> {0, 1}]
        /\ \A p \in Registrants \ {r} : runs'[p] = runs[p]
    BY <1>2 DEF Register
  <2>2. Located(r)' /\ Ran(r)' /\ ~Listed(r)
    BY <1>2, <2>1 DEF Register, Located, Ran, Unlisted, Adding, Listed
  <2> QED BY <1>1, <1>2, <2>1, <2>2, QuietRegistrant DEF Register
<1>3. CASE CanBeCancelled(r)
  <2>1. PICK at \in {"check", "release"} : Goto(r, at)
    BY <1>3 DEF CanBeCancelled
  <2>2. pc'[r] = at
    BY <2>1
  <2>3. Located(r)' /\ Ran(r)' /\ ~Listed(r)
    BY <1>3, <2>2 DEF CanBeCancelled, Located, Ran, Unlisted, Adding, Listed
  <2> QED BY <1>1, <1>3, <2>1, <2>3, QuietRegistrant DEF CanBeCancelled
<1>4. CASE CheckRequested(r)
  <2>1. PICK at \in {"selfCall", "allocate"} : Goto(r, at) /\ (at = "selfCall" => requested)
    BY <1>4 DEF CheckRequested
  <2>2. pc'[r] = at
    BY <2>1
  <2>3. Located(r)' /\ Ran(r)' /\ ~Listed(r)
    BY <1>4, <2>1, <2>2 DEF CheckRequested, Located, Ran, Unlisted, Adding, Listed
  <2> QED BY <1>1, <1>4, <2>1, <2>3, QuietRegistrant DEF CheckRequested
<1>5. CASE AllocateState(r)
  <2>1. pc'[r] = "list"
    BY <1>5 DEF AllocateState
  <2>2. Located(r)' /\ Ran(r)' /\ ~Listed(r)
    BY <1>5, <2>1 DEF AllocateState, Located, Ran, Unlisted, Adding, Listed
  <2> QED BY <1>1, <1>5, <2>2, QuietRegistrant DEF AllocateState
<1> QED BY <1>2, <1>3, <1>4, <1>5

LEMMA EndSteps ==
    ASSUME SlotsInv, CallsInv, NEW r \in Registrants,
           Recheck(r) \/ SelfCall(r) \/ Release(r)
    PROVE  SlotsInv' /\ CallsInv'
<1> USE Facts DEF RegistrantPCs, slots, reg, walk, Goto
<1>1. ShapeInv'
  BY DEF SlotsInv, ShapeInv, Recheck, SelfCall, Release
<1>2. CASE Recheck(r)
  <2>1. PICK at \in {"unslot", "registered"} :
            Goto(r, at) /\ (at = "unslot" => requested) /\ (at = "registered" => ~requested)
    BY <1>2 DEF Recheck
  <2>2. pc'[r] = at
    BY <2>1
  <2>3. Located(r)' /\ Ran(r)' /\ Listed(r)'
    <3>1. Valid(place[r])'
      BY <1>2 DEF Recheck, Located, Listed, Valid
    <3>2. At(place[r])' = At(place[r])
      BY <1>2 DEF Recheck, At
    <3> QED BY <1>2, <2>1, <2>2, <3>1, <3>2 DEF Recheck, Located, Ran, Unlisted, Adding, Listed
  <2> QED BY <1>1, <1>2, <2>1, <2>3, QuietRegistrant DEF Recheck
<1>3. CASE SelfCall(r)
  <2>1. pc'[r] = "release" /\ runs'[r] = 1 /\ runs' \in [Registrants -> {0, 1}]
        /\ \A p \in Registrants \ {r} : runs'[p] = runs[p]
    BY <1>3 DEF SelfCall, Ran, Unlisted
  <2>2. Located(r)' /\ Ran(r)' /\ ~Listed(r)
    BY <1>3, <2>1 DEF SelfCall, Located, Ran, Unlisted, Adding, Listed
  <2> QED BY <1>1, <1>3, <2>1, <2>2, QuietRegistrant DEF SelfCall
<1>5. CASE Release(r)
  <2>1. pc'[r] = "idle"
    BY <1>5 DEF Release
  <2>2. Located(r)' /\ Ran(r)' /\ ~Listed(r)
    BY <1>5, <2>1 DEF Release, Located, Ran, Unlisted, Adding, Listed
  <2> QED BY <1>1, <1>5, <2>2, QuietRegistrant DEF Release
<1> QED BY <1>2, <1>3, <1>5

\* The request is complete, so no callback runs any more.
LEMMA WaitStep ==
    ASSUME SlotsInv, CallsInv, NEW r \in Registrants, Wait(r)
    PROVE  SlotsInv' /\ CallsInv'
<1>1. /\ pc[r] = "wait" /\ complete /\ Goto(r, "release")
      /\ UNCHANGED <<entries, free, place, requested, complete, pos>>
      /\ UNCHANGED <<look, runs, allocated, current>>
  BY DEF Wait, slots, reg, walk
<1>2. pc'[r] = "release" /\ runs[r] = 1
  BY <1>1, Facts DEF Ran, Goto
<1>3. ShapeInv'
  BY <1>1 DEF SlotsInv, ShapeInv
<1>4. Located(r)' /\ Ran(r)'
  BY <1>1, <1>2, Facts DEF Located, Ran, Unlisted, Adding, Listed
<1>5. \A t \in Cancellers : current'[t] = None
  BY <1>1 DEF CallsInv, WalkInv, CurrentInv, Walking
<1>6. /\ look' \in [Registrants -> Search \cup {<<>>}]
      /\ runs' \in [Registrants -> {0, 1}] /\ current' \in [Cancellers -> Slot]
  BY <1>1, Facts
<1>7. "release" \in RegistrantPCs
  BY DEF RegistrantPCs
<1> QED BY <1>1, <1>2, <1>3, <1>4, <1>5, <1>6, <1>7, QuietRegistrant

\* The search for a free slot: where it goes on.
Searched(r) ==
    \E at \in {"slot", "append", "chunk"} :
        /\ Goto(r, at)
        /\ look' \in [Registrants -> Search \cup {<<>>}] /\ look'[r] \in Search
        /\ look'[r].last = look[r].last
        /\ at # "append" => 0 < look'[r].chunk /\ look'[r].chunk <= look[r].last
        /\ \A p \in Registrants \ {r} : look'[p] = look[p]

LEMMA PreviousKeeps ==
    ASSUME SlotsInv, NEW r \in Registrants, PreviousChunk(r),
           look[r] \in Search, 0 < look[r].chunk, look[r].chunk <= look[r].last
    PROVE  Searched(r)
<1> DEFINE k == look[r]
           n == [k EXCEPT !.chunk = k.chunk - 1, !.i = 0]
<1>1. /\ look \in [Registrants -> Search \cup {<<>>}]
      /\ look' = [look EXCEPT ![r] = n]
      /\ Goto(r, IF k.chunk = 1 THEN "append" ELSE "chunk")
  BY DEF SlotsInv, PlaceInv, PreviousChunk
<1>2. k.chunk \in Nat /\ k.last \in Nat /\ k.chunk - 1 \in Nat
  BY DEF Search
<1>3. n \in Search /\ n.chunk = k.chunk - 1 /\ n.last = k.last
  BY <1>2 DEF Search
<1> HIDE DEF n
<1>4. /\ look' \in [Registrants -> Search \cup {<<>>}] /\ look'[r] = n
      /\ \A p \in Registrants \ {r} : look'[p] = look[p]
  BY <1>1, <1>3
<1>5. CASE k.chunk = 1
  BY <1>1, <1>3, <1>4, <1>5 DEF Searched
<1>6. CASE k.chunk # 1
  BY <1>1, <1>2, <1>3, <1>4, <1>6 DEF Searched
<1> QED BY <1>5, <1>6

\* The turn of a search in a chunk.
LEMMA TurnKeeps ==
    ASSUME SlotsInv, NEW r \in Registrants, NEW n \in Search,
           look' = [look EXCEPT ![r] = n], Goto(r, "slot"),
           look[r] \in Search, n.chunk = look[r].chunk, n.last = look[r].last,
           0 < look[r].chunk, look[r].chunk <= look[r].last
    PROVE  Searched(r)
<1>1. look \in [Registrants -> Search \cup {<<>>}]
  BY DEF SlotsInv, PlaceInv
<1>2. /\ look' \in [Registrants -> Search \cup {<<>>}] /\ look'[r] = n
      /\ \A p \in Registrants \ {r} : look'[p] = look[p]
  BY <1>1
<1> QED BY <1>2 DEF Searched

\* A search that does not find a slot leaves the slots as they are.
LEMMA SearchKeeps ==
    ASSUME SlotsInv, CallsInv, NEW r \in Registrants, pc[r] \in {"chunk", "slot"},
           free' \in [Lists -> Seq(Int)], \A m \in Lists : Len(free'[m]) = Len(free[m]),
           UNCHANGED <<entries, place, requested, complete, pos, runs, allocated, current>>,
           Searched(r)
    PROVE  SlotsInv' /\ CallsInv'
<1>1. PICK at \in {"slot", "append", "chunk"} :
              /\ Goto(r, at)
              /\ look' \in [Registrants -> Search \cup {<<>>}] /\ look'[r] \in Search
              /\ look'[r].last = look[r].last
              /\ at # "append" => 0 < look'[r].chunk /\ look'[r].chunk <= look[r].last
              /\ \A p \in Registrants \ {r} : look'[p] = look[p]
  BY DEF Searched
<1>2. pc'[r] = at /\ at \in RegistrantPCs
  BY <1>1, Facts DEF Goto, RegistrantPCs
<1>3. ShapeInv'
  BY DEF SlotsInv, ShapeInv
<1>4. Located(r)' /\ Ran(r)' /\ ~Listed(r)
  BY <1>1, <1>2, Facts DEF Located, Ran, Unlisted, Adding, Listed
<1>5. \A t \in Cancellers : current[t] # r
  BY <1>4, Facts
<1> QED BY <1>1, <1>2, <1>3, <1>4, <1>5, Facts, QuietRegistrant

LEMMA LookSteps ==
    ASSUME SlotsInv, CallsInv, NEW r \in Registrants, FindTail(r) \/ LookAtCount(r)
    PROVE  SlotsInv' /\ CallsInv'
<1> DEFINE l == ListOf(r)
<1> USE Facts DEF RegistrantPCs, slots, walk, Goto
<1>1. /\ entries[l] \in Seq(Seq(Slot)) /\ Len(entries[l]) \in Nat /\ Len(free[l]) = Len(entries[l])
      /\ free[l] \in Seq(Int)
  BY DEF SlotsInv, ShapeInv
<1>2. CASE FindTail(r)
  <2>1. Len(entries[l]) > 0
    <3>1. entries[l] # <<>>
      BY <1>2 DEF FindTail, Located
    <3> QED BY <1>1, <3>1, EmptySeq
  <2>2. /\ look' \in [Registrants -> Search \cup {<<>>}]
        /\ look'[r] = [last |-> Len(entries[l]), chunk |-> Len(entries[l]), i |-> 0, count |-> 0]
        /\ \A p \in Registrants \ {r} : look'[p] = look[p]
    <3>1. [last |-> Len(entries[l]), chunk |-> Len(entries[l]), i |-> 0, count |-> 0] \in Search
      BY <1>1 DEF Search
    <3> QED BY <1>2, <3>1 DEF FindTail
  <2>3. pc'[r] = "chunk"
    BY <1>2 DEF FindTail
  <2>4. ShapeInv'
    BY <1>2 DEF FindTail, SlotsInv, ShapeInv
  <2>5. Located(r)' /\ Ran(r)' /\ ~Listed(r)
    <3>1. /\ look'[r].last = Len(entries'[l]) /\ look'[r].chunk = Len(entries'[l])
          /\ look'[r] \in Search
      BY <1>1, <1>2, <2>2 DEF FindTail, Search
    <3> QED BY <1>1, <1>2, <2>1, <2>3, <3>1 DEF FindTail, Located, Ran, Unlisted, Adding, Listed
  <2> QED BY <1>2, <2>2, <2>4, <2>5, QuietRegistrant DEF FindTail
<1>3. CASE LookAtCount(r)
  <2> DEFINE k == look[r]
             c == k.chunk
             count == IF free[l][c] < 1 THEN free[l][c] - 1 ELSE free[l][c]
             n == [k EXCEPT !.count = count, !.i = 0]
  <2>1. /\ k \in Search /\ c \in 1..Len(free[l]) /\ 0 < c /\ c <= k.last
    <3>1. pc[r] = "chunk" /\ Located(r)
      BY <1>1, <1>3 DEF LookAtCount
    <3>2. k \in Search /\ 0 < k.chunk /\ k.chunk <= k.last /\ k.last <= Len(entries[l])
      BY <3>1 DEF Located
    <3>3. c \in Nat /\ k.last \in Nat /\ Len(entries[l]) \in Nat /\ Len(free[l]) = Len(entries[l])
      BY <1>1, <3>2 DEF Search
    <3> QED BY <3>2, <3>3
  <2>2. free[l][c] \in Int /\ count \in Int
    BY <1>1, <2>1
  <2>3. /\ free' = [free EXCEPT ![l][c] = count] /\ pc[r] = "chunk"
        /\ UNCHANGED <<entries, place, requested, complete, pos, runs, allocated, current>>
    BY <1>3 DEF LookAtCount
  <2>4. (look' = [look EXCEPT ![r] = n] /\ Goto(r, "slot")) \/ PreviousChunk(r)
    BY <1>3 DEF LookAtCount
  <2> HIDE DEF count
  <2>5. n \in Search /\ n.chunk = c /\ n.last = k.last
    BY <2>1, <2>2 DEF Search
  <2> HIDE DEF n
  <2>6. free' \in [Lists -> Seq(Int)] /\ \A m \in Lists : Len(free'[m]) = Len(free[m])
    BY <2>1, <2>2, <2>3, FreeKeeps DEF SlotsInv
  <2>7. CASE look' = [look EXCEPT ![r] = n] /\ Goto(r, "slot")
    BY <2>1, <2>3, <2>5, <2>6, <2>7, TurnKeeps, SearchKeeps
  <2>8. CASE PreviousChunk(r)
    BY <2>1, <2>3, <2>6, <2>8, PreviousKeeps, SearchKeeps
  <2> QED BY <2>4, <2>7, <2>8
<1> QED BY <1>2, <1>3

\* A list or a chunk is added with the registration in it.
LEMMA AppendStep ==
    ASSUME SlotsInv, CallsInv, NEW r \in Registrants, NEW n \in Nat \ {0},
           Adding(r), Goto(r, "recheck"),
           entries' = [entries EXCEPT ![ListOf(r)] = Append(@, Chunk(n, r))],
           free' \in [Lists -> Seq(Int)],
           \A l \in Lists : Len(free'[l]) = Len(free[l]) + (IF l = ListOf(r) THEN 1 ELSE 0),
           place' = [place EXCEPT ![r] = <<ListOf(r), Len(entries[ListOf(r)]) + 1, 1>>],
           UNCHANGED <<requested, complete, pos, current, look, runs, allocated>>
    PROVE  SlotsInv' /\ CallsInv'
<1>1. ShapeInv /\ ListOf(r) \in Lists
  BY Facts DEF SlotsInv
<1>2. /\ entries' \in [Lists -> Seq(Seq(Slot))]
      /\ \A l \in Lists : \A c \in 1..Len(entries'[l]) : Len(entries'[l][c]) > 0
      /\ \A l \in Lists : Len(entries'[l]) = Len(entries[l]) + (IF l = ListOf(r) THEN 1 ELSE 0)
  BY <1>1, AppendSlot
<1>3. PICK s \in Place : s = <<ListOf(r), Len(entries[ListOf(r)]) + 1, 1>> /\ Filled(r, s)
  BY <1>1, AppendSlot
<1>4. ShapeInv'
  BY <1>1, <1>2 DEF ShapeInv
<1>5. place' = [place EXCEPT ![r] = s]
  BY <1>3
<1> QED BY <1>3, <1>4, <1>5, FillingRegistrant

LEMMA AppendSteps ==
    ASSUME SlotsInv, CallsInv, NEW r \in Registrants, FindList(r) \/ AppendChunk(r)
    PROVE  SlotsInv' /\ CallsInv'
<1> DEFINE l == ListOf(r)
<1>1. /\ l \in Lists /\ entries \in [Lists -> Seq(Seq(Slot))] /\ free \in [Lists -> Seq(Int)]
      /\ \A m \in Lists : Len(free[m]) = Len(entries[m]) /\ Len(entries[m]) \in Nat
  BY Facts DEF SlotsInv, ShapeInv
<1>2. UNCHANGED <<requested, complete, pos, current, look, runs, allocated>>
  BY DEF FindList, AppendChunk, walk
<1>3. ASSUME Goto(r, "tail"), UNCHANGED <<slots, place>>, pc[r] \in {"list", "append"},
             entries[l] # <<>>
      PROVE  SlotsInv' /\ CallsInv'
  <2>1. pc'[r] = "tail" /\ "tail" \in RegistrantPCs
    BY <1>3, Facts DEF Goto, RegistrantPCs
  <2>2. ShapeInv'
    BY <1>3 DEF SlotsInv, ShapeInv, slots
  <2>3. Located(r)' /\ Ran(r)' /\ ~Listed(r)
    BY <1>2, <1>3, <2>1, Facts DEF Located, Ran, Unlisted, Adding, Listed, slots
  <2>4. \A t \in Cancellers : current[t] # r
    BY <2>3, Facts
  <2> QED BY <1>2, <1>3, <2>1, <2>2, <2>3, <2>4, Facts, QuietRegistrant DEF slots
<1>4. CASE FindList(r)
  <2>1. CASE entries[l] = <<>>
    <3>1. /\ Goto(r, "recheck") /\ Adding(r)
          /\ entries' = [entries EXCEPT ![l] = <<Chunk(HeadSize, r)>>]
          /\ free' = [free EXCEPT ![l] = <<HeadSize - 1>>]
          /\ place' = [place EXCEPT ![r] = <<l, 1, 1>>]
      BY <1>4, <2>1 DEF FindList, Adding
    <3>2. Len(entries[l]) = 0 /\ Append(entries[l], Chunk(HeadSize, r)) = <<Chunk(HeadSize, r)>>
      BY <2>1
    <3>3. free' \in [Lists -> Seq(Int)]
      BY <1>1, <3>1, Constants
    <3>4. \A m \in Lists : Len(free'[m]) = Len(free[m]) + (IF m = l THEN 1 ELSE 0)
      BY <1>1, <3>1, <3>2
    <3>5. entries' = [entries EXCEPT ![l] = Append(@, Chunk(HeadSize, r))]
      BY <3>1, <3>2
    <3>6. place' = [place EXCEPT ![r] = <<l, Len(entries[l]) + 1, 1>>]
      BY <3>1, <3>2
    <3>7. HeadSize \in Nat \ {0}
      BY Constants
    <3> HIDE DEF l
    <3> QED BY <1>2, <3>1, <3>3, <3>4, <3>5, <3>6, <3>7, AppendStep DEF l
  <2>2. CASE entries[l] # <<>>
    BY <1>3, <1>4, <2>2 DEF FindList
  <2> QED BY <2>1, <2>2
<1>5. CASE AppendChunk(r)
  <2> DEFINE last == look[r].last
             size == IF Len(entries[l][last]) < SizeLimit
                     THEN 2 * Len(entries[l][last]) ELSE SizeLimit
  <2>1. /\ pc[r] = "append" /\ last \in 1..Len(entries[l]) /\ entries[l] # <<>>
    <3>1. pc[r] = "append" /\ 0 < last /\ last <= Len(entries[l]) /\ last \in Nat
      BY <1>5, Facts DEF AppendChunk, Located, Search
    <3> QED BY <1>1, <3>1, EmptySeq
  <2>2. CASE Len(entries[l]) = last
    <3>1. Len(entries[l][last]) \in Nat /\ Len(entries[l][last]) > 0
      <4>1. entries[l][last] \in Seq(Slot)
        BY <1>1, <2>1
      <4>2. Len(entries[l][last]) > 0
        BY <1>1, <2>1 DEF SlotsInv, ShapeInv
      <4> QED BY <4>1, <4>2
    <3>2. size \in Nat \ {0}
      BY <3>1, Constants
    <3>3. /\ Goto(r, "recheck") /\ Adding(r)
          /\ entries' = [entries EXCEPT ![l] = Append(@, Chunk(size, r))]
          /\ free' = [free EXCEPT ![l] = Append(@, size - 1)]
          /\ place' = [place EXCEPT ![r] = <<l, last + 1, 1>>]
      BY <1>5, <2>2 DEF AppendChunk, Adding
    <3> HIDE DEF size
    <3>4. size - 1 \in Int /\ Append(free[l], size - 1) \in Seq(Int)
          /\ Len(Append(free[l], size - 1)) = Len(free[l]) + 1
      BY <1>1, <3>2
    <3>5. free' \in [Lists -> Seq(Int)]
      BY <1>1, <3>3, <3>4
    <3>6. \A m \in Lists : Len(free'[m]) = Len(free[m]) + (IF m = l THEN 1 ELSE 0)
      BY <1>1, <3>3, <3>4
    <3>7. place' = [place EXCEPT ![r] = <<l, Len(entries[l]) + 1, 1>>]
      BY <2>2, <3>3
    <3>8. PICK n \in Nat \ {0} : n = size
      BY <3>2
    <3> QED BY <1>2, <3>3, <3>5, <3>6, <3>7, <3>8, AppendStep
  <2>3. CASE Len(entries[l]) # last
    BY <1>3, <1>5, <2>1, <2>3 DEF AppendChunk
  <2> QED BY <2>2, <2>3
<1> QED BY <1>4, <1>5

LEMMA TurnInChunk ==
    ASSUME NEW size \in Nat \ {0}, NEW count \in Int, NEW i \in Nat
    PROVE  ((size - count + i) % size) + 1 \in 1..size
OBVIOUS

\* A slot is claimed, or the search goes on.
LEMMA TryStep ==
    ASSUME SlotsInv, CallsInv, NEW r \in Registrants, TrySlot(r)
    PROVE  SlotsInv' /\ CallsInv'
<1> DEFINE l == ListOf(r)
           k == look[r]
           c == k.chunk
           size == Len(entries[l][c])
           e == EntryId(r, size)
           count == k.count
<1>1. /\ l \in Lists /\ entries \in [Lists -> Seq(Seq(Slot))]
      /\ Len(free[l]) = Len(entries[l]) /\ Len(entries[l]) \in Nat
      /\ pc[r] = "slot" /\ ~Listed(r) /\ Adding(r)
  BY Facts DEF SlotsInv, ShapeInv, TrySlot, Listed, Adding
<1>2. k \in Search /\ c \in Nat /\ 0 < c /\ c <= k.last /\ c \in 1..Len(entries[l]) /\ count \in Int
      /\ k.i \in Nat
  <2>1. /\ k \in Search /\ 0 < c /\ c <= k.last /\ k.last <= Len(entries[l])
    BY <1>1, Facts DEF Located
  <2>2. c \in Nat /\ k.last \in Nat /\ count \in Int /\ k.i \in Nat
    BY <2>1 DEF Search
  <2> QED BY <1>1, <2>1, <2>2
<1>3. entries[l][c] \in Seq(Slot) /\ size \in Nat \ {0}
  <2>1. entries[l][c] \in Seq(Slot)
    BY <1>1, <1>2
  <2>2. size > 0
    BY <1>1, <1>2 DEF SlotsInv, ShapeInv
  <2> QED BY <2>1, <2>2
<1>4. e \in 1..size
  <2>1. k.i \in Nat /\ count \in Int /\ size \in Nat \ {0}
    BY <1>2, <1>3
  <2> HIDE DEF size
  <2> QED BY <2>1, TurnInChunk DEF EntryId
<1> HIDE DEF e
<1>5. PICK s \in Place : s = <<l, c, e>> /\ Valid(s)
  <2>1. c \in Nat \ {0} /\ e \in Nat \ {0} /\ c <= Len(entries[l]) /\ e <= size
    BY <1>2, <1>3, <1>4
  <2>2. <<l, c, e>> \in Place
    BY <1>1, <2>1 DEF Place
  <2> QED BY <2>1, <2>2 DEF Valid
<1>6. UNCHANGED <<requested, complete, pos, current, runs, allocated>>
  BY DEF TrySlot, walk
<1>7. ASSUME NEW n \in Int, free' = [free EXCEPT ![l][c] = n]
      PROVE  free' \in [Lists -> Seq(Int)] /\ \A m \in Lists : Len(free'[m]) = Len(free[m])
  <2>1. c \in 1..Len(free[l])
    BY <1>1, <1>2
  <2> QED BY <1>1, <1>7, <2>1, FreeKeeps DEF SlotsInv
<1>8. CASE At(s) = None
  <2>1. /\ entries' = Put(s, r) /\ place' = [place EXCEPT ![r] = s]
        /\ free' = [free EXCEPT ![l][c] = IF count < 0 THEN 0 ELSE count - 1]
        /\ Goto(r, "recheck") /\ UNCHANGED look
    BY <1>5, <1>8 DEF TrySlot, e
  <2>2. Filled(r, s)
    BY <1>5, <1>8, <2>1, PutFilled DEF SlotsInv
  <2>3. ShapeInv'
    <3>1. r \in Slot
      BY DEF Slot
    <3>2. /\ entries' \in [Lists -> Seq(Seq(Slot))]
          /\ \A m \in Lists :
                /\ Len(entries'[m]) = Len(entries[m])
                /\ \A i \in 1..Len(entries[m]) : Len(entries'[m][i]) = Len(entries[m][i])
      BY <1>5, <2>1, <3>1, PutSlot DEF SlotsInv
    <3>3. PICK n \in Int : n = IF count < 0 THEN 0 ELSE count - 1
      BY <1>2
    <3>4. free' \in [Lists -> Seq(Int)] /\ \A m \in Lists : Len(free'[m]) = Len(free[m])
      BY <1>7, <2>1, <3>3
    <3> QED BY <3>2, <3>4 DEF SlotsInv, ShapeInv
  <2> QED BY <1>1, <1>6, <2>1, <2>2, <2>3, FillingRegistrant
<1>9. CASE At(s) # None /\ k.i + 1 < size
  <2> DEFINE n == [k EXCEPT !.i = k.i + 1]
  <2>1. /\ look' = [look EXCEPT ![r] = n] /\ UNCHANGED <<slots, place, pc>>
    BY <1>5, <1>9 DEF TrySlot, e
  <2>2. n \in Search /\ n.chunk = k.chunk /\ n.last = k.last
    BY <1>2 DEF Search
  <2>3. Goto(r, "slot")
    BY <1>1, <2>1, Facts DEF Goto
  <2> HIDE DEF n
  <2>4. Searched(r)
    BY <1>2, <2>1, <2>2, <2>3, TurnKeeps
  <2>5. free' \in [Lists -> Seq(Int)] /\ \A m \in Lists : Len(free'[m]) = Len(free[m])
    BY <2>1 DEF slots, SlotsInv, ShapeInv
  <2> QED BY <1>1, <1>6, <2>1, <2>4, <2>5, SearchKeeps DEF slots
<1>10. CASE At(s) # None /\ ~(k.i + 1 < size)
  <2>1. /\ free' = [free EXCEPT ![l][c] = 0] /\ PreviousChunk(r) /\ UNCHANGED <<entries, place>>
    BY <1>5, <1>10 DEF TrySlot, e
  <2>2. free' \in [Lists -> Seq(Int)] /\ \A m \in Lists : Len(free'[m]) = Len(free[m])
    <3>1. PICK n \in Int : n = 0
      OBVIOUS
    <3> QED BY <1>7, <2>1, <3>1
  <2>3. Searched(r)
    BY <1>2, <2>1, PreviousKeeps
  <2> QED BY <1>1, <1>6, <2>1, <2>2, <2>3, SearchKeeps
<1> QED BY <1>8, <1>9, <1>10

LEMMA TakeOutKeeps ==
    ASSUME ShapeInv, NEW r \in Registrants, TakeOut(r), Valid(place[r])
    PROVE  /\ At(place[r]) = r /\ entries' = Put(place[r], None)
           /\ free' \in [Lists -> Seq(Int)] /\ \A l \in Lists : Len(free'[l]) = Len(free[l])
<1>1. PICK a \in Lists, b \in Nat \ {0}, c \in Nat \ {0} : place[r] = <<a, b, c>>
  BY DEF Valid, Place
<1>2. /\ free \in [Lists -> Seq(Int)] /\ free[a] \in Seq(Int)
      /\ Len(free[a]) = Len(entries[a]) /\ b <= Len(entries[a])
  BY <1>1 DEF ShapeInv, Valid
<1>3. b \in 1..Len(free[a]) /\ free[a][b] \in Int
  BY <1>2
<1>4. PICK n \in Int : n = IF free[a][b] < 0 THEN 1 ELSE free[a][b] + 1
  BY <1>3
<1>5. free' = free \/ free' = [free EXCEPT ![a][b] = n]
  BY <1>1, <1>4 DEF TakeOut
<1>6. free' \in [Lists -> Seq(Int)] /\ \A l \in Lists : Len(free'[l]) = Len(free[l])
  BY <1>2, <1>3, <1>5, FreeKeeps
<1> QED BY <1>6 DEF TakeOut

LEMMA LeaveSteps ==
    ASSUME SlotsInv, CallsInv, NEW r \in Registrants, Unslot(r) \/ Deregister(r)
    PROVE  SlotsInv' /\ CallsInv'
<1>1. /\ Located(r) /\ Ran(r) /\ Listed(r) /\ Valid(place[r]) /\ ShapeInv
      /\ pc[r] \in {"unslot", "registered"} /\ (pc[r] = "unslot" => requested)
      /\ UNCHANGED <<requested, complete, pos, current, place, look, runs, allocated>>
  BY Facts DEF Unslot, Deregister, Listed, Located, Ran, SlotsInv, reg, walk
<1>2. ASSUME NEW at \in {"registered", "wait"}, Goto(r, at), UNCHANGED slots, At(place[r]) # r
      PROVE  SlotsInv' /\ CallsInv'
  <2>1. pc'[r] = at /\ at \in RegistrantPCs
    BY <1>2, Facts DEF Goto, RegistrantPCs
  <2>2. ShapeInv'
    BY <1>1, <1>2 DEF ShapeInv, slots
  <2>3. runs[r] = 1 /\ runs'[r] = 1
    BY <1>1, <1>2, Facts DEF Ran
  <2>4. Located(r)' /\ Listed(r)'
    <3>1. Valid(place[r])'
      BY <1>1, <1>2 DEF Valid, slots
    <3> QED BY <1>1, <2>1, <3>1 DEF Located, Listed, Adding
  <2>5. Ran(r)'
    <3>1. At(place[r])' = At(place[r])
      BY <1>1, <1>2 DEF At, slots
    <3> QED BY <1>1, <1>2, <2>1, <2>3, <3>1 DEF Ran, Listed, Unlisted, Adding
  <2> QED BY <1>1, <1>2, <2>1, <2>2, <2>3, <2>4, <2>5, Facts, QuietRegistrant DEF slots
<1>3. ASSUME NEW at \in {"release", "selfCall"}, Goto(r, at), at = "selfCall" => requested,
             At(place[r]) = r, entries' = Put(place[r], None),
             free' \in [Lists -> Seq(Int)], \A l \in Lists : Len(free'[l]) = Len(free[l])
      PROVE  SlotsInv' /\ CallsInv'
  BY <1>1, <1>3, Facts, LeavingRegistrant
<1>4. CASE Unslot(r)
  <2>1. CASE At(place[r]) = r
    <3>1. /\ Goto(r, "selfCall") /\ entries' = Put(place[r], None) /\ requested
          /\ free' \in [Lists -> Seq(Int)] /\ \A l \in Lists : Len(free'[l]) = Len(free[l])
      BY <1>1, <1>4, <2>1 DEF Unslot, ShapeInv
    <3> QED BY <1>3, <2>1, <3>1
  <2>2. CASE At(place[r]) # r
    BY <1>2, <1>4, <2>2 DEF Unslot, slots
  <2> QED BY <2>1, <2>2
<1>5. CASE Deregister(r)
  <2>1. CASE TakeOut(r) /\ Goto(r, "release")
    BY <1>1, <1>3, <2>1, TakeOutKeeps
  <2>2. CASE At(place[r]) # r /\ Goto(r, "wait") /\ UNCHANGED slots
    BY <1>2, <2>2
  <2> QED BY <1>5, <2>1, <2>2 DEF Deregister
<1> QED BY <1>4, <1>5

LEMMA CallbackSteps ==
    ASSUME SlotsInv, CallsInv, NEW t \in Cancellers, NEW r \in Registrants,
           DeregisterInCallback(t, r)
    PROVE  SlotsInv' /\ CallsInv'
<1>1. /\ Located(r) /\ Ran(r) /\ Listed(r) /\ Valid(place[r]) /\ ShapeInv
      /\ pc[r] = "registered" /\ Goto(r, "idle")
      /\ UNCHANGED <<requested, complete, pos, place, look, runs, allocated>>
  BY Facts DEF DeregisterInCallback, Listed, Located, SlotsInv, reg
<1>2. /\ current' \in [Cancellers -> Slot]
      /\ \A u \in Cancellers : current'[u] # None => current'[u] = current[u] /\ current[u] # r
  <2>1. current' = [current EXCEPT ![t] = IF @ = r THEN None ELSE @] /\ pc[t] = "callback"
    BY DEF DeregisterInCallback
  <2>2. \A u \in Cancellers \ {t} : current[u] = None
    BY <2>1 DEF CallsInv, WalkInv, CurrentInv, Walking
  <2> QED BY <2>1, <2>2, Facts DEF Slot
<1>3. CASE TakeOut(r)
  BY <1>1, <1>2, <1>3, TakeOutKeeps, LeavingRegistrant
<1>4. CASE At(place[r]) # r /\ UNCHANGED slots
  <2>1. pc'[r] = "idle" /\ "idle" \in RegistrantPCs
    BY <1>1, Facts DEF Goto, RegistrantPCs
  <2>2. ShapeInv'
    BY <1>1, <1>4 DEF ShapeInv, slots
  <2>3. runs[r] = 1
    BY <1>1, <1>4, Facts DEF Ran
  <2>4. Located(r)' /\ Ran(r)'
    BY <1>1, <2>1 DEF Located, Ran, Listed, Unlisted, Adding
  <2> QED BY <1>1, <1>2, <1>4, <2>1, <2>2, <2>3, <2>4, Facts, QuietRegistrant DEF slots
<1> QED BY <1>3, <1>4 DEF DeregisterInCallback

LEMMA DropTokenStep ==
    ASSUME SlotsInv, CallsInv, NEW r \in Registrants, DropToken(r)
    PROVE  SlotsInv' /\ CallsInv'
<1>1. UNCHANGED <<requested, complete, allocated, entries, free, pc, place, look, pos, current, runs>>
  BY DEF DropToken, slots, walk
<1>2. SlotsInv'
  BY <1>1 DEF SlotsInv, ShapeInv, PlaceInv, SlotInv, Located, Adding, Listed, Valid, At
<1>3. RunInv' /\ WalkInv' /\ CurrentInv' /\ MissedInv'
  <2>1. RunInv'
    BY <1>1 DEF CallsInv, RunInv, Ran, Unlisted, Adding, Listed, At
  <2>2. WalkInv'
    BY <1>1 DEF CallsInv, WalkInv, Walked, Valid
  <2>3. CurrentInv'
    BY <1>1 DEF CallsInv, CurrentInv, Listed
  <2>4. MissedInv'
    BY <1>1 DEF CallsInv, MissedInv, Ahead
  <2> QED BY <2>1, <2>2, <2>3, <2>4
<1> QED BY <1>2, <1>3 DEF CallsInv

-----------------------------------------------------------------------------
\* The steps of a request.

LEMMA BeforeStart == \A s \in Place : Before(<<1, 1, 1>>, s)
<1>1. ASSUME NEW x \in Lists, NEW y \in Nat \ {0}, NEW z \in Nat \ {0}
      PROVE  Before(<<1, 1, 1>>, <<x, y, z>>)
  BY DEF Before, Lists
<1> QED BY <1>1 DEF Place

LEMMA BeforeNext ==
    ASSUME NEW a \in Nat, NEW b \in Nat, NEW c \in Nat, NEW s \in Place,
           Before(<<a, b, c>>, s)
    PROVE  /\ s # <<a, b, c>> => Before(<<a, b, c + 1>>, s)
           /\ s[1] = a /\ s[2] = b => c <= s[3]
           /\ s[1] # a \/ s[2] # b => Before(<<a, b + 1, 1>>, s)
           /\ s[1] # a => Before(<<a + 1, 1, 1>>, s)
           /\ a <= s[1]
<1>1. PICK x \in Lists, y \in Nat \ {0}, z \in Nat \ {0} : s = <<x, y, z>>
  BY DEF Place
<1>2. x \in Nat /\ x > 0
  BY DEF Lists
<1> QED BY <1>1, <1>2 DEF Before

LEMMA BeforeList ==
    ASSUME NEW l \in Nat, NEW s \in Place, Before(<<l, 1, 1>>, s), s[1] # l
    PROVE  Before(<<l + 1, 1, 1>>, s)
<1>1. PICK x \in Lists, y \in Nat \ {0}, z \in Nat \ {0} : s = <<x, y, z>>
  BY DEF Place
<1> QED BY <1>1 DEF Before, Lists

\* What is in a slot has been allocated.
LEMMA Occupied ==
    ASSUME SlotsInv, NEW s \in Place, Valid(s), At(s) # None
    PROVE  At(s) \in Registrants /\ Listed(At(s)) /\ place[At(s)] = s /\ allocated
<1>1. At(s) \in Slot
  BY EntryType DEF SlotsInv, ShapeInv, Valid, At
<1> QED BY <1>1 DEF Slot, SlotsInv, SlotInv, PlaceInv, Located

LEMMA QuietCanceller ==
    ASSUME SlotsInv, CallsInv, NEW t \in Cancellers, NEW at \in CancellerPCs,
           Goto(t, at), UNCHANGED <<entries, free, place, look, allocated, runs>>,
           requested => requested', complete' => requested',
           pos' \in [Cancellers -> Nat \X Nat \X Nat \cup {<<>>}],
           current' \in [Cancellers -> Slot],
           \A u \in Cancellers \ {t} : pos'[u] = pos[u] /\ current'[u] = current[u],
           Walked(t)',
           at \in Walking => ~complete' /\ \A u \in Cancellers \ {t} : pc[u] \notin Walking,
           \A u \in Cancellers \ {t} : pc[u] \in Walking => ~complete',
           current'[t] = None,
           \A s \in Place : requested' /\ Valid(s) /\ At(s) # None
                            /\ (requested => Ahead(t, s)) => Ahead(t, s)'
    PROVE  SlotsInv' /\ CallsInv'
<1>1. Only(None) /\ None \in Slot
  BY OnlyQuiet DEF SlotsInv, Slot
<1>2. ShapeInv'
  BY DEF SlotsInv, ShapeInv
<1>3. runs' \in [Registrants -> {0, 1}] /\ \A p \in Registrants : runs'[p] = runs[p]
  BY DEF CallsInv, RunInv
<1> QED BY <1>1, <1>2, <1>3, CancellerKeeps

LEMMA CancellerFacts ==
    ASSUME SlotsInv, CallsInv, NEW t \in Cancellers
    PROVE  /\ pc \in [Threads -> RegistrantPCs \cup CancellerPCs] /\ t \in Threads
           /\ pos \in [Cancellers -> Nat \X Nat \X Nat \cup {<<>>}]
           /\ current \in [Cancellers -> Slot]
           /\ Walked(t) /\ (complete => requested)
           /\ pc[t] # "callback" => current[t] = None
           /\ \A u \in Cancellers : pc[u] \in Walking => requested /\ ~complete
           /\ pc[t] \in Walking => \A u \in Cancellers \ {t} : pc[u] \notin Walking
BY DEF SlotsInv, PlaceInv, CallsInv, WalkInv, CurrentInv, Walked, Threads

LEMMA RequestSteps ==
    ASSUME SlotsInv, CallsInv, NEW t \in Cancellers,
           Request(t) \/ Finish(t) \/ DropSource(t)
    PROVE  SlotsInv' /\ CallsInv'
<1> USE CancellerFacts
<1>1. UNCHANGED <<entries, free, place, look, allocated, runs, pos, current>>
  BY DEF Request, Finish, DropSource, slots, reg, walk
<1>2. CASE Request(t)
  <2>1. PICK at \in {"returned", "state"} :
            Goto(t, at) /\ (at = "returned" => requested) /\ (at = "state" => ~requested)
    BY <1>2 DEF Request
  <2>2. pc'[t] = at /\ at \in CancellerPCs /\ pc[t] = "source" /\ requested'
        /\ complete' = complete
    BY <1>2, <2>1 DEF Request, Goto, CancellerPCs, Walking
  <2>3. Walked(t)'
    BY <2>2 DEF Walked, Walking
  <2>4. \A s : ~Ahead(t, s) /\ (at = "state" => Ahead(t, s)')
    BY <2>2 DEF Ahead
  <2>5. /\ at \in Walking => ~complete' /\ \A u \in Cancellers \ {t} : pc[u] \notin Walking
        /\ \A u \in Cancellers \ {t} : pc[u] \in Walking => ~complete'
    BY <2>1, <2>2 DEF Walking
  <2> QED BY <1>1, <2>1, <2>2, <2>3, <2>4, <2>5, QuietCanceller
<1>3. CASE Finish(t)
  <2>1. /\ pc[t] = "finish" /\ Goto(t, "returned") /\ requested' = requested /\ requested
        /\ "returned" \in CancellerPCs /\ "returned" \notin Walking /\ pc[t] \in Walking
    BY <1>3 DEF Finish, Walked, Walking, CancellerPCs
  <2>2. pc'[t] = "returned"
    BY <2>1 DEF Goto
  <2>3. Walked(t)'
    BY <2>1, <2>2 DEF Walked
  <2>4. \A s : ~Ahead(t, s)
    BY <2>1 DEF Ahead
  <2> QED BY <1>1, <2>1, <2>3, <2>4, QuietCanceller
<1>4. CASE DropSource(t)
  <2>1. /\ pc[t] \in {"source", "returned"} /\ Goto(t, "gone")
        /\ requested' = requested /\ complete' = complete
        /\ "gone" \in CancellerPCs /\ "gone" \notin Walking
    BY <1>4 DEF DropSource, Walking, CancellerPCs
  <2>2. pc'[t] = "gone"
    BY <2>1 DEF Goto
  <2>3. Walked(t)'
    BY <2>1, <2>2 DEF Walked
  <2>4. \A s : ~Ahead(t, s)
    BY <2>1 DEF Ahead
  <2> QED BY <1>1, <2>1, <2>3, <2>4, QuietCanceller
<1> QED BY <1>2, <1>3, <1>4

\* The walk moves to p, and what is in a slot behind it is None.
LEMMA MoveKeeps ==
    ASSUME SlotsInv, CallsInv, NEW t \in Cancellers, NEW at \in Walking \cup {"returned"},
           pc[t] \in Walking, Goto(t, at), NEW p \in Nat \X Nat \X Nat,
           pos' = [pos EXCEPT ![t] = p],
           UNCHANGED <<entries, free, place, look, allocated, runs, requested, complete>>,
           current' = [current EXCEPT ![t] = None],
           at = "lists" => \E l \in 1..ListCount + 1 : p = <<l, 1, 1>>,
           at \in {"entry", "callback"} => Valid(p),
           at = "nextChunk" =>
               /\ p \in Place /\ p[2] <= Len(entries[p[1]])
               /\ p[3] = Len(entries[p[1]][p[2]]) + 1,
           at # "callback",
           \A s \in Place : Valid(s) /\ At(s) # None /\ Ahead(t, s) =>
               at \in {"lists", "entry", "nextChunk"} /\ Before(p, s)
    PROVE  SlotsInv' /\ CallsInv'
<1> USE CancellerFacts
<1>1. /\ pc'[t] = at /\ pos'[t] = p /\ at \in CancellerPCs
      /\ current'[t] = None /\ current' \in [Cancellers -> Slot]
      /\ pos' \in [Cancellers -> Nat \X Nat \X Nat \cup {<<>>}]
      /\ \A u \in Cancellers \ {t} : pos'[u] = pos[u] /\ current'[u] = current[u]
  BY DEF Goto, CancellerPCs, Slot
<1>2. Walked(t)'
  <2>1. at \in {"entry", "callback"} => Valid(pos[t])'
    BY <1>1 DEF Valid
  <2>2. requested'
    BY DEF Walked
  <2> QED BY <1>1, <2>1, <2>2 DEF Walked
<1>3. \A s \in Place : at \in {"lists", "entry", "nextChunk"} /\ Before(p, s) => Ahead(t, s)'
  BY <1>1 DEF Ahead
<1>4. requested /\ ~complete
  OBVIOUS
<1> QED BY <1>1, <1>2, <1>3, <1>4, QuietCanceller

LEMMA LoadSteps ==
    ASSUME SlotsInv, CallsInv, NEW t \in Cancellers, LoadState(t) \/ LoadList(t)
    PROVE  SlotsInv' /\ CallsInv'
<1> USE CancellerFacts
<1>1. /\ pc[t] \in Walking /\ pc[t] # "callback" /\ current[t] = None
      /\ current' = [current EXCEPT ![t] = None]
      /\ UNCHANGED <<entries, free, place, look, allocated, runs, requested, complete>>
  BY DEF LoadState, LoadList, Walking, slots, reg, walk
<1>2. \A l \in Lists : entries[l] \in Seq(Seq(Slot)) /\ Len(entries[l]) \in Nat
  BY DEF SlotsInv, ShapeInv
<1>3. CASE LoadState(t)
  <2>1. CASE allocated
    <3>1. /\ pos' = [pos EXCEPT ![t] = <<1, 1, 1>>] /\ Goto(t, "lists")
          /\ <<1, 1, 1>> \in Nat \X Nat \X Nat /\ 1 \in 1..ListCount + 1
      BY <1>3, <2>1, Constants DEF LoadState
    <3> QED BY <1>1, <3>1, BeforeStart, MoveKeeps DEF Walking
  <2>2. CASE ~allocated
    <3>1. \A s \in Place : Valid(s) => At(s) = None
      BY <2>2, Occupied
    <3>2. Goto(t, "returned") /\ pos' = pos /\ pc[t] = "state" /\ current' = current
      BY <1>3, <2>2 DEF LoadState
    <3>3. pc'[t] = "returned" /\ "returned" \in CancellerPCs /\ "returned" \notin Walking
      BY <3>2 DEF Goto, CancellerPCs, Walking
    <3>4. Walked(t)'
      BY <1>1, <3>3 DEF Walked
    <3> QED BY <1>1, <3>1, <3>2, <3>3, <3>4, QuietCanceller
  <2> QED BY <2>1, <2>2
<1>4. CASE LoadList(t)
  <2>1. PICK l \in 1..ListCount + 1 : pos[t] = <<l, 1, 1>>
    BY <1>4 DEF LoadList, Walked
  <2>2. pc[t] = "lists" /\ \A s : Ahead(t, s) => Before(<<l, 1, 1>>, s)
    BY <1>4, <2>1 DEF LoadList, Ahead
  <2>3. l \in Nat /\ 1 \in Nat /\ l + 1 \in Nat /\ <<l, 1, 1>> \in Nat \X Nat \X Nat
    BY Constants
  <2>4. CASE l > ListCount
    <3>1. Goto(t, "finish") /\ pos' = pos
      BY <1>4, <2>1, <2>4 DEF LoadList
    <3>2. \A s \in Place : ~Ahead(t, s)
      <4>1. \A s \in Place : s[1] \in 1..ListCount
        BY DEF Place, Lists
      <4>2. ASSUME NEW s \in Place, Ahead(t, s) PROVE FALSE
        <5>1. l <= s[1]
          BY <2>2, <2>3, <4>2, BeforeNext
        <5> QED BY <2>3, <2>4, <4>1, <5>1, Constants
      <4> QED BY <4>2
    <3>3. pos' = [pos EXCEPT ![t] = <<l, 1, 1>>]
      BY <2>1, <3>1
    <3>4. /\ "finish" \in Walking \cup {"returned"}
          /\ "finish" \notin {"lists", "entry", "callback", "nextChunk"}
      BY DEF Walking
    <3>5. PICK p \in Nat \X Nat \X Nat : p = <<l, 1, 1>>
      BY <2>3
    <3>6. pos' = [pos EXCEPT ![t] = p]
      BY <3>3, <3>5
    <3> QED BY <1>1, <3>1, <3>2, <3>4, <3>6, MoveKeeps
  <2>5. CASE l <= ListCount /\ entries[l] = <<>>
    <3>1. pos' = [pos EXCEPT ![t] = <<l + 1, 1, 1>>] /\ pc' = pc
      BY <1>4, <2>1, <2>3, <2>5, Constants DEF LoadList
    <3>2. Goto(t, "lists")
      BY <2>2, <3>1 DEF Goto
    <3>3. \A s \in Place : Valid(s) => s[1] # l
      BY <2>5 DEF Valid, Place
    <3>4. ASSUME NEW s \in Place, Valid(s), Ahead(t, s) PROVE Before(<<l + 1, 1, 1>>, s)
      <4>1. Before(<<l, 1, 1>>, s) /\ s[1] # l
        BY <2>2, <3>3, <3>4
      <4>2. l \in Nat /\ 1 \in Nat
        BY <2>3
      <4> HIDE CancellerFacts
      <4> QED BY <4>1, <4>2, BeforeList
    <3>5. l + 1 \in 1..ListCount + 1 /\ <<l + 1, 1, 1>> \in Nat \X Nat \X Nat
      BY <2>3, <2>5, Constants
    <3> QED BY <1>1, <3>1, <3>2, <3>4, <3>5, MoveKeeps DEF Walking
  <2>6. CASE l <= ListCount /\ entries[l] # <<>>
    <3>1. Goto(t, "entry") /\ pos' = [pos EXCEPT ![t] = <<l, 1, 1>>]
      BY <1>4, <2>1, <2>3, <2>6, Constants DEF LoadList
    <3>2. l \in Lists
      BY <2>6 DEF Lists
    <3>3. Len(entries[l]) > 0
      BY <1>2, <2>6, <3>2, EmptySeq
    <3>4. 1 \in 1..Len(entries[l])
      BY <1>2, <3>2, <3>3
    <3>5. Len(entries[l][1]) > 0 /\ Len(entries[l][1]) \in Nat
      <4>1. entries[l][1] \in Seq(Slot)
        BY <1>2, <3>2, <3>4
      <4>2. Len(entries[l][1]) > 0
        BY <3>2, <3>4 DEF SlotsInv, ShapeInv
      <4> QED BY <4>1, <4>2
    <3>6. Valid(<<l, 1, 1>>)
      <4>1. <<l, 1, 1>> \in Place
        BY <3>2 DEF Place
      <4>2. 1 <= Len(entries[l]) /\ 1 <= Len(entries[l][1])
        BY <1>2, <3>2, <3>4, <3>5
      <4> QED BY <4>1, <4>2 DEF Valid
    <3> QED BY <1>1, <2>2, <2>3, <3>1, <3>6, MoveKeeps DEF Walking
  <2> QED BY <2>3, <2>4, <2>5, <2>6, Constants
<1> QED BY <1>3, <1>4

\* From an entry to the next, or to the end of the chunk.
LEMMA NextEntryKeeps ==
    ASSUME SlotsInv, CallsInv, NEW t \in Cancellers, pc[t] \in {"entry", "callback"},
           NextEntry(t), current' = [current EXCEPT ![t] = None],
           pc[t] = "entry" => At(pos[t]) = None,
           UNCHANGED <<entries, free, place, look, allocated, runs, requested, complete>>
    PROVE  SlotsInv' /\ CallsInv'
<1>1. PICK p \in Place : pos[t] = p /\ Valid(p)
  BY CancellerFacts DEF Walked, Valid
<1>2. PICK a \in Lists, b \in Nat \ {0}, c \in Nat \ {0} : p = <<a, b, c>>
  BY DEF Place
<1>3. a \in Nat /\ b \in Nat /\ c \in Nat /\ b <= Len(entries[a]) /\ c <= Len(entries[a][b])
  BY <1>1, <1>2 DEF Lists, Valid
<1>4. Len(entries[a][b]) \in Nat
  <2>1. entries[a] \in Seq(Seq(Slot)) /\ Len(entries[a]) \in Nat
    BY DEF SlotsInv, ShapeInv
  <2>2. b \in 1..Len(entries[a])
    BY <1>3, <2>1
  <2>3. entries[a][b] \in Seq(Slot)
    BY <2>1, <2>2
  <2> QED BY <2>3
<1> DEFINE n == <<a, b, c + 1>>
           at == IF c < Len(entries[a][b]) THEN "entry" ELSE "nextChunk"
<1>5. pos' = [pos EXCEPT ![t] = n] /\ Goto(t, at)
  <2>1. pos' = [pos EXCEPT ![t] = [p EXCEPT ![3] = p[3] + 1]]
    BY <1>1 DEF NextEntry
  <2>2. [p EXCEPT ![3] = p[3] + 1] = n
    BY <1>2
  <2>3. at = IF pos[t][3] < Len(entries[pos[t][1]][pos[t][2]]) THEN "entry" ELSE "nextChunk"
    BY <1>1, <1>2
  <2>4. pos' = [pos EXCEPT ![t] = n]
    BY <2>1, <2>2
  <2>5. Goto(t, at)
    <3> HIDE DEF at
    <3> QED BY <2>3 DEF NextEntry, Goto
  <2> QED BY <2>4, <2>5
<1>6. n \in Place /\ n \in Nat \X Nat \X Nat
  BY <1>2, <1>3 DEF Place
<1>7. at = "entry" => Valid(n)
  BY <1>3, <1>4, <1>6 DEF Valid
<1>8. at = "nextChunk" => n[3] = Len(entries[a][b]) + 1
  BY <1>3, <1>4
<1>9. ASSUME NEW s \in Place, Valid(s), At(s) # None, Ahead(t, s) PROVE Before(n, s)
  <2>1. Before(p, s) /\ s # p
    BY <1>1, <1>9 DEF Ahead
  <2> QED BY <1>2, <1>3, <2>1, BeforeNext
<1>10. pc[t] \in Walking /\ at \in {"entry", "nextChunk"}
  BY DEF Walking
<1>11. n[1] = a /\ n[2] = b
  OBVIOUS
<1> HIDE DEF n, at
<1>12. PICK x \in Nat \X Nat \X Nat : x = n
  BY <1>6
<1>13. PICK y \in {"entry", "nextChunk"} : y = at
  BY <1>10
<1>14. y \in Walking \cup {"returned"} /\ y \notin {"lists", "callback"}
  BY DEF Walking
<1> QED BY <1>3, <1>5, <1>6, <1>7, <1>8, <1>9, <1>10, <1>11, <1>12, <1>13, <1>14, MoveKeeps

\* The registration that is found is taken out.
LEMMA TakeStep ==
    ASSUME SlotsInv, CallsInv, NEW t \in Cancellers, TakeEntry(t)
    PROVE  SlotsInv' /\ CallsInv'
<1>1. PICK p \in Place : pos[t] = p /\ Valid(p)
  BY CancellerFacts DEF Walked, Valid, TakeEntry
<1>2. /\ pc[t] = "entry" /\ current[t] = None
      /\ UNCHANGED <<free, place, look, allocated, requested, complete>>
  BY CancellerFacts DEF TakeEntry, reg
<1>3. CASE At(p) = None
  <2>1. NextEntry(t) /\ UNCHANGED <<entries, current, runs>>
    BY <1>1, <1>3 DEF TakeEntry
  <2>2. current' = [current EXCEPT ![t] = None]
    BY <1>2, <2>1, CancellerFacts
  <2> QED BY <1>1, <1>2, <1>3, <2>1, <2>2, NextEntryKeeps
<1>4. CASE At(p) # None
  <2>1. PICK r \in Registrants : At(p) = r
    BY <1>1, <1>4, Occupied
  <2>2. /\ entries' = Put(p, None) /\ current' = [current EXCEPT ![t] = r]
        /\ runs' = [runs EXCEPT ![r] = @ + 1] /\ Goto(t, "callback") /\ pos' = pos
    BY <1>1, <1>4, <2>1 DEF TakeEntry
  <2>3. Listed(r) /\ place[r] = p /\ Ran(r)
    BY <1>1, <1>4, <2>1, Occupied, Facts
  <2>4. runs[r] = 0 /\ runs'[r] = 1 /\ runs' \in [Registrants -> {0, 1}]
        /\ \A q \in Registrants \ {r} : runs'[q] = runs[q]
    BY <2>1, <2>2, <2>3, Facts DEF Ran
  <2>5. /\ Only(r)
        /\ \A u \in Place : Valid(u)' /\ At(u)' = r => u # p /\ Valid(u) /\ At(u) = r
    BY <1>1, <2>1, <2>2, PutEmptied DEF SlotsInv
  <2>6. \A u \in Place : Valid(u)' => At(u)' # r
    BY <2>1, <2>3, <2>5, Constants DEF SlotsInv, SlotInv
  <2>7. ShapeInv'
    <3>1. None \in Slot
      BY DEF Slot
    <3>2. /\ entries' \in [Lists -> Seq(Seq(Slot))]
          /\ \A l \in Lists :
                /\ Len(entries'[l]) = Len(entries[l])
                /\ \A c \in 1..Len(entries[l]) : Len(entries'[l][c]) = Len(entries[l][c])
      BY <1>1, <2>2, <3>1, PutSlot DEF SlotsInv
    <3> QED BY <1>2, <3>2 DEF SlotsInv, ShapeInv
  <2>8. pc'[t] = "callback" /\ "callback" \in Walking /\ "callback" \in CancellerPCs
    BY <2>2, CancellerFacts DEF Goto, Walking, CancellerPCs
  <2>9. Walked(t)'
    <3>1. Valid(p)'
      BY <1>1, <2>5 DEF Only
    <3>2. Valid(pos[t])'
      BY <1>1, <2>2, <3>1 DEF Valid
    <3>3. requested'
      BY <1>2, CancellerFacts DEF Walking
    <3> QED BY <2>8, <3>2, <3>3 DEF Walked
  <2>10. Ran(r)'
    <3>1. pc'[r] = pc[r]
      BY <2>2, Facts, CancellerFacts, Constants DEF Goto
    <3>2. requested'
      BY <1>2, CancellerFacts DEF Walking
    <3>3. At(place[r])' # r
      BY <1>1, <1>2, <2>3, <2>5, <2>6, Facts DEF Only
    <3> QED BY <2>3, <2>4, <3>1, <3>2, <3>3 DEF Ran, Listed, Unlisted, Adding
  <2>11. /\ pc[t] \in Walking /\ requested /\ ~complete
         /\ \A u \in Cancellers \ {t} : pc[u] \notin Walking
    BY <1>2, CancellerFacts DEF Walking
  <2>12. \A s \in Place : At(s) # r /\ Valid(s) /\ Ahead(t, s) => Ahead(t, s)'
    BY <1>1, <1>2, <2>1, <2>2, <2>8 DEF Ahead
  <2>13. /\ current' \in [Cancellers -> Slot] /\ current'[t] = r
         /\ \A u \in Cancellers \ {t} : current'[u] = current[u]
         /\ pos' \in [Cancellers -> Nat \X Nat \X Nat \cup {<<>>}] /\ r \in Slot
    BY <2>2, CancellerFacts DEF Slot
  <2> QED BY <1>2, <2>2, <2>3, <2>4, <2>5, <2>6, <2>7, <2>8, <2>9, <2>10, <2>11, <2>12, <2>13,
             CancellerKeeps
<1> QED BY <1>3, <1>4

LEMMA NextChunkStep ==
    ASSUME SlotsInv, CallsInv, NEW t \in Cancellers, NextChunk(t)
    PROVE  SlotsInv' /\ CallsInv'
<1>1. PICK p \in Place : /\ pos[t] = p /\ p[2] <= Len(entries[p[1]])
                         /\ p[3] = Len(entries[p[1]][p[2]]) + 1
  BY CancellerFacts DEF Walked, NextChunk
<1>2. PICK a \in Lists, b \in Nat \ {0}, c \in Nat \ {0} : p = <<a, b, c>>
  BY DEF Place
<1>3. /\ a \in Nat /\ b \in Nat /\ c \in Nat /\ a <= ListCount
      /\ b <= Len(entries[a]) /\ c = Len(entries[a][b]) + 1
      /\ Len(entries[a]) \in Nat /\ entries[a] \in Seq(Seq(Slot))
  BY <1>1, <1>2 DEF Lists, SlotsInv, ShapeInv
<1>4. Len(entries[a][b]) \in Nat
  <2>1. b \in 1..Len(entries[a])
    BY <1>3
  <2>2. entries[a][b] \in Seq(Slot)
    BY <1>3, <2>1
  <2> QED BY <2>2
<1>5. /\ pc[t] = "nextChunk" /\ current[t] = None
      /\ UNCHANGED <<entries, free, place, look, allocated, runs, requested, complete, current>>
  BY CancellerFacts DEF NextChunk, slots, reg
<1>6. current' = [current EXCEPT ![t] = None]
  BY <1>5, CancellerFacts
<1>7. ASSUME NEW s \in Place, Valid(s), Ahead(t, s)
      PROVE  /\ Before(<<a, b + 1, 1>>, s)
             /\ b = Len(entries[a]) => Before(<<a + 1, 1, 1>>, s)
  <2>1. Before(<<a, b, c>>, s)
    BY <1>1, <1>2, <1>5, <1>7 DEF Ahead
  <2>2. PICK x \in Lists, y \in Nat \ {0}, z \in Nat \ {0} : s = <<x, y, z>>
    BY DEF Place
  <2>3. y <= Len(entries[x]) /\ z <= Len(entries[x][y]) /\ x \in Nat
    BY <1>7, <2>2 DEF Valid, Lists
  <2>4. ~(x = a /\ y = b)
    BY <1>3, <1>4, <2>1, <2>2, <2>3 DEF Before
  <2>5. a < x \/ (x = a /\ b < y)
    BY <1>3, <2>1, <2>2, <2>3, <2>4 DEF Before
  <2>6. Before(<<a, b + 1, 1>>, s)
    BY <1>3, <2>2, <2>3, <2>5 DEF Before
  <2>7. ASSUME b = Len(entries[a]) PROVE Before(<<a + 1, 1, 1>>, s)
    <3>1. a < x
      BY <1>3, <2>3, <2>5, <2>7
    <3> QED BY <1>3, <2>2, <2>3, <3>1 DEF Before
  <2> QED BY <2>6, <2>7
<1>8. CASE b < Len(entries[a])
  <2>1. pos' = [pos EXCEPT ![t] = <<a, b + 1, 1>>] /\ Goto(t, "entry")
    BY <1>1, <1>2, <1>8 DEF NextChunk
  <2>2. Valid(<<a, b + 1, 1>>) /\ <<a, b + 1, 1>> \in Nat \X Nat \X Nat
    <3>1. b + 1 \in 1..Len(entries[a]) /\ b + 1 \in Nat \ {0}
      BY <1>3, <1>8
    <3>2. entries[a][b + 1] \in Seq(Slot)
      BY <1>3, <3>1
    <3>3. Len(entries[a][b + 1]) > 0
      BY <3>1 DEF SlotsInv, ShapeInv
    <3>4. 1 <= Len(entries[a][b + 1])
      BY <3>2, <3>3
    <3>5. 1 \in Nat \ {0} /\ b + 1 \in Nat
      BY <1>3
    <3>6. <<a, b + 1, 1>> \in Place /\ <<a, b + 1, 1>> \in Nat \X Nat \X Nat
      BY <1>3, <3>1, <3>5 DEF Place
    <3> QED BY <3>1, <3>4, <3>6 DEF Valid
  <2>3. PICK q \in Nat \X Nat \X Nat : q = <<a, b + 1, 1>>
    BY <2>2
  <2> QED BY <1>5, <1>6, <1>7, <2>1, <2>2, <2>3, MoveKeeps DEF Walking
<1>9. CASE b = Len(entries[a])
  <2>1. pos' = [pos EXCEPT ![t] = <<a + 1, 1, 1>>] /\ Goto(t, "lists")
    BY <1>1, <1>2, <1>3, <1>9 DEF NextChunk
  <2>2. PICK q \in Nat \X Nat \X Nat : q = <<a + 1, 1, 1>>
    <3>1. a + 1 \in Nat /\ 1 \in Nat
      BY <1>3
    <3> QED BY <3>1
  <2>3. a + 1 \in 1..ListCount + 1
    BY <1>3, Constants
  <2> QED BY <1>5, <1>6, <1>7, <1>9, <2>1, <2>2, <2>3, MoveKeeps DEF Walking
<1> QED BY <1>3, <1>8, <1>9

LEMMA CallbackReturnStep ==
    ASSUME SlotsInv, CallsInv, NEW t \in Cancellers, CallbackReturn(t)
    PROVE  SlotsInv' /\ CallsInv'
BY NextEntryKeeps DEF CallbackReturn, slots, reg

LEMMA Quiet ==
    ASSUME SlotsInv, CallsInv, UNCHANGED vars
    PROVE  SlotsInv' /\ CallsInv'
<1> USE DEF vars
<1>1. SlotsInv'
  BY DEF SlotsInv, ShapeInv, PlaceInv, SlotInv, Located, Adding, Listed, Valid, At
<1>2. RunInv' /\ WalkInv' /\ CurrentInv' /\ MissedInv'
  <2>1. RunInv'
    BY DEF CallsInv, RunInv, Ran, Unlisted, Adding, Listed, At
  <2>2. WalkInv'
    BY DEF CallsInv, WalkInv, Walked, Valid
  <2>3. CurrentInv'
    BY DEF CallsInv, CurrentInv, Listed
  <2>4. MissedInv'
    BY DEF CallsInv, MissedInv, Ahead
  <2> QED BY <2>1, <2>2, <2>3, <2>4
<1> QED BY <1>1, <1>2 DEF CallsInv

LEMMA SlotsAndCalls ==
    ASSUME SlotsInv, CallsInv, [Next]_vars
    PROVE  SlotsInv' /\ CallsInv'
<1>1. ASSUME NEW r \in Registrants,
             Registrant(r) \/ Register(r) \/ Deregister(r) \/ DropToken(r)
      PROVE  SlotsInv' /\ CallsInv'
  BY <1>1, StartSteps, AppendSteps, LookSteps, TryStep, EndSteps, LeaveSteps, WaitStep,
     DropTokenStep DEF Registrant
<1>2. ASSUME NEW t \in Cancellers, Canceller(t) \/ Request(t) \/ DropSource(t)
      PROVE  SlotsInv' /\ CallsInv'
  BY <1>2, LoadSteps, TakeStep, CallbackReturnStep, NextChunkStep, RequestSteps DEF Canceller
<1> QED BY <1>1, <1>2, CallbackSteps, Quiet DEF Next

-----------------------------------------------------------------------------
\* The references: one for each source, token and registration.

Present == {t \in Cancellers : pc[t] # "gone"}
Holders == {r \in Registrants : holds[r]}
Active == {r \in Registrants : pc[r] # "idle"}

LEMMA Counts ==
    /\ IsFiniteSet(Present) /\ Cardinality(Present) \in Nat
    /\ IsFiniteSet(Holders) /\ Cardinality(Holders) \in Nat
    /\ IsFiniteSet(Active) /\ Cardinality(Active) \in Nat
<1>1. /\ Present \in SUBSET Cancellers /\ Holders \in SUBSET Registrants
      /\ Active \in SUBSET Registrants
  BY DEF Present, Holders, Active
<1>2. IsFiniteSet(Present) /\ IsFiniteSet(Holders) /\ IsFiniteSet(Active)
  BY <1>1, CancellationAssumption, FS_Subset
<1> QED BY <1>2, FS_CardinalityType

LEMMA OneLess ==
    ASSUME NEW S, IsFiniteSet(S), NEW x \in S
    PROVE  /\ Cardinality(S \ {x}) = Cardinality(S) - 1
           /\ Cardinality(S) \in Nat \ {0}
<1>1. Cardinality(S \ {x}) = Cardinality(S) - 1
  BY FS_RemoveElement
<1>2. Cardinality(S) \in Nat /\ Cardinality(S) # 0
  BY FS_CardinalityType, FS_EmptySet
<1> QED BY <1>1, <1>2

\* Steps that leave the references alone.
LEMMA SameReferences ==
    ASSUME ReferenceInv, UNCHANGED <<refs, holds>>,
           \A t \in Cancellers : pc'[t] = "gone" <=> pc[t] = "gone",
           \A r \in Registrants : pc'[r] = "idle" <=> pc[r] = "idle"
    PROVE  ReferenceInv'
BY DEF ReferenceInv, refs

LEMMA ReferenceStart ==
    ASSUME SlotsInv, CallsInv, ReferenceInv, NEW r \in Registrants, Register(r)
    PROVE  ReferenceInv'
<1>1. /\ pc[r] = "idle" /\ r \in Holders /\ r \notin Active
      /\ UNCHANGED <<sources, deleted>> /\ holds \in [Registrants -> BOOLEAN]
  BY DEF Register, Holders, Active, ReferenceInv
<1>2. /\ pc'[r] = "canCancel" /\ \A p \in Registrants \ {r} : pc'[p] = pc[p]
      /\ \A t \in Cancellers : pc'[t] = pc[t]
  BY Facts, Constants DEF Register, Goto, Threads
<1>3. Active' = Active \cup {r} /\ Present' = Present
  BY <1>2 DEF Active, Present
<1>4. Cardinality(Active') = Cardinality(Active) + 1
  BY <1>1, <1>3, Counts, FS_AddElement
<1>5. /\ Cardinality(Holders) \in Nat \ {0} /\ Cardinality(Active) \in Nat
      /\ tokens = Cardinality(Holders) + Cardinality(Active)
      /\ Cardinality(Holders \ {r}) = Cardinality(Holders) - 1
  BY <1>1, Counts, OneLess DEF ReferenceInv, Holders, Active
<1>6. ~deleted /\ sources = Cardinality(Present)
  BY <1>5 DEF ReferenceInv, Present
<1>7. CASE tokens' = tokens + 1 /\ UNCHANGED holds
  <2>1. Holders' = Holders
    BY <1>7 DEF Holders
  <2>2. tokens' = Cardinality(Holders') + Cardinality(Active') /\ tokens' # 0
    BY <1>4, <1>5, <1>7, <2>1
  <2> QED BY <1>1, <1>3, <1>6, <1>7, <2>2 DEF ReferenceInv, Holders, Active, Present
<1>8. CASE holds' = [holds EXCEPT ![r] = FALSE] /\ UNCHANGED tokens
  <2>1. Holders' = Holders \ {r} /\ holds' \in [Registrants -> BOOLEAN]
    BY <1>1, <1>8 DEF Holders
  <2>2. tokens' = Cardinality(Holders') + Cardinality(Active') /\ tokens' # 0
    BY <1>4, <1>5, <1>8, <2>1
  <2> QED BY <1>1, <1>3, <1>6, <1>8, <2>1, <2>2 DEF ReferenceInv, Holders, Active, Present
<1> QED BY <1>7, <1>8 DEF Register

\* The reference of a registration, or of a token, is released.
LEMMA ReferenceEnd ==
    ASSUME SlotsInv, CallsInv, ReferenceInv, ReleaseTokenRef, NEW r \in Registrants,
           holds' \in [Registrants -> BOOLEAN],
           \A t \in Cancellers : pc'[t] = "gone" <=> pc[t] = "gone",
           \/ r \in Active /\ Active' = Active \ {r} /\ Holders' = Holders
           \/ r \in Holders /\ Holders' = Holders \ {r} /\ Active' = Active
    PROVE  ReferenceInv'
<1>1. Present' = Present
  BY DEF Present
<1>2. /\ tokens = Cardinality(Holders) + Cardinality(Active)
      /\ sources = Cardinality(Present) /\ (deleted <=> sources = 0 /\ tokens = 0)
      /\ Cardinality(Holders) \in Nat /\ Cardinality(Active) \in Nat
      /\ Cardinality(Present) \in Nat
  BY Counts DEF ReferenceInv, Holders, Active, Present
<1>3. tokens - 1 = Cardinality(Holders') + Cardinality(Active') /\ tokens # 0
  <2>1. CASE r \in Active /\ Active' = Active \ {r} /\ Holders' = Holders
    <3>1. Cardinality(Active') = Cardinality(Active) - 1 /\ Cardinality(Active) \in Nat \ {0}
      BY <2>1, Counts, OneLess
    <3> QED BY <1>2, <2>1, <3>1
  <2>2. CASE r \in Holders /\ Holders' = Holders \ {r} /\ Active' = Active
    <3>1. Cardinality(Holders') = Cardinality(Holders) - 1 /\ Cardinality(Holders) \in Nat \ {0}
      BY <2>2, Counts, OneLess
    <3> QED BY <1>2, <2>2, <3>1
  <2> QED BY <2>1, <2>2
<1>4. tokens \in Nat /\ sources \in Nat
  BY <1>2
<1>5. /\ tokens' = tokens - 1 /\ sources' = sources
      /\ deleted' = (deleted \/ (tokens = 1 /\ sources = 0))
  BY DEF ReleaseTokenRef
<1>6. deleted' \in BOOLEAN /\ (deleted' <=> sources' = 0 /\ tokens' = 0)
  <2>1. tokens' = 0 <=> tokens = 1
    BY <1>4, <1>5
  <2>2. deleted \in BOOLEAN
    BY DEF ReferenceInv
  <2> QED BY <1>2, <1>3, <1>5, <2>1, <2>2
<1> QED BY <1>1, <1>2, <1>3, <1>5, <1>6 DEF ReferenceInv, Holders, Active, Present

LEMMA ReferenceSource ==
    ASSUME SlotsInv, CallsInv, ReferenceInv, NEW t \in Cancellers, DropSource(t)
    PROVE  ReferenceInv'
<1>1. /\ t \in Present /\ Present' = Present \ {t}
      /\ \A r \in Registrants : pc'[r] = pc[r]
  BY CancellerFacts, Constants DEF DropSource, Goto, Present, Threads
<1>2. Active' = Active /\ Holders' = Holders /\ holds' = holds /\ tokens' = tokens
  BY <1>1 DEF Active, Holders, DropSource, reg, ReleaseSourceRef
<1>3. /\ Cardinality(Present') = Cardinality(Present) - 1
      /\ Cardinality(Present) \in Nat \ {0}
  BY <1>1, Counts, OneLess
<1>4. /\ sources = Cardinality(Present) /\ (deleted <=> sources = 0 /\ tokens = 0)
      /\ sources' = sources - 1 /\ deleted' = (deleted \/ (sources = 1 /\ tokens = 0))
  BY DEF ReferenceInv, Present, DropSource, ReleaseSourceRef
<1>5. sources' = Cardinality(Present') /\ sources # 0 /\ (sources' = 0 <=> sources = 1)
  BY <1>3, <1>4
<1>6. deleted' \in BOOLEAN /\ (deleted' <=> sources' = 0 /\ tokens' = 0)
  <2>1. deleted \in BOOLEAN
    BY DEF ReferenceInv
  <2> QED BY <1>2, <1>4, <1>5, <2>1
<1> QED BY <1>1, <1>2, <1>5, <1>6 DEF ReferenceInv, Holders, Active, Present

LEMMA ReferenceStep ==
    ASSUME SlotsInv, CallsInv, ReferenceInv, [Next]_vars
    PROVE  ReferenceInv'
<1>1. ASSUME NEW r \in Registrants, NEW at \in RegistrantPCs \ {"idle"}, pc[r] # "idle",
             pc' = [pc EXCEPT ![r] = at], UNCHANGED <<refs, holds>>
      PROVE  ReferenceInv'
  <2>1. \A p \in Registrants : pc'[p] = "idle" <=> pc[p] = "idle"
    BY <1>1, Facts
  <2>2. \A t \in Cancellers : pc'[t] = pc[t]
    BY <1>1, Facts, Constants DEF Threads
  <2> QED BY <1>1, <2>1, <2>2, SameReferences
<1>2. ASSUME NEW t \in Cancellers, NEW at \in CancellerPCs \ {"gone"}, pc[t] # "gone",
             pc' = [pc EXCEPT ![t] = at], UNCHANGED <<refs, holds>>
      PROVE  ReferenceInv'
  <2>1. \A u \in Cancellers : pc'[u] = "gone" <=> pc[u] = "gone"
    BY <1>2, CancellerFacts
  <2>2. \A p \in Registrants : pc'[p] = pc[p]
    BY <1>2, CancellerFacts, Constants DEF Threads
  <2> QED BY <1>2, <2>1, <2>2, SameReferences
<1>3. ASSUME UNCHANGED <<refs, holds, pc>> PROVE ReferenceInv'
  BY <1>3, SameReferences
<1>4. ASSUME NEW r \in Registrants,
             \/ CanBeCancelled(r) \/ CheckRequested(r) \/ AllocateState(r)
             \/ FindList(r) \/ FindTail(r) \/ LookAtCount(r) \/ TrySlot(r) \/ AppendChunk(r)
             \/ Recheck(r) \/ Unslot(r) \/ SelfCall(r) \/ Wait(r) \/ Deregister(r)
      PROVE  ReferenceInv'
  <2>1. pc[r] # "idle" /\ UNCHANGED <<refs, holds>>
    BY <1>4 DEF CanBeCancelled, CheckRequested, AllocateState, FindList, FindTail, LookAtCount,
                TrySlot, AppendChunk, Recheck, Unslot, SelfCall, Wait, Deregister, reg
  <2>2. \/ pc' = pc
        \/ \E at \in RegistrantPCs \ {"idle"} : pc' = [pc EXCEPT ![r] = at]
    BY <1>4 DEF CanBeCancelled, CheckRequested, AllocateState, FindList, FindTail, LookAtCount,
                TrySlot, AppendChunk, Recheck, Unslot, SelfCall, Wait, Deregister, PreviousChunk,
                Goto, RegistrantPCs
  <2> QED BY <1>1, <1>3, <2>1, <2>2
<1>5. ASSUME NEW t \in Cancellers, Canceller(t) \/ Request(t) PROVE ReferenceInv'
  <2>1. pc[t] # "gone" /\ UNCHANGED <<refs, holds>>
    BY <1>5 DEF Canceller, LoadState, LoadList, TakeEntry, CallbackReturn, NextChunk, Finish,
                Request, reg
  <2>2. \/ pc' = pc
        \/ \E at \in CancellerPCs \ {"gone"} : pc' = [pc EXCEPT ![t] = at]
    BY <1>5 DEF Canceller, LoadState, LoadList, TakeEntry, CallbackReturn, NextChunk, Finish,
                Request, NextEntry, Goto, CancellerPCs, Walking
  <2> QED BY <1>2, <1>3, <2>1, <2>2
<1>6. ASSUME NEW r \in Registrants, DropToken(r) PROVE ReferenceInv'
  <2>1. /\ r \in Holders /\ ReleaseTokenRef /\ pc' = pc
        /\ holds \in [Registrants -> BOOLEAN] /\ holds' = [holds EXCEPT ![r] = FALSE]
    BY <1>6 DEF DropToken, Holders, ReferenceInv
  <2>2. Holders' = Holders \ {r} /\ Active' = Active /\ holds' \in [Registrants -> BOOLEAN]
    BY <2>1 DEF Holders, Active
  <2> QED BY <2>1, <2>2, ReferenceEnd
<1>7. ASSUME NEW r \in Registrants, pc[r] # "idle", Goto(r, "idle"), ReleaseTokenRef,
             UNCHANGED holds
      PROVE  ReferenceInv'
  <2>1. /\ r \in Active /\ Active' = Active \ {r} /\ Holders' = Holders
        /\ holds' \in [Registrants -> BOOLEAN]
    BY <1>7, Facts DEF Goto, Active, Holders, ReferenceInv
  <2>2. \A t \in Cancellers : pc'[t] = pc[t]
    BY <1>7, Facts, Constants DEF Goto, Threads
  <2> QED BY <1>7, <2>1, <2>2, ReferenceEnd
<1>8. ASSUME NEW r \in Registrants, Release(r) PROVE ReferenceInv'
  BY <1>7, <1>8 DEF Release, reg
<1>9. ASSUME NEW t \in Cancellers, NEW r \in Registrants, DeregisterInCallback(t, r)
      PROVE  ReferenceInv'
  BY <1>7, <1>9 DEF DeregisterInCallback, reg
<1>10. CASE UNCHANGED vars
  BY <1>3, <1>10 DEF vars, refs
<1> QED BY <1>4, <1>5, <1>6, <1>8, <1>9, <1>10, ReferenceStart, ReferenceSource
        DEF Next, Registrant

-----------------------------------------------------------------------------

LEMMA InitCancelInv == Init => CancelInv
<1> SUFFICES ASSUME Init PROVE CancelInv
  OBVIOUS
<1>1. /\ pc \in [Threads -> RegistrantPCs \cup CancellerPCs]
      /\ \A r \in Registrants : pc[r] = "idle"
      /\ \A t \in Cancellers : pc[t] = "source"
  BY Constants DEF Init, Threads, RegistrantPCs, CancellerPCs
<1>2. ShapeInv /\ \A l \in Lists : entries[l] = <<>>
  BY DEF Init, ShapeInv
<1>3. PlaceInv
  BY <1>1 DEF Init, PlaceInv, Located, Adding, Listed, RegistrantPCs
<1>4. SlotInv
  <2>1. \A s \in Place : ~Valid(s)
    BY <1>2 DEF Valid, Place
  <2> QED BY <2>1 DEF SlotInv
<1>5. RunInv
  BY <1>1 DEF Init, RunInv, Ran, Unlisted, Adding, Listed
<1>6. WalkInv
  BY <1>1 DEF Init, WalkInv, Walked, Walking, CancellerPCs
<1>7. CurrentInv /\ MissedInv
  BY DEF Init, CurrentInv, MissedInv, Slot
<1>8. ReferenceInv
  <2>1. {t \in Cancellers : pc[t] # "gone"} = Cancellers
    BY <1>1
  <2>2. /\ {r \in Registrants : holds[r]} = Registrants
        /\ {r \in Registrants : pc[r] # "idle"} = {}
    BY <1>1 DEF Init
  <2>3. /\ holds \in [Registrants -> BOOLEAN] /\ deleted = FALSE
        /\ sources = Cardinality(Cancellers) /\ tokens = Cardinality(Registrants)
    BY DEF Init
  <2>4. Cardinality(Registrants) \in Nat /\ Cardinality({}) = 0
    BY CancellationAssumption, FS_CardinalityType, FS_EmptySet
  <2>5. tokens = Cardinality(Registrants) + Cardinality({})
    BY <2>3, <2>4
  <2>6. sources # 0
    BY <2>3, CancellationAssumption, FS_EmptySet
  <2> QED BY <2>1, <2>2, <2>3, <2>5, <2>6 DEF ReferenceInv
<1> QED BY <1>2, <1>3, <1>4, <1>5, <1>6, <1>7, <1>8 DEF CancelInv, SlotsInv, CallsInv

LEMMA StepCancelInv == CancelInv /\ [Next]_vars => CancelInv'
BY SlotsAndCalls, ReferenceStep DEF CancelInv

LEMMA InvSlots == CancelInv => SlotsPointBack
<1> SUFFICES ASSUME CancelInv, NEW l \in Lists, NEW c \in DOMAIN entries[l],
                    NEW e \in DOMAIN entries[l][c], entries[l][c][e] # None
             PROVE  Listed(entries[l][c][e]) /\ place[entries[l][c][e]] = <<l, c, e>>
  BY DEF SlotsPointBack
<1>1. entries[l] \in Seq(Seq(Slot)) /\ c \in 1..Len(entries[l]) /\ Len(entries[l]) \in Nat
  BY DEF CancelInv, SlotsInv, ShapeInv
<1>2. entries[l][c] \in Seq(Slot) /\ e \in 1..Len(entries[l][c]) /\ Len(entries[l][c]) \in Nat
  <2>1. entries[l][c] \in Seq(Slot)
    BY <1>1
  <2> QED BY <2>1
<1>3. <<l, c, e>> \in Place
  BY <1>1, <1>2 DEF Place
<1>4. Valid(<<l, c, e>>) /\ At(<<l, c, e>>) = entries[l][c][e]
  BY <1>1, <1>2, <1>3 DEF Valid, At
<1> QED BY <1>3, <1>4 DEF CancelInv, SlotsInv, SlotInv

LEMMA InvCalls == CancelInv => CalledOnceInTime
<1> SUFFICES ASSUME CancelInv PROVE CalledOnceInTime
  OBVIOUS
<1>1. \A r \in Registrants : runs[r] <= 1 /\ (runs[r] = 1 => requested)
  BY DEF CancelInv, CallsInv, RunInv, Ran
<1>2. \A t \in Cancellers : current[t] # None => Listed(current[t])
  BY DEF CancelInv, CallsInv, CurrentInv
<1> QED BY <1>1, <1>2 DEF CalledOnceInTime

LEMMA InvMissed == CancelInv => NobodyMissed
<1> SUFFICES ASSUME CancelInv, requested,
                    \A t \in Cancellers : pc[t] \in {"source", "returned", "gone"},
                    NEW r \in Registrants, pc[r] \in {"registered", "wait"}, runs[r] # 1
             PROVE  FALSE
  BY DEF NobodyMissed
<1>1. runs[r] = 0 /\ pc[r] = "registered"
  BY DEF CancelInv, CallsInv, RunInv, Ran
<1>2. PICK t \in Cancellers : Ahead(t, place[r])
  BY <1>1 DEF CancelInv, CallsInv, MissedInv
<1> QED BY <1>2 DEF Ahead

LEMMA InvDeleted == CancelInv => DeletedLast
<1> SUFFICES ASSUME CancelInv PROVE DeletedLast
  OBVIOUS
<1>1. /\ sources = Cardinality(Present)
      /\ tokens = Cardinality(Holders) + Cardinality(Active)
      /\ deleted \in BOOLEAN /\ (deleted <=> sources = 0 /\ tokens = 0)
  BY DEF CancelInv, ReferenceInv, Present, Holders, Active
<1>2. sources = 0 <=> Present = {}
  BY <1>1, Counts, FS_EmptySet
<1>3. tokens = 0 <=> Holders = {} /\ Active = {}
  <2>1. tokens = 0 <=> Cardinality(Holders) = 0 /\ Cardinality(Active) = 0
    BY <1>1, Counts
  <2> QED BY <2>1, Counts, FS_EmptySet
<1>4. Present = {} <=> \A t \in Cancellers : pc[t] = "gone"
  BY DEF Present
<1>5. Holders = {} /\ Active = {} <=> \A r \in Registrants : pc[r] = "idle" /\ ~holds[r]
  BY DEF Holders, Active
<1> QED BY <1>1, <1>2, <1>3, <1>4, <1>5 DEF DeletedLast

\* For any threads, lists and chunks: what is in a slot is a registration that
\* will look for itself right there, whoever publishes, claims and frees slots
\* meanwhile.
THEOREM SlotSafety == Spec => []SlotsPointBack
BY InitCancelInv, StepCancelInv, InvSlots, PTL DEF Spec

\* For any threads: a callback is called once at most, not before cancellation
\* is requested, and not after its registration is gone.
THEOREM CallSafety == Spec => []CalledOnceInTime
BY InitCancelInv, StepCancelInv, InvCalls, PTL DEF Spec

\* For any threads: a registration that is there when a request for
\* cancellation has ended has had its callback called, also if it came while
\* the request was walking over the slots.
THEOREM NotificationSafety == Spec => []NobodyMissed
BY InitCancelInv, StepCancelInv, InvMissed, PTL DEF Spec

\* Both, of any threads, lists and chunks.
THEOREM RegistrationSafety == Spec => []RegistrationsAreServed
<1>1. SlotsPointBack /\ NobodyMissed => RegistrationsAreServed
  BY DEF RegistrationsAreServed
<1> QED BY SlotSafety, NotificationSafety, <1>1, PTL

\* For any threads: the state is deleted with the last reference to it, and
\* then no thread is in a call on it.
THEOREM DeletionSafety == Spec => []DeletedLast
BY InitCancelInv, StepCancelInv, InvDeleted, PTL DEF Spec

=============================================================================
