---------------------------- MODULE Ipv6Address ----------------------------
(***************************************************************************)
(* coro::net::ipv6_address: from_string() and to_string().  A text is a    *)
(* sequence of tokens: a colon, a group of one to four hexadecimal digits  *)
(* (its value), or a dotted decimal (the values of its two parts).         *)
(* Anything else in a text, a longer group or a number above 255 included, *)
(* ends from_string() at once and is left out.  A behaviour edits a text,  *)
(* beginning with nothing or with what to_string() makes of an address.    *)
(***************************************************************************)
EXTENDS Integers, Sequences, SequencesExt, FiniteSets

CONSTANTS
    Values,        \* the values of a part, some of 0..65535, with 0
    MaxLength      \* bound: tokens of a text

VARIABLE text

Colon == [is |-> ":"]
Group(v) == [is |-> "group", value |-> v]
Dotted(v, w) == [is |-> "dotted", high |-> v, low |-> w]
DoubleColon == <<Colon, Colon>>

Addresses == [1..8 -> Values]
NoAddress == <<>>

From(s, i) == SubSeq(s, i, Len(s))

\* Mutant: eight parts and a "::" between them are taken for an address.
Complete_Full(parts, doubleColon) ==
    LET gap == 8 - Len(parts)
    IN  IF gap > 0 /\ doubleColon = -1 THEN NoAddress
        ELSE [i \in 1..8 |-> IF i <= doubleColon \/ gap = 0 THEN parts[i]
                             ELSE IF i <= doubleColon + gap THEN 0
                             ELSE parts[i - gap]]

\* The end of from_string(): parts after the double colon move to the end and
\* zeroes fill the gap.
Complete(parts, doubleColon) ==
    LET gap == 8 - Len(parts)
    IN  IF (gap = 0) # (doubleColon = -1) THEN NoAddress
        ELSE [i \in 1..8 |-> IF i <= doubleColon \/ gap = 0 THEN parts[i]
                             ELSE IF i <= doubleColon + gap THEN 0
                             ELSE parts[i - gap]]

\* The loop of from_string() on what is left of a text, with the parts read
\* so far and how many of them there were before "::", or -1.
RECURSIVE Read(_, _, _)
Read(s, parts, doubleColon) ==
    IF s = <<>> \/ Len(parts) = 8
    THEN IF s = <<>> THEN Complete(parts, doubleColon) ELSE NoAddress
    ELSE CASE s[1].is = ":" -> NoAddress
           [] s[1].is = "dotted" ->
                IF Len(parts) > 6 \/ Len(s) > 1 THEN NoAddress
                ELSE Complete(parts \o <<s[1].high, s[1].low>>, doubleColon)
           [] s[1].is = "group" ->
                LET now == Append(parts, s[1].value)
                IN  IF Len(s) = 1 THEN Read(<<>>, now, doubleColon)
                    ELSE IF Len(s) = 2 THEN NoAddress
                    ELSE IF s[3] # Colon THEN Read(From(s, 3), now, doubleColon)
                    ELSE IF doubleColon # -1 THEN NoAddress
                    ELSE Read(From(s, 4), now, Len(now))

\* from_string()
FromString(s) ==
    IF s = <<>> THEN NoAddress
    ELSE IF IsPrefix(DoubleColon, s) THEN Read(From(s, 3), <<>>, 0)
    ELSE Read(s, <<>>, -1)

Groups(parts) ==
    [i \in 1..(IF parts = <<>> THEN 0 ELSE 2 * Len(parts) - 1) |->
        IF i % 2 = 1 THEN Group(parts[(i + 1) \div 2]) ELSE Colon]

\* The runs of zero parts, and the one that is contracted: the first of the
\* longest.
ZeroRuns(a) == {r \in (1..8) \X (2..8) : r[1] + r[2] <= 9
                   /\ \A i \in r[1]..(r[1] + r[2] - 1) : a[i] = 0}
LongestRun(a) ==
    CHOOSE r \in ZeroRuns(a) : \A q \in ZeroRuns(a) :
        q[2] < r[2] \/ (q[2] = r[2] /\ q[1] >= r[1])

\* to_string()
Format(a) ==
    IF ZeroRuns(a) = {} THEN Groups(a)
    ELSE LET r == LongestRun(a)
         IN  Groups(SubSeq(a, 1, r[1] - 1)) \o DoubleColon
                \o Groups(SubSeq(a, r[1] + r[2], 8))

Init == text \in {<<>>} \cup {Format(a) : a \in Addresses}

\* The next token; two groups would be one.
Edit ==
    /\ Len(text) < MaxLength
    /\ \E t \in {Colon, Group(Cardinality({i \in DOMAIN text : text[i] # Colon}) + 1),
                 Dotted(8, 9)} :
          /\ t # Colon /\ text # <<>> => Last(text) = Colon
          /\ text' = Append(text, t)

Spec == Init /\ [][Edit]_text

-----------------------------------------------------------------------------
(* What a text stands for, by the grammar.                                 *)

\* A list of groups between single colons, that may end in a dotted decimal,
\* and its parts.
IsList(s) ==
    /\ s = <<>> \/ Len(s) % 2 = 1
    /\ \A i \in DOMAIN s : /\ (s[i] = Colon) <=> (i % 2 = 0)
                           /\ s[i].is = "dotted" => i = Len(s)
Parts(s) ==
    FlattenSeq([i \in 1..Len(s) |->
        CASE s[i].is = ":" -> <<>>
          [] s[i].is = "group" -> <<s[i].value>>
          [] s[i].is = "dotted" -> <<s[i].high, s[i].low>>])

Zeroes(n) == [i \in 1..n |-> 0]

\* The addresses a text stands for: eight parts, or two lists of fewer with a
\* double colon between them for the zeroes.
Meanings(s) ==
    {Parts(s) : x \in {y \in {s} : IsList(y) /\ Len(Parts(y)) = 8}} \cup
    {LET p == Parts(SubSeq(s, 1, k - 1))  q == Parts(From(s, k + 2))
     IN  p \o Zeroes(8 - Len(p) - Len(q)) \o q :
        k \in {j \in 1..Len(s) - 1 :
                 LET l == SubSeq(s, 1, j - 1)  r == From(s, j + 2)
                 IN  /\ s[j] = Colon /\ s[j + 1] = Colon
                     /\ IsList(l) /\ IsList(r)
                     /\ \A i \in DOMAIN l : l[i].is # "dotted"
                     /\ Len(Parts(l)) + Len(Parts(r)) < 8}}

\* from_string() accepts the texts of the grammar and no others, and reads
\* each as the one address it stands for.
ReadsTheGrammar ==
    LET a == FromString(text)
    IN  Meanings(text) = IF a = NoAddress THEN {} ELSE {a}

\* What to_string() writes, from_string() reads back.
RoundTrip == text = <<>> => \A a \in Addresses : FromString(Format(a)) = a

=============================================================================
