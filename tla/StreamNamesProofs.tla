-------------------------- MODULE StreamNamesProofs --------------------------
(***************************************************************************)
(* The response stream, for any bytes, names, pairs, responses and cuts:   *)
(* the framing of a response is kept; with a map, a response no chunk of   *)
(* which ends inside a name is delivered with exactly the whole names that *)
(* are aliases replaced; without one, the order of the static table does   *)
(* not show.                                                               *)
(*                                                                         *)
(* The scans of the code jump from match to match and are applied one      *)
(* after the other to what the last one left, while the properties speak   *)
(* of all tokens, or all aliases, at once.  The proofs go from the one to  *)
(* the other: a scan is a rewriting, byte by byte; a rewriting in which    *)
(* whole names are replaced replaces tokens; and what one pair puts in is  *)
(* not found by the next.                                                  *)
(***************************************************************************)
EXTENDS StreamNames, RewriteLemmas

(* A nonempty set of natural numbers has a least one. *)
LEMMA LeastExists ==
  ASSUME NEW T \in SUBSET Nat, T # {}
  PROVE  \E k \in T : \A l \in T : k <= l
<1>1. PICK k \in T : \A l \in T : ~(<<l, k>> \in OpToRel(<, Nat))
  BY NatLessThanWellFounded, WFMin
<1>2. \A l \in T : k <= l
  <2> SUFFICES ASSUME NEW l \in T, l < k PROVE FALSE
    OBVIOUS
  <2>1. <<l, k>> \in OpToRel(<, Nat)
    BY DEF OpToRel
  <2> QED BY <1>1, <2>1
<1> QED BY <1>2

\* What a recursion forwards over 1..n computes: the value at i is pre[i],
\* followed by that at the later position next[i] if there is one.
Forwards(f, n, pre, next) ==
  f = [i \in 1..n |-> IF next[i] = 0 THEN pre[i] ELSE pre[i] \o f[next[i]]]

(* A function on 1..n whose value at i is given by its value at a later    *)
(* position, or without one, exists: what a recursion forwards computes.   *)
LEMMA ForwardRecursion ==
  ASSUME NEW n \in Nat, NEW pre, NEW next,
         \A i \in 1..n : next[i] = 0 \/ next[i] \in (i + 1)..n
  PROVE  \E f : Forwards(f, n, pre, next)
<1> DEFINE Value(g, i) == IF next[i] = 0 THEN pre[i] ELSE pre[i] \o g[next[i]]
           From(k) == \E g : \A i \in 1..n : i > n - k => g[i] = Value(g, i)
           T == {k \in 0..n : ~From(k)}
<1>1. From(n) => \E f : f = [i \in 1..n |-> Value(f, i)]
  <2> SUFFICES ASSUME From(n) PROVE \E f : f = [i \in 1..n |-> Value(f, i)]
    OBVIOUS
  <2>1. PICK g : \A i \in 1..n : i > n - n => g[i] = Value(g, i)
    OBVIOUS
  <2> DEFINE f == [i \in 1..n |-> g[i]]
  <2>2. \A i \in 1..n : Value(f, i) = Value(g, i)
    OBVIOUS
  <2>3. \A i \in 1..n : g[i] = Value(g, i)
    <3> HIDE DEF Value
    <3> QED BY <2>1
  <2>4. f = [i \in 1..n |-> Value(f, i)]
    <3> HIDE DEF Value
    <3> QED BY <2>2, <2>3
  <2> QED BY <2>4
<1>2. From(0)
  OBVIOUS
<1>3. \A k \in 0..(n - 1) : From(k) => From(k + 1)
  <2> SUFFICES ASSUME NEW k \in 0..(n - 1), From(k) PROVE From(k + 1)
    OBVIOUS
  <2>1. PICK g : \A i \in 1..n : i > n - k => g[i] = Value(g, i)
    OBVIOUS
  <2> DEFINE h == [i \in 1..n |-> IF i = n - k THEN Value(g, i) ELSE g[i]]
  <2>2. \A i \in 1..n : i >= n - k => Value(h, i) = Value(g, i)
    OBVIOUS
  <2>3. \A i \in 1..n : i > n - (k + 1) => h[i] = Value(h, i)
    <3> SUFFICES ASSUME NEW i \in 1..n, i > n - (k + 1) PROVE h[i] = Value(h, i)
      OBVIOUS
    <3>1. i >= n - k /\ h[i] = IF i = n - k THEN Value(g, i) ELSE g[i]
      OBVIOUS
    <3>2. Value(h, i) = Value(g, i)
      BY <2>2, <3>1
    <3>3. i = n - k \/ i > n - k
      BY <3>1
    <3> HIDE DEF Value, h
    <3> QED BY <2>1, <3>1, <3>2, <3>3
  <2> QED BY <2>3
<1>4. T = {}
  <2> SUFFICES ASSUME T # {} PROVE FALSE
    OBVIOUS
  <2>1. T \in SUBSET Nat
    <3> HIDE DEF From
    <3> QED OBVIOUS
  <2>2. PICK k \in T : \A l \in T : k <= l
    <3> HIDE DEF T
    <3> QED BY <2>1, LeastExists
  <2> HIDE DEF From
  <2>3. k \in 0..n /\ ~From(k) /\ k # 0
    BY <1>2
  <2>4. k - 1 \in 0..(n - 1) /\ k - 1 \notin T /\ (k - 1) + 1 = k
    BY <2>2, <2>3
  <2>5. From(k - 1)
    BY <2>4
  <2> QED BY <1>3, <2>3, <2>4, <2>5
<1> HIDE DEF From
<1>5. From(n)
  BY <1>4
<1> QED BY <1>1, <1>5 DEF Forwards

(* A set of positions is all of 1..n if it holds with all later positions  *)
(* the one before them.                                                    *)
LEMMA Backwards ==
  ASSUME NEW n \in Nat, NEW S,
         \A i \in 1..n : (\A j \in (i + 1)..n : j \in S) => i \in S
  PROVE  \A i \in 1..n : i \in S
<1> DEFINE T == {k \in Nat : k < n /\ n - k \notin S}
<1>1. T = {}
  <2> SUFFICES ASSUME T # {} PROVE FALSE
    OBVIOUS
  <2>1. T \in SUBSET Nat
    OBVIOUS
  <2>2. PICK k \in T : \A l \in T : k <= l
    <3> HIDE DEF T
    <3> QED BY <2>1, LeastExists
  <2>3. \A j \in ((n - k) + 1)..n : j \in S
    <3> SUFFICES ASSUME NEW j \in ((n - k) + 1)..n, j \notin S PROVE FALSE
      OBVIOUS
    <3>1. n - j \in T /\ n - j < k
      OBVIOUS
    <3> QED BY <2>2, <3>1
  <2> QED BY <2>3
<1>2. \A i \in 1..n : i \notin S => n - i \in T
  OBVIOUS
<1> QED BY <1>1, <1>2

-----------------------------------------------------------------------------
(***************************************************************************)
(* The scans.  What either of them computes is a rewriting of the data:    *)
(* byte by byte, from each position on.                                    *)
(***************************************************************************)

\* scan[i] is data from position i on, rewritten: at a position of hits an
\* identifier of len[i] bytes is replaced by put[i], at any other position
\* the byte is copied.
Rewriting(data, hits, len, put, scan) ==
  /\ data \in Seq(Bytes)
  /\ hits \in SUBSET (1..Len(data))
  /\ scan \in [1..(Len(data) + 1) -> Seq(Bytes)]
  /\ scan[Len(data) + 1] = << >>
  /\ \A i \in 1..Len(data) : i \notin hits => scan[i] = <<data[i]>> \o scan[i + 1]
  /\ \A i \in hits :
       /\ len[i] \in Nat \ {0}
       /\ i + len[i] <= Len(data) + 1
       /\ \A k \in i..(i + len[i] - 1) : data[k] \in NameBytes
       /\ put[i] \in Identifiers
       /\ scan[i] = put[i] \o scan[i + len[i]]

(* Identifiers are not empty and consist of bytes.                         *)
LEMMA IdentifierShape ==
  ASSUME NEW w \in Identifiers
  PROVE  /\ w \in Seq(Bytes) /\ w \in Seq(NameBytes) /\ w # << >>
         /\ Len(w) \in Nat \ {0}
         /\ DOMAIN w = 1..Len(w)
         /\ \A k \in 1..Len(w) : w[k] \in NameBytes
<1>1. w \in Seq(NameBytes) /\ w # << >>
  BY DEF Identifiers
<1>2. w \in Seq(Bytes)
  BY <1>1, SeqMonotonic, BytesAssumption
<1>3. Len(w) \in Nat \ {0}
  BY <1>1, EmptySeq
<1> QED BY <1>1, <1>2, <1>3, LenProperties, ElementOfSeq

(* Where an identifier occurs.                                             *)
LEMMA OccursShape ==
  ASSUME NEW data \in Seq(Bytes), NEW from \in Identifiers, NEW i \in 1..Len(data)
  PROVE  OccursAt(data, from, i) <=>
           /\ i + Len(from) <= Len(data) + 1
           /\ \A k \in 1..Len(from) : data[i + k - 1] = from[k]
<1>1. Len(data) \in Nat /\ \A k \in 1..Len(data) : data[k] \in Bytes
  BY LenProperties, ElementOfSeq
<1>2. from \in Seq(Bytes) /\ Len(from) \in Nat \ {0}
  BY IdentifierShape
<1> DEFINE m == Len(from)
           d == SubSeq(data, i, i + m - 1)
<1>3. CASE ~(i + m <= Len(data) + 1)
  BY <1>1, <1>2, <1>3 DEF OccursAt
<1>4. CASE i + m <= Len(data) + 1
  <2>1. d \in Seq(Bytes) /\ Len(d) = m /\ \A k \in 1..m : d[k] = data[i + k - 1]
    <3>1. i \in Int /\ i + m - 1 \in Int /\ i <= i + m - 1 /\ (i + m - 1) - i + 1 = m
          /\ \A k \in i..(i + m - 1) : data[k] \in Bytes
      BY <1>1, <1>2, <1>4
    <3> DEFINE e == i + m - 1
    <3> HIDE DEF m, e
    <3>2. /\ SubSeq(data, i, e) \in Seq(Bytes)
          /\ Len(SubSeq(data, i, e)) = e - i + 1
          /\ \A k \in 1..(e - i + 1) : SubSeq(data, i, e)[k] = data[i + k - 1]
      BY <3>1, SubSeqProperties DEF e
    <3> QED BY <3>1, <3>2 DEF e
  <2>2. d = from <=> \A k \in 1..m : d[k] = from[k]
    <3> HIDE DEF d
    <3> QED BY <2>1, <1>2, SeqEqual
  <2>3. OccursAt(data, from, i) <=> d = from
    BY <1>1, <1>2, <1>4 DEF OccursAt
  <2> HIDE DEF d, m
  <2>4. (\A k \in 1..m : d[k] = from[k]) <=> (\A k \in 1..m : data[i + k - 1] = from[k])
    BY <2>1
  <2> QED BY <2>2, <2>3, <2>4, <1>4 DEF m
<1> QED BY <1>3, <1>4

\* Where replacing from would take place.
Found(data, from, wholeNames) ==
  {i \in 1..Len(data) :
     /\ OccursAt(data, from, i)
     /\ wholeNames => WholeName(data, i, i + Len(from) - 1)}

(* Four sequences joined, however they are grouped.                        *)
LEMMA FourParts ==
  \A a, b, c, d \in Seq(Bytes) : a \o b \o c \o d = a \o (b \o c \o d)
<1> SUFFICES ASSUME NEW a \in Seq(Bytes), NEW b \in Seq(Bytes),
                    NEW c \in Seq(Bytes), NEW d \in Seq(Bytes)
             PROVE  a \o b \o c \o d = a \o (b \o c \o d)
  OBVIOUS
<1> DEFINE bc == b \o c
<1>1. a \o b \o c = a \o bc /\ bc \in Seq(Bytes)
  BY ConcatAssociative, ConcatProperties
<1>2. (a \o bc) \o d = a \o (bc \o d)
  <2> HIDE DEF bc
  <2> QED BY <1>1, ConcatAssociative
<1>3. (a \o b \o c) \o d = a \o (bc \o d)
  <2> HIDE DEF bc
  <2> QED BY <1>1, <1>2
<1> QED BY <1>3

(* The scan of replaceWholeNames and of replaceAllBytes, which jumps from  *)
(* occurrence to occurrence, byte by byte.                                 *)
LEMMA ScanRewrites ==
  ASSUME NEW data \in Seq(Bytes), NEW from \in Identifiers, NEW to \in Identifiers,
         NEW wholeNames \in BOOLEAN
  PROVE  \E scan :
           /\ Scan(data, from, to, wholeNames) = scan[1]
           /\ Rewriting(data, Found(data, from, wholeNames),
                        [i \in 1..Len(data) |-> Len(from)], [i \in 1..Len(data) |-> to], scan)
<1> DEFINE n == Len(data)
           m == Len(from)
           Occ(i) == {s \in i..n : OccursAt(data, from, s)}
           first(i) == CHOOSE s \in Occ(i) : \A t \in Occ(i) : s <= t
           replaced(i) == wholeNames => WholeName(data, first(i), first(i) + m - 1)
           pre  == [i \in 1..(n + 1) |->
                      IF Occ(i) = {} THEN SubSeq(data, i, n)
                      ELSE IF replaced(i) THEN Copied(data, i, first(i)) \o to
                      ELSE SubSeq(data, i, first(i))]
           next == [i \in 1..(n + 1) |->
                      IF Occ(i) = {} THEN 0
                      ELSE IF replaced(i) THEN (first(i) + m - 1) + 1 ELSE first(i) + 1]
           Body(f, i) ==
             IF Occ(i) = {} THEN SubSeq(data, i, n)
             ELSE IF replaced(i)
             THEN Copied(data, i, first(i)) \o to \o f[(first(i) + m - 1) + 1]
             ELSE SubSeq(data, i, first(i)) \o f[first(i) + 1]
<1>1. n \in Nat /\ \A k \in 1..n : data[k] \in Bytes
  BY LenProperties, ElementOfSeq
<1>2. m \in Nat \ {0} /\ to \in Seq(Bytes)
  BY IdentifierShape
<1>3. \A i \in 1..n : OccursAt(data, from, i) => i + m <= n + 1
  BY OccursShape
<1>4. \A i \in 1..(n + 1) : Occ(i) # {} =>
        first(i) \in Occ(i) /\ \A t \in Occ(i) : first(i) <= t
  <2> SUFFICES ASSUME NEW i \in 1..(n + 1), Occ(i) # {}
               PROVE  \E s \in Occ(i) : \A t \in Occ(i) : s <= t
    BY Zenon
  <2>1. Occ(i) \in SUBSET Nat
    BY <1>1
  <2> HIDE DEF Occ
  <2> QED BY <2>1, LeastExists
<1>5. \A i \in 1..(n + 1) : Occ(i) # {} =>
        /\ first(i) \in i..n /\ OccursAt(data, from, first(i))
        /\ first(i) + m <= n + 1
        /\ \A t \in i..(first(i) - 1) : ~OccursAt(data, from, t)
  <2> SUFFICES ASSUME NEW i \in 1..(n + 1), Occ(i) # {}
               PROVE  /\ first(i) \in i..n /\ OccursAt(data, from, first(i))
                      /\ first(i) + m <= n + 1
                      /\ \A t \in i..(first(i) - 1) : ~OccursAt(data, from, t)
    OBVIOUS
  <2>1. first(i) \in Occ(i) /\ \A t \in Occ(i) : first(i) <= t
    BY <1>4
  <2>2. first(i) \in i..n /\ OccursAt(data, from, first(i))
    <3> HIDE DEF first
    <3> QED BY <2>1
  <2>3. first(i) \in 1..n
    <3> HIDE DEF first, n
    <3> QED BY <2>2, <1>1
  <2>4. first(i) + m <= n + 1
    <3> HIDE DEF first
    <3> QED BY <2>2, <2>3, <1>3
  <2>5. \A t \in i..(first(i) - 1) : ~OccursAt(data, from, t)
    <3> HIDE DEF first
    <3> SUFFICES ASSUME NEW t \in i..(first(i) - 1), OccursAt(data, from, t) PROVE FALSE
      OBVIOUS
    <3>1. t \in i..n
      BY <2>3, <1>1
    <3>2. t \in Occ(i)
      BY <3>1
    <3>3. first(i) <= t
      BY <2>1, <3>2
    <3> QED BY <3>3, <2>3, <1>1
  <2> QED BY <2>2, <2>4, <2>5
<1> HIDE DEF Occ, first
<1>6. \E f : f = [i \in 1..(n + 1) |-> Body(f, i)]
  <2> DEFINE N == n + 1
  <2>1. \A i \in 1..N : next[i] = 0 \/ next[i] \in (i + 1)..N
    BY <1>1, <1>2, <1>5
  <2>2. N \in Nat
    BY <1>1
  <2>3. \A f : \A i \in 1..N :
          (IF next[i] = 0 THEN pre[i] ELSE pre[i] \o f[next[i]]) = Body(f, i)
    BY <1>1, <1>2, <1>5
  <2> HIDE DEF pre, next, N
  <2>4. PICK f : Forwards(f, N, pre, next)
    BY <2>1, <2>2, ForwardRecursion
  <2>5. f = [i \in 1..N |-> Body(f, i)]
    <3> HIDE DEF Body
    <3> QED BY <2>3, <2>4 DEF Forwards
  <2> QED BY <2>5 DEF N
<1> DEFINE scan == CHOOSE f : f = [i \in 1..(n + 1) |-> Body(f, i)]
<1>7. scan = [i \in 1..(n + 1) |-> Body(scan, i)]
  <2> HIDE DEF Body
  <2> QED BY <1>6
<1>8. Scan(data, from, to, wholeNames) = scan[1]
  BY DEF Scan, Occ, first
<1>9. \A i \in 1..(n + 1) :
        /\ Occ(i) = {} => scan[i] = SubSeq(data, i, n)
        /\ Occ(i) # {} /\ replaced(i) =>
             scan[i] = SubSeq(data, i, first(i) - 1) \o to \o scan[first(i) + m]
        /\ Occ(i) # {} /\ ~replaced(i) =>
             scan[i] = SubSeq(data, i, first(i)) \o scan[first(i) + 1]
  <2> SUFFICES ASSUME NEW i \in 1..(n + 1)
      PROVE  /\ Occ(i) = {} => scan[i] = SubSeq(data, i, n)
             /\ Occ(i) # {} /\ replaced(i) =>
                  scan[i] = SubSeq(data, i, first(i) - 1) \o to \o scan[first(i) + m]
             /\ Occ(i) # {} /\ ~replaced(i) =>
                  scan[i] = SubSeq(data, i, first(i)) \o scan[first(i) + 1]
    OBVIOUS
  <2>1. scan[i] = Body(scan, i)
    <3> HIDE DEF Body, scan
    <3> QED BY <1>7
  <2>2. Occ(i) # {} => (first(i) + m - 1) + 1 = first(i) + m
    BY <1>1, <1>2, <1>5
  <2> HIDE DEF scan, replaced, n, m
  <2> QED BY <2>1, <2>2 DEF Copied
<1>10. DOMAIN scan = 1..(n + 1)
  <2> HIDE DEF Body, scan
  <2> QED BY <1>7
<1> HIDE DEF scan, Body, pre, next
<1>11. \A i \in 1..(n + 1) : \A j \in i..n :
         /\ SubSeq(data, i, j) \in Seq(Bytes)
         /\ i - 1 <= n /\ SubSeq(data, i, i - 1) = << >>
  <2> SUFFICES ASSUME NEW i \in 1..(n + 1), NEW j \in i..n
      PROVE  /\ SubSeq(data, i, j) \in Seq(Bytes)
             /\ i - 1 <= n /\ SubSeq(data, i, i - 1) = << >>
    OBVIOUS
  <2>1. i \in Int /\ j \in Int /\ i - 1 \in Int /\ i - 1 < i /\ i - 1 <= n
        /\ \A k \in i..j : data[k] \in Bytes
    BY <1>1
  <2> QED BY <2>1, SubSeqProperties, SubSeqEmpty
<1>12. \A i \in 1..(n + 1) : scan[i] \in Seq(Bytes)
  <2> DEFINE S == {i \in 1..(n + 1) : scan[i] \in Seq(Bytes)}
             N == n + 1
  <2>1. \A i \in 1..N : (\A j \in (i + 1)..N : j \in S) => i \in S
    <3> SUFFICES ASSUME NEW i \in 1..N, \A j \in (i + 1)..N : j \in S
                 PROVE  scan[i] \in Seq(Bytes)
      OBVIOUS
    <3>1. \A j \in (i + 1)..N : scan[j] \in Seq(Bytes)
      OBVIOUS
    <3>2. i \in 1..(n + 1) /\ SubSeq(data, i, i - 1) \in Seq(Bytes)
          /\ SubSeq(data, i, n) \in Seq(Bytes)
      <4>1. i \in Int /\ i - 1 \in Int /\ i - 1 < i /\ n \in Int
            /\ \A k \in i..n : data[k] \in Bytes
        BY <1>1
      <4>2. << >> \in Seq(Bytes)
        OBVIOUS
      <4> HIDE DEF n
      <4> QED BY <4>1, <4>2, SubSeqEmpty, SubSeqProperties
    <3>3. CASE Occ(i) = {}
      BY <1>9, <3>2, <3>3
    <3>4. CASE Occ(i) # {}
      <4> DEFINE s == first(i)
      <4>1. s \in i..n /\ s + m <= n + 1 /\ s + m \in (i + 1)..N /\ s + 1 \in (i + 1)..N
        <5> HIDE DEF n, m
        <5> QED BY <1>1, <1>2, <1>5, <3>4
      <4>2. SubSeq(data, i, s) \in Seq(Bytes) /\ SubSeq(data, i, s - 1) \in Seq(Bytes)
        <5>1. s = i \/ s - 1 \in i..n
          BY <4>1, <1>1
        <5> HIDE DEF s
        <5> QED BY <4>1, <1>11, <3>2, <5>1
      <4>3. scan[s + m] \in Seq(Bytes) /\ scan[s + 1] \in Seq(Bytes)
        <5> HIDE DEF s, m, N, S
        <5> QED BY <3>1, <4>1
      <4> HIDE DEF s, n, m, N, S, replaced
      <4>4. CASE replaced(i)
        <5>1. scan[i] = SubSeq(data, i, s - 1) \o to \o scan[s + m]
          BY <1>9, <3>4, <4>4, <3>2 DEF s
        <5> QED BY <5>1, <4>2, <4>3, <1>2
      <4>5. CASE ~replaced(i)
        <5>1. scan[i] = SubSeq(data, i, s) \o scan[s + 1]
          BY <1>9, <3>4, <4>5, <3>2 DEF s
        <5> QED BY <5>1, <4>2, <4>3
      <4> QED BY <4>4, <4>5
    <3> QED BY <3>3, <3>4
  <2>2. N \in Nat
    BY <1>1
  <2>3. \A i \in 1..N : i \in S
    <3> HIDE DEF N, S
    <3> QED BY <2>1, <2>2, Backwards
  <2> QED BY <2>3
<1>13. scan[n + 1] = << >>
  <2>1. Occ(n + 1) = {} /\ n + 1 \in 1..(n + 1)
    BY <1>1 DEF Occ
  <2>2. n + 1 \in Int /\ n \in Int /\ n < n + 1
    BY <1>1
  <2> HIDE DEF n
  <2>3. SubSeq(data, n + 1, n) = << >>
    BY <2>2, SubSeqEmpty
  <2> QED BY <1>9, <2>1, <2>3
<1>14. \A i \in 1..n : OccursAt(data, from, i) => Occ(i) # {} /\ first(i) = i
  <2> SUFFICES ASSUME NEW i \in 1..n, OccursAt(data, from, i)
               PROVE  Occ(i) # {} /\ first(i) = i
    OBVIOUS
  <2>1. i \in Occ(i) /\ i \in 1..(n + 1)
    BY <1>1 DEF Occ
  <2>2. first(i) \in i..n /\ \A t \in Occ(i) : first(i) <= t
    BY <1>4, <1>5, <2>1
  <2> QED BY <1>1, <2>1, <2>2
<1>15. ASSUME NEW i \in 1..n
       PROVE  /\ i \in 1..(n + 1) /\ i + 1 \in 1..(n + 1)
              /\ \A j \in i..n : SubSeq(data, i, j) = <<data[i]>> \o SubSeq(data, i + 1, j)
              /\ SubSeq(data, i, i) = <<data[i]>>
  <2>1. \A j \in i..n : SubSeq(data, i, j) = <<data[i]>> \o SubSeq(data, i + 1, j)
    BY SubSeqRecursiveFirst
  <2>2. i \in i..n /\ i + 1 \in Int /\ i \in Int /\ i < i + 1
    BY <1>1
  <2>3. SubSeq(data, i + 1, i) = << >>
    BY <2>2, SubSeqEmpty
  <2>4. <<data[i]>> \o << >> = <<data[i]>>
    <3>1. data[i] \in Bytes
      BY <1>1
    <3> QED BY <3>1
  <2>5. SubSeq(data, i, i) = <<data[i]>>
    <3> HIDE DEF n
    <3> QED BY <2>1, <2>2, <2>3, <2>4
  <2>6. i \in 1..(n + 1) /\ i + 1 \in 1..(n + 1)
    BY <1>1
  <2> QED BY <2>1, <2>5, <2>6
<1>16. ASSUME NEW i \in 1..n, i \notin Found(data, from, wholeNames)
       PROVE  scan[i] = <<data[i]>> \o scan[i + 1]
  <2>1. CASE Occ(i) = {}
    <3>1. Occ(i + 1) = {}
      BY <1>1, <2>1 DEF Occ
    <3>2. n \in i..n
      BY <1>1
    <3> HIDE DEF n
    <3> QED BY <1>9, <1>15, <2>1, <3>1, <3>2
  <2>2. CASE OccursAt(data, from, i)
    <3>1. Occ(i) # {} /\ first(i) = i
      BY <1>14, <2>2
    <3>2. ~replaced(i)
      BY <1>16, <3>1, <2>2 DEF Found
    <3> HIDE DEF n, replaced
    <3>3. scan[i] = SubSeq(data, i, first(i)) \o scan[first(i) + 1]
      BY <1>9, <1>15, <3>1, <3>2
    <3> QED BY <1>15, <3>1, <3>3
  <2>3. CASE Occ(i) # {} /\ ~OccursAt(data, from, i)
    <3>1. Occ(i + 1) = Occ(i)
      BY <1>1, <2>3 DEF Occ
    <3>2. first(i + 1) = first(i)
      BY <3>1 DEF first
    <3> DEFINE s == first(i)
    <3>3. s \in (i + 1)..n /\ s - 1 \in i..n /\ s \in i..n /\ s + m <= n + 1 /\ s + m \in 1..(n + 1)
          /\ s + 1 \in 1..(n + 1)
      <4>1. s \in i..n /\ s + m <= n + 1 /\ OccursAt(data, from, s)
        BY <1>5, <1>15, <2>3
      <4>2. s # i
        BY <4>1, <2>3
      <4> HIDE DEF s, n, m
      <4> QED BY <4>1, <4>2, <1>1, <1>2
    <3>4. /\ SubSeq(data, i, s) = <<data[i]>> \o SubSeq(data, i + 1, s)
          /\ SubSeq(data, i, s - 1) = <<data[i]>> \o SubSeq(data, i + 1, s - 1)
      <4> HIDE DEF s
      <4> QED BY <1>15, <3>3
    <3>5. /\ SubSeq(data, i + 1, s) \in Seq(Bytes)
          /\ SubSeq(data, i + 1, s - 1) \in Seq(Bytes)
          /\ scan[s + m] \in Seq(Bytes) /\ scan[s + 1] \in Seq(Bytes)
          /\ <<data[i]>> \in Seq(Bytes)
      <4>1. i + 1 \in Int /\ s \in Int /\ s - 1 \in Int
            /\ (\A k \in (i + 1)..s : data[k] \in Bytes)
            /\ (\A k \in (i + 1)..(s - 1) : data[k] \in Bytes)
        BY <1>1, <3>3
      <4>2. data[i] \in Bytes
        BY <1>1
      <4>3. SubSeq(data, i + 1, s) \in Seq(Bytes)
        <5> HIDE DEF s
        <5> QED BY <4>1, SubSeqProperties
      <4>4. SubSeq(data, i + 1, s - 1) \in Seq(Bytes)
        <5> HIDE DEF s
        <5> QED BY <4>1, SubSeqProperties
      <4> HIDE DEF s
      <4> QED BY <4>2, <4>3, <4>4, <1>12, <3>3
    <3> DEFINE b == <<data[i]>>
               x == SubSeq(data, i + 1, s - 1)
               y == SubSeq(data, i + 1, s)
    <3>6. CASE replaced(i)
      <4>1. replaced(i + 1)
        BY <3>2, <3>6
      <4>2. scan[i] = b \o x \o to \o scan[s + m]
        <5> HIDE DEF replaced, n, m
        <5> QED BY <1>9, <1>15, <2>3, <3>4, <3>6
      <4>3. scan[i + 1] = x \o to \o scan[s + m]
        <5> HIDE DEF replaced, n, m
        <5> QED BY <1>9, <1>15, <2>3, <3>1, <3>2, <4>1
      <4> DEFINE z == scan[s + m]
      <4>4. b \in Seq(Bytes) /\ x \in Seq(Bytes) /\ z \in Seq(Bytes) /\ to \in Seq(Bytes)
        BY <3>5, <1>2
      <4> HIDE DEF b, x, z, s
      <4>5. b \o x \o to \o z = b \o (x \o to \o z)
        <5>1. b \in Seq(Bytes) /\ x \in Seq(Bytes)
          BY <4>4
        <5>2. \A c, d \in Seq(Bytes) : b \o x \o c \o d = b \o (x \o c \o d)
          BY <5>1, FourParts
        <5>3. to \in Seq(Bytes) /\ z \in Seq(Bytes)
          BY <4>4
        <5> QED BY <5>2, <5>3
      <4> QED BY <4>2, <4>3, <4>5 DEF z, b
    <3>7. CASE ~replaced(i)
      <4>1. ~replaced(i + 1)
        BY <3>2, <3>7
      <4>2. scan[i] = (b \o y) \o scan[s + 1]
        <5> HIDE DEF replaced, n, m
        <5> QED BY <1>9, <1>15, <2>3, <3>4, <3>7
      <4>3. scan[i + 1] = y \o scan[s + 1]
        <5> HIDE DEF replaced, n, m
        <5> QED BY <1>9, <1>15, <2>3, <3>1, <3>2, <4>1
      <4> DEFINE z == scan[s + 1]
      <4>4. b \in Seq(Bytes) /\ y \in Seq(Bytes) /\ z \in Seq(Bytes)
        BY <3>5
      <4> HIDE DEF b, y, z, s
      <4>5. (b \o y) \o z = b \o (y \o z)
        BY <4>4, ConcatAssociative
      <4> QED BY <4>2, <4>3, <4>5 DEF z, b
    <3> QED BY <3>6, <3>7
  <2>4. OccursAt(data, from, i) => Occ(i) # {}
    BY <1>14
  <2> QED BY <2>1, <2>2, <2>3, <2>4
<1>17. ASSUME NEW i \in Found(data, from, wholeNames)
       PROVE  scan[i] = to \o scan[i + m]
  <2>1. i \in 1..n /\ i \in 1..(n + 1) /\ Occ(i) # {} /\ first(i) = i
    BY <1>1, <1>14 DEF Found
  <2>2. replaced(i)
    BY <2>1 DEF Found
  <2>3. i - 1 \in Int /\ i \in Int /\ i - 1 < i
    BY <2>1, <1>1
  <2>4. SubSeq(data, i, i - 1) = << >>
    BY <2>3, SubSeqEmpty
  <2>5. << >> \o to = to
    BY <1>2, ConcatEmptySeq
  <2> HIDE DEF n, m, replaced
  <2> QED BY <1>9, <2>1, <2>2, <2>4, <2>5
<1>18. ASSUME NEW i \in Found(data, from, wholeNames)
       PROVE  i \in 1..n /\ i + m <= n + 1 /\ \A k \in i..(i + m - 1) : data[k] \in NameBytes
  <2>1. i \in 1..n /\ OccursAt(data, from, i)
    BY DEF Found
  <2>2. i + m <= n + 1 /\ \A k \in 1..m : data[i + k - 1] = from[k] /\ from[k] \in NameBytes
    BY <2>1, OccursShape, IdentifierShape
  <2>3. \A k \in i..(i + m - 1) : k - i + 1 \in 1..m /\ i + (k - i + 1) - 1 = k
    <3> HIDE DEF m, n
    <3> QED BY <2>1, <1>1, <1>2
  <2>4. \A k \in i..(i + m - 1) : data[k] \in NameBytes
    <3> HIDE DEF m, n
    <3> QED BY <2>2, <2>3
  <2> QED BY <2>1, <2>2, <2>4
<1> DEFINE hits == Found(data, from, wholeNames)
           len == [i \in 1..n |-> m]
           put == [i \in 1..n |-> to]
<1>19. \A i \in 1..n : len[i] = m /\ put[i] = to
  OBVIOUS
<1>20. hits \in SUBSET (1..n)
  BY DEF Found
<1>21. scan \in [1..(n + 1) -> Seq(Bytes)]
  <2>1. scan = [i \in 1..(n + 1) |-> scan[i]]
    BY <1>7, <1>10
  <2> QED BY <2>1, <1>12
<1>22. Rewriting(data, hits, len, put, scan)
  <2>1. \A i \in 1..n : i \notin hits => scan[i] = <<data[i]>> \o scan[i + 1]
    BY <1>16
  <2>2. \A i \in hits :
          /\ len[i] \in Nat \ {0}
          /\ i + len[i] <= n + 1
          /\ \A k \in i..(i + len[i] - 1) : data[k] \in NameBytes
          /\ put[i] \in Identifiers
          /\ scan[i] = put[i] \o scan[i + len[i]]
    <3> SUFFICES ASSUME NEW i \in hits
        PROVE  /\ len[i] \in Nat \ {0}
               /\ i + len[i] <= n + 1
               /\ \A k \in i..(i + len[i] - 1) : data[k] \in NameBytes
               /\ put[i] \in Identifiers
               /\ scan[i] = put[i] \o scan[i + len[i]]
      OBVIOUS
    <3>1. len[i] = m /\ put[i] = to
      BY <1>18, <1>19
    <3> HIDE DEF len, put, n, m
    <3> QED BY <3>1, <1>17, <1>18, <1>2
  <2> HIDE DEF hits, len, put
  <2> QED BY <2>1, <2>2, <1>13, <1>20, <1>21 DEF Rewriting
<1> QED BY <1>8, <1>22

-----------------------------------------------------------------------------
(***************************************************************************)
(* Parts.  What is picked from a sequence, and the framing, of parts that  *)
(* are joined.                                                             *)
(***************************************************************************)

\* A set of positions moved by n.
Shifted(n, places) == {n + i : i \in places}

(* Moving positions does not change their number, and positions beyond     *)
(* others add to their number.                                             *)
LEMMA ShiftedCount ==
  ASSUME NEW N \in Nat, NEW M \in Nat, NEW P \in SUBSET (1..N), NEW Q \in SUBSET (1..M)
  PROVE  /\ Cardinality(P \cup Shifted(N, Q)) = Cardinality(P) + Cardinality(Q)
         /\ Cardinality(P) \in Nat /\ Cardinality(Q) \in Nat
<1>0. (\A i \in P : i \in 1..N) /\ (\A i \in Q : i \in 1..M)
  OBVIOUS
<1>1. IsFiniteSet(P) /\ IsFiniteSet(Q)
  <2>1. IsFiniteSet(1..N) /\ IsFiniteSet(1..M)
    BY FirstNumbers
  <2> QED BY <2>1, FS_Subset
<1> DEFINE T == Shifted(N, Q)
           f == [i \in Q |-> N + i]
<1>2. f \in Bijection(Q, T)
  <2>1. \A i, j \in Q : N + i = N + j => i = j
    BY <1>0
  <2> QED BY <2>1 DEF Bijection, Injection, Surjection, IsInjective, Shifted
<1>3. IsFiniteSet(T) /\ Cardinality(T) = Cardinality(Q)
  <2>1. ExistsBijection(Q, T)
    BY <1>2 DEF ExistsBijection
  <2> HIDE DEF T
  <2> QED BY <1>1, <2>1, FS_Bijection
<1>4. P \cap T = {}
  BY <1>0 DEF Shifted
<1>5. Cardinality(P \cap T) = 0
  BY <1>4, FS_EmptySet
<1> HIDE DEF T
<1>6. Cardinality(P \cup T) = Cardinality(P) + Cardinality(T) - Cardinality(P \cap T)
  BY <1>1, <1>3, FS_Union
<1>7. Cardinality(P) \in Nat /\ Cardinality(Q) \in Nat
  BY <1>1, FS_CardinalityType
<1> QED BY <1>3, <1>5, <1>6, <1>7 DEF T

\* R are the positions in u of the members of s at P, then of those of t at Q.
Juxtaposed(s, N, P, t, M, Q, u, R) ==
  /\ N \in Nat /\ P \in SUBSET (1..N)
  /\ M \in Nat /\ Q \in SUBSET (1..M)
  /\ R = P \cup Shifted(N, Q)
  /\ \A i \in P : u[i] = s[i]
  /\ \A i \in Q : u[N + i] = t[i]

\* Sequences over S of which the first is the two others joined.
InParts(x, y, z, S) == y \in Seq(S) /\ z \in Seq(S) /\ x = y \o z

(* What is picked from two adjacent parts is what is picked from the one,  *)
(* then what is picked from the other.                                     *)
LEMMA PickedParts ==
  ASSUME NEW s, NEW N, NEW P, NEW t, NEW M, NEW Q, NEW u, NEW R,
         Juxtaposed(s, N, P, t, M, Q, u, R),
         NEW S, \A i \in P : s[i] \in S, \A i \in Q : t[i] \in S
  PROVE  InParts(Picked(u, R), Picked(s, P), Picked(t, Q), S)
<1>1. /\ N \in Nat /\ P \in SUBSET (1..N) /\ M \in Nat /\ Q \in SUBSET (1..M)
      /\ R = P \cup Shifted(N, Q)
      /\ \A i \in P : u[i] = s[i]
      /\ \A i \in Q : u[N + i] = t[i]
  BY DEF Juxtaposed
<1> DEFINE p == Cardinality(P)
           q == Cardinality(Q)
           upToR(i) == {j \in R : j <= i}
<1>2. p \in Nat /\ q \in Nat /\ Cardinality(R) = p + q
  <2>1. /\ Cardinality(P \cup Shifted(N, Q)) = Cardinality(P) + Cardinality(Q)
        /\ Cardinality(P) \in Nat /\ Cardinality(Q) \in Nat
    <3> HIDE DEF p, q
    <3> QED BY <1>1, ShiftedCount
  <2> QED BY <1>1, <2>1
<1>3. (\A i \in P : i \in 1..N) /\ (\A i \in Q : i \in 1..M)
  BY <1>1
<1>4. N + M \in Nat /\ R \in SUBSET (1..(N + M))
  <2>1. \A i \in R : i \in P \/ \E j \in Q : i = N + j
    BY <1>1 DEF Shifted
  <2>2. \A i \in R : i \in 1..(N + M)
    <3> SUFFICES ASSUME NEW i \in R PROVE i \in 1..(N + M)
      OBVIOUS
    <3>1. CASE i \in P
      BY <1>1, <1>3, <3>1
    <3>2. CASE \E j \in Q : i = N + j
      BY <1>1, <1>3, <3>2
    <3> QED BY <2>1, <3>1, <3>2
  <2> DEFINE L == N + M
  <2>3. L \in Nat /\ \A i \in R : i \in 1..L
    BY <1>1, <2>2
  <2> HIDE DEF L
  <2>4. R \in SUBSET (1..L)
    BY <2>3
  <2> QED BY <2>3, <2>4 DEF L
<1>5. \A i \in R : Place(R, Cardinality(upToR(i))) = i
  <2> DEFINE L == N + M
  <2> HIDE DEF L
  <2>1. L \in Nat /\ R \in SUBSET (1..L)
    BY <1>4 DEF L
  <2>2. /\ \A i \in R : \E k \in 1..Cardinality(R) : Place(R, k) = i
        /\ \A k \in 1..Cardinality(R) : Cardinality({j \in R : j <= Place(R, k)}) = k
    BY <2>1, PlaceShape
  <2> QED BY <2>2
<1>6. \A k \in 1..p : /\ Place(P, k) \in P
                      /\ Place(R, k) = Place(P, k)
  <2> SUFFICES ASSUME NEW k \in 1..p
               PROVE  Place(P, k) \in P /\ Place(R, k) = Place(P, k)
    OBVIOUS
  <2> DEFINE i == Place(P, k)
  <2>1. i \in P /\ Cardinality({j \in P : j <= i}) = k
    BY <1>1, PlaceShape
  <2> HIDE DEF i
  <2>2. upToR(i) = {j \in P : j <= i}
    BY <1>1, <1>3, <2>1 DEF Shifted
  <2>3. i \in R
    BY <1>1, <2>1
  <2> HIDE DEF upToR
  <2> QED BY <1>5, <2>1, <2>2, <2>3 DEF i
<1>7. \A k \in 1..q : /\ Place(Q, k) \in Q
                      /\ Place(R, p + k) = N + Place(Q, k)
  <2> SUFFICES ASSUME NEW k \in 1..q
               PROVE  Place(Q, k) \in Q /\ Place(R, p + k) = N + Place(Q, k)
    OBVIOUS
  <2> DEFINE i == Place(Q, k)
             A == {j \in Q : j <= i}
  <2>1. i \in Q /\ Cardinality(A) = k
    BY <1>1, PlaceShape
  <2> HIDE DEF i
  <2>2. upToR(N + i) = P \cup Shifted(N, A)
    <3>1. i \in Int /\ N \in Nat /\ \A j \in Q : j \in Int /\ (N + j <= N + i <=> j <= i)
      BY <1>1, <1>3, <2>1
    <3>2. \A j \in P : j <= N + i
      BY <1>1, <1>3, <2>1
    <3>3. \A j : j \in upToR(N + i) <=> j \in R /\ j <= N + i
      OBVIOUS
    <3>4. \A j : j \in Shifted(N, A) <=> \E l \in Q : j = N + l /\ l <= i
      BY DEF Shifted
    <3>5. \A j : j \in R <=> j \in P \/ \E l \in Q : j = N + l
      BY <1>1 DEF Shifted
    <3> HIDE DEF upToR, A
    <3> QED BY <3>1, <3>2, <3>3, <3>4, <3>5
  <2>3. Cardinality(upToR(N + i)) = p + k
    <3>1. A \in SUBSET (1..M)
      BY <1>1
    <3> HIDE DEF upToR, A, p
    <3>2. /\ Cardinality(P \cup Shifted(N, A)) = Cardinality(P) + Cardinality(A)
          /\ Cardinality(P) \in Nat /\ Cardinality(A) \in Nat
      <4> N \in Nat /\ M \in Nat
        BY <1>1
      <4> P \in SUBSET (1..N)
        BY <1>1
      <4> PICK B \in SUBSET (1..M) : B = A
        BY <3>1
      <4>1. /\ Cardinality(P \cup Shifted(N, B)) = Cardinality(P) + Cardinality(B)
            /\ Cardinality(P) \in Nat /\ Cardinality(B) \in Nat
        BY ONLY N \in Nat, M \in Nat, P \in SUBSET (1..N), B \in SUBSET (1..M), ShiftedCount
      <4> QED BY <4>1
    <3> QED BY <2>1, <2>2, <3>1, <3>2 DEF p
  <2>4. N + i \in R
    BY <1>1, <2>1 DEF Shifted
  <2> HIDE DEF upToR
  <2> QED BY <1>5, <2>1, <2>3, <2>4 DEF i
<1>8. Picked(s, P) \in Seq(S) /\ Len(Picked(s, P)) = p
      /\ \A k \in 1..p : Picked(s, P)[k] = s[Place(P, k)]
  <2>1. Picked(s, P) = [k \in 1..p |-> s[Place(P, k)]]
    BY DEF Picked
  <2> HIDE DEF p
  <2>2. \A k \in 1..p : s[Place(P, k)] \in S
    BY <1>6
  <2> QED BY <1>2, <2>1, <2>2
<1>9. Picked(t, Q) \in Seq(S) /\ Len(Picked(t, Q)) = q
      /\ \A k \in 1..q : Picked(t, Q)[k] = t[Place(Q, k)]
  <2>1. Picked(t, Q) = [k \in 1..q |-> t[Place(Q, k)]]
    BY DEF Picked
  <2> HIDE DEF q
  <2>2. \A k \in 1..q : t[Place(Q, k)] \in S
    BY <1>7
  <2> QED BY <1>2, <2>1, <2>2
<1> DEFINE a == Picked(s, P)
           b == Picked(t, Q)
<1>10. /\ a \o b \in Seq(S) /\ Len(a \o b) = p + q
       /\ \A k \in 1..(p + q) : (a \o b)[k] = IF k <= p THEN a[k] ELSE b[k - p]
  <2> HIDE DEF a, b, p, q
  <2> QED BY <1>8, <1>9, ConcatProperties DEF a, b
<1>11. \A k \in 1..(p + q) : u[Place(R, k)] = (a \o b)[k]
  <2> SUFFICES ASSUME NEW k \in 1..(p + q) PROVE u[Place(R, k)] = (a \o b)[k]
    OBVIOUS
  <2> HIDE DEF a, b, p, q
  <2>1. CASE k <= p
    <3>1. k \in 1..p
      BY <1>2, <2>1
    <3>2. Place(P, k) \in P /\ Place(R, k) = Place(P, k) /\ a[k] = s[Place(P, k)]
      BY <1>6, <1>8, <3>1 DEF a
    <3> QED BY <1>1, <1>10, <2>1, <3>2
  <2>2. CASE ~(k <= p)
    <3> DEFINE l == k - p
    <3>1. l \in 1..q /\ p + l = k
      BY <1>2, <2>2
    <3> HIDE DEF l
    <3>2. Place(Q, l) \in Q /\ Place(R, k) = N + Place(Q, l) /\ b[l] = t[Place(Q, l)]
      BY <1>7, <1>9, <3>1 DEF b
    <3>3. (a \o b)[k] = b[l]
      BY <1>10, <2>2 DEF l
    <3> QED BY <1>1, <3>2, <3>3
  <2> QED BY <2>1, <2>2
<1>12. Picked(u, R) = [k \in 1..(p + q) |-> u[Place(R, k)]]
  BY <1>2 DEF Picked
<1>13. a \o b = [k \in 1..(p + q) |-> (a \o b)[k]]
  <2> DEFINE c == a \o b
             r == p + q
  <2>1. c \in Seq(S) /\ Len(c) = r
    BY <1>10
  <2> HIDE DEF c, r
  <2>2. c = [k \in 1..r |-> c[k]]
    BY <2>1, LenProperties
  <2> QED BY <2>2 DEF c, r
<1>14. Picked(u, R) = a \o b
  <2> DEFINE c == a \o b
             r == p + q
  <2>1. /\ Picked(u, R) = [k \in 1..r |-> u[Place(R, k)]]
        /\ c = [k \in 1..r |-> c[k]]
        /\ \A k \in 1..r : u[Place(R, k)] = c[k]
    BY <1>11, <1>12, <1>13
  <2> HIDE DEF c, r
  <2>2. Picked(u, R) = c
    BY <2>1
  <2> QED BY <2>2 DEF c
<1> QED BY <1>8, <1>9, <1>14 DEF InParts

(* A sequence and the parts a position cuts it into.                       *)
LEMMA CutInTwo ==
  ASSUME NEW data \in Seq(Bytes), NEW i \in 1..(Len(data) + 1), NEW j \in (i - 1)..Len(data)
  PROVE  LET a == SubSeq(data, i, j)
             b == SubSeq(data, j + 1, Len(data))
         IN  /\ a \in Seq(Bytes) /\ Len(a) = j - i + 1
             /\ \A k \in 1..(j - i + 1) : a[k] = data[i + k - 1]
             /\ b \in Seq(Bytes) /\ Len(b) = Len(data) - j
             /\ \A k \in 1..(Len(data) - j) : b[k] = data[j + k]
             /\ SubSeq(data, i, Len(data)) = a \o b
             /\ i <= j => SubSeq(data, i, j) = <<data[i]>> \o SubSeq(data, i + 1, j)
             /\ j < i => a = << >>
<1> DEFINE n == Len(data)
           a == SubSeq(data, i, j)
           b == SubSeq(data, j + 1, n)
<1>1. n \in Nat /\ \A k \in 1..n : data[k] \in Bytes
  BY LenProperties, ElementOfSeq
<1>2. i \in Int /\ j \in Int /\ n \in Int /\ j + 1 \in Int /\ 1 <= i /\ i <= j + 1 /\ j <= n
  BY <1>1
<1> HIDE DEF n
<1>3. a \in Seq(Bytes) /\ Len(a) = j - i + 1 /\ \A k \in 1..(j - i + 1) : a[k] = data[i + k - 1]
  <2>1. \A k \in i..j : data[k] \in Bytes
    BY <1>1, <1>2
  <2>2. /\ a \in Seq(Bytes)
        /\ Len(a) = IF i <= j THEN j - i + 1 ELSE 0
        /\ \A k \in 1..(j - i + 1) : a[k] = data[i + k - 1]
    BY <1>2, <2>1, SubSeqProperties
  <2> HIDE DEF a
  <2> QED BY <1>2, <2>2
<1>4. b \in Seq(Bytes) /\ Len(b) = n - j /\ \A k \in 1..(n - j) : b[k] = data[j + k]
  <2> DEFINE s == j + 1
  <2>1. s \in Int /\ \A k \in s..n : data[k] \in Bytes
    BY <1>1, <1>2
  <2> HIDE DEF s
  <2>2. /\ SubSeq(data, s, n) \in Seq(Bytes)
        /\ Len(SubSeq(data, s, n)) = IF s <= n THEN n - s + 1 ELSE 0
        /\ \A k \in 1..(n - s + 1) : SubSeq(data, s, n)[k] = data[s + k - 1]
    BY <1>2, <2>1, SubSeqProperties
  <2>3. n - s + 1 = n - j /\ (s <= n \/ n - j = 0) /\ \A k \in Nat : s + k - 1 = j + k
    BY <1>2 DEF s
  <2> QED BY <1>2, <2>2, <2>3 DEF s
<1>5. SubSeq(data, i, n) = a \o b
  <2>1. data \in Seq(Bytes) /\ i \in 1..(Len(data) + 1) /\ j \in (i - 1)..Len(data) /\ n \in j..Len(data)
    BY <1>2 DEF n
  <2> QED BY ONLY <2>1, ConcatAdjacentSubSeq DEF a, b
<1>6. i <= j => a = <<data[i]>> \o SubSeq(data, i + 1, j)
  <2> SUFFICES ASSUME i <= j PROVE a = <<data[i]>> \o SubSeq(data, i + 1, j)
    OBVIOUS
  <2>1. i \in 1..Len(data) /\ j \in i..Len(data)
    BY <1>2 DEF n
  <2> QED BY <2>1, SubSeqRecursiveFirst
<1>7. j < i => a = << >>
  BY <1>2, SubSeqEmpty
<1> QED BY <1>3, <1>4, <1>5, <1>6, <1>7 DEF n

\* Up to j, what stands behind the last of the hits is copied.
CopiedUpTo(data, hits, scan, j) ==
  \A i \in 1..(j + 1) :
    (\A k \in i..j : k \notin hits) => scan[i] = SubSeq(data, i, j) \o scan[j + 1]

(* Outside of the hits the bytes are copied.                               *)
LEMMA CopiedThrough ==
  ASSUME NEW data, NEW hits, NEW len, NEW put, NEW scan, Rewriting(data, hits, len, put, scan),
         NEW j \in 0..Len(data)
  PROVE  CopiedUpTo(data, hits, scan, j)
<1> DEFINE n == Len(data)
           N == j + 1
           S == {i \in 1..N : (\A k \in i..j : k \notin hits)
                                => scan[i] = SubSeq(data, i, j) \o scan[j + 1]}
<1>1. /\ data \in Seq(Bytes) /\ n \in Nat /\ \A k \in 1..n : data[k] \in Bytes
      /\ scan \in [1..(n + 1) -> Seq(Bytes)]
      /\ \A i \in 1..n : i \notin hits => scan[i] = <<data[i]>> \o scan[i + 1]
  BY LenProperties, ElementOfSeq DEF Rewriting
<1>2. j \in Nat /\ j <= n /\ N \in Nat /\ N \in 1..(n + 1) /\ scan[j + 1] \in Seq(Bytes)
  BY <1>1
<1>3. \A i \in 1..N : (\A k \in (i + 1)..N : k \in S) => i \in S
  <2> SUFFICES ASSUME NEW i \in 1..N, \A k \in (i + 1)..N : k \in S, \A k \in i..j : k \notin hits
               PROVE  scan[i] = SubSeq(data, i, j) \o scan[j + 1]
    OBVIOUS
  <2>1. i \in 1..(Len(data) + 1) /\ j \in (i - 1)..Len(data)
    BY <1>1, <1>2
  <2>2. CASE i = N
    <3>1. SubSeq(data, i, j) = << >>
      BY <1>1, <1>2, <2>1, <2>2, CutInTwo
    <3> QED BY <1>2, <2>2, <3>1, ConcatEmptySeq
  <2>3. CASE i # N
    <3>1. i \in 1..n /\ i <= j /\ i \notin hits /\ i + 1 \in (i + 1)..N
          /\ i + 1 \in 1..(Len(data) + 1) /\ j \in ((i + 1) - 1)..Len(data)
          /\ \A k \in (i + 1)..j : k \notin hits
      BY <1>1, <1>2, <2>3
    <3>2. scan[i] = <<data[i]>> \o scan[i + 1]
      BY <1>1, <3>1
    <3>3. scan[i + 1] = SubSeq(data, i + 1, j) \o scan[j + 1]
      <4>1. i + 1 \in S
        BY <3>1
      <4> QED BY <3>1, <4>1
    <3>4. SubSeq(data, i, j) = <<data[i]>> \o SubSeq(data, i + 1, j)
      BY <1>1, <2>1, <3>1, CutInTwo
    <3>5. SubSeq(data, i + 1, j) \in Seq(Bytes)
      <4> DEFINE s == i + 1
      <4>1. s \in 1..(Len(data) + 1) /\ j \in (s - 1)..Len(data)
        BY <3>1
      <4> HIDE DEF s, n, N, S
      <4>2. SubSeq(data, s, j) \in Seq(Bytes)
        BY <1>1, <4>1, CutInTwo
      <4> QED BY <4>2 DEF s
    <3> DEFINE b == <<data[i]>>
               x == SubSeq(data, i + 1, j)
               z == scan[j + 1]
    <3>6. b \in Seq(Bytes) /\ x \in Seq(Bytes) /\ z \in Seq(Bytes)
      BY <1>1, <1>2, <3>1, <3>5
    <3>7. scan[i] = b \o (x \o z) /\ SubSeq(data, i, j) = b \o x
      BY <3>2, <3>3, <3>4
    <3> HIDE DEF b, x
    <3>8. (b \o x) \o z = b \o (x \o z)
      <4> HIDE DEF z
      <4> QED BY ONLY <3>6, ConcatAssociative
    <3> QED BY <3>7, <3>8
  <2> QED BY <2>2, <2>3
<1>4. \A i \in 1..N : i \in S
  <2> HIDE DEF N, S
  <2> QED BY <1>2, <1>3, Backwards
<1> QED BY <1>4 DEF CopiedUpTo

(* The framing of two parts, and of bytes that are all part of names.      *)
LEMMA FramingParts ==
  \A a, b \in Seq(Bytes) :
    /\ Framing(a) \in Seq(Bytes) /\ Framing(b) \in Seq(Bytes)
    /\ Framing(a \o b) = Framing(a) \o Framing(b)
<1> SUFFICES ASSUME NEW a \in Seq(Bytes), NEW b \in Seq(Bytes)
             PROVE  /\ Framing(a) \in Seq(Bytes) /\ Framing(b) \in Seq(Bytes)
                    /\ Framing(a \o b) = Framing(a) \o Framing(b)
  OBVIOUS
<1> DEFINE N == Len(a)
           M == Len(b)
           u == a \o b
           P == {i \in DOMAIN a : ~isNameByte(a[i])}
           Q == {i \in DOMAIN b : ~isNameByte(b[i])}
           R == {i \in DOMAIN u : ~isNameByte(u[i])}
<1>1. /\ N \in Nat /\ DOMAIN a = 1..N /\ \A i \in 1..N : a[i] \in Bytes
      /\ M \in Nat /\ DOMAIN b = 1..M /\ \A i \in 1..M : b[i] \in Bytes
  BY LenProperties, ElementOfSeq
<1>2. /\ DOMAIN u = 1..(N + M)
      /\ \A i \in 1..(N + M) : u[i] = IF i <= N THEN a[i] ELSE b[i - N]
  BY ConcatProperties, LenProperties
<1>3. \A i \in 1..N : i \in 1..(N + M) /\ u[i] = a[i]
  <2> HIDE DEF u, N, M
  <2> QED BY <1>1, <1>2
<1>4. \A i \in 1..M : N + i \in 1..(N + M) /\ u[N + i] = b[i]
  <2> HIDE DEF u, N, M
  <2> SUFFICES ASSUME NEW i \in 1..M PROVE N + i \in 1..(N + M) /\ u[N + i] = b[i]
    OBVIOUS
  <2>1. N + i \in 1..(N + M) /\ ~(N + i <= N) /\ (N + i) - N = i
    BY <1>1
  <2> QED BY <1>2, <2>1
<1>5. \A i \in 1..(N + M) : i \in 1..N \/ (i - N \in 1..M /\ N + (i - N) = i)
  <2> HIDE DEF N, M
  <2> QED BY <1>1
<1>6. R = P \cup Shifted(N, Q)
  <2>1. \A i \in R : i \in P \/ i \in Shifted(N, Q)
    <3> SUFFICES ASSUME NEW i \in R PROVE i \in P \/ i \in Shifted(N, Q)
      OBVIOUS
    <3>1. i \in 1..(N + M) /\ ~isNameByte(u[i])
      BY <1>2
    <3>2. CASE i \in 1..N
      BY <1>1, <1>3, <3>1, <3>2
    <3>3. CASE i - N \in 1..M /\ N + (i - N) = i
      <4>1. i - N \in Q
        BY <1>1, <1>4, <3>1, <3>3
      <4> QED BY <3>3, <4>1 DEF Shifted
    <3> QED BY <1>5, <3>1, <3>2, <3>3
  <2>2. \A i \in P : i \in R
    BY <1>1, <1>2, <1>3
  <2>3. \A i \in Q : N + i \in R
    BY <1>1, <1>2, <1>4
  <2> HIDE DEF P, Q, R
  <2> QED BY <2>1, <2>2, <2>3 DEF Shifted
<1>7. Juxtaposed(a, N, P, b, M, Q, u, R)
  <2>1. P \in SUBSET (1..N) /\ Q \in SUBSET (1..M)
    BY <1>1
  <2>2. (\A i \in P : u[i] = a[i]) /\ (\A i \in Q : u[N + i] = b[i])
    BY <1>1, <1>3, <1>4
  <2> HIDE DEF P, Q, R, u, N, M
  <2> QED BY <1>1, <1>6, <2>1, <2>2 DEF Juxtaposed
<1>8. (\A i \in P : a[i] \in Bytes) /\ (\A i \in Q : b[i] \in Bytes)
  BY <1>1
<1> HIDE DEF P, Q, R, u, N, M
<1>9. InParts(Picked(u, R), Picked(a, P), Picked(b, Q), Bytes)
  BY <1>7, <1>8, PickedParts
<1> QED BY <1>9 DEF InParts, P, Q, R, u, Framing

(* Bytes that are all part of names are no framing.                        *)
LEMMA FramingOfNames ==
  ASSUME NEW a \in Seq(Bytes), \A k \in 1..Len(a) : a[k] \in NameBytes
  PROVE  Framing(a) = << >>
<1>1. {i \in DOMAIN a : ~isNameByte(a[i])} = {}
  BY LenProperties DEF isNameByte
<1>2. Cardinality({}) = 0
  BY FS_EmptySet
<1>3. Framing(a) = [k \in 1..0 |-> a[Place({}, k)]]
  BY <1>1, <1>2 DEF Framing, Picked
<1>4. [k \in 1..0 |-> a[Place({}, k)]] \in Seq(Bytes)
  OBVIOUS
<1>5. Len([k \in 1..0 |-> a[Place({}, k)]]) = 0
  OBVIOUS
<1> QED BY <1>3, <1>4, <1>5, EmptySeq

(* A sequence of one byte.                                                 *)
LEMMA OneByte ==
  ASSUME NEW data \in Seq(Bytes), NEW i \in 1..Len(data)
  PROVE  SubSeq(data, i, i) = <<data[i]>> /\ <<data[i]>> \in Seq(Bytes)
<1>1. i \in i..Len(data) /\ i + 1 \in Int /\ i \in Int /\ i < i + 1 /\ data[i] \in Bytes
  BY LenProperties, ElementOfSeq
<1>2. SubSeq(data, i, i) = <<data[i]>> \o SubSeq(data, i + 1, i)
  BY <1>1, SubSeqRecursiveFirst
<1>3. SubSeq(data, i + 1, i) = << >>
  BY <1>1, SubSeqEmpty
<1>4. <<data[i]>> \in Seq(Bytes) /\ <<data[i]>> \o << >> = <<data[i]>>
  BY <1>1
<1> QED BY <1>2, <1>3, <1>4

(* A rewriting leaves the framing alone.                                   *)
LEMMA RewritingFraming ==
  ASSUME NEW data, NEW hits, NEW len, NEW put, NEW scan, Rewriting(data, hits, len, put, scan)
  PROVE  scan[1] \in Seq(Bytes) /\ Framing(scan[1]) = Framing(data)
<1> DEFINE n == Len(data)
           N == n + 1
           after(i) == SubSeq(data, i, n)
           S == {i \in 1..N : Framing(scan[i]) = Framing(after(i))}
<1>1. /\ data \in Seq(Bytes) /\ n \in Nat /\ \A k \in 1..n : data[k] \in Bytes
      /\ hits \in SUBSET (1..n)
      /\ \A i \in 1..N : scan[i] \in Seq(Bytes)
      /\ scan[N] = << >>
      /\ \A i \in 1..n : i \notin hits => scan[i] = <<data[i]>> \o scan[i + 1]
      /\ \A i \in hits : /\ len[i] \in Nat \ {0} /\ i + len[i] <= N
                         /\ \A k \in i..(i + len[i] - 1) : data[k] \in NameBytes
                         /\ put[i] \in Identifiers
                         /\ scan[i] = put[i] \o scan[i + len[i]]
  BY LenProperties, ElementOfSeq DEF Rewriting
<1>2. N \in Nat /\ N \in 1..N /\ 1 \in 1..N
  BY <1>1
<1>3. \A i \in 1..N : after(i) \in Seq(Bytes)
  <2> SUFFICES ASSUME NEW i \in 1..N PROVE after(i) \in Seq(Bytes)
    OBVIOUS
  <2>1. i \in 1..(Len(data) + 1) /\ n \in (i - 1)..Len(data)
    BY <1>1
  <2> HIDE DEF n
  <2> QED BY <1>1, <2>1, CutInTwo
<1>4. \A i \in 1..N : (\A j \in (i + 1)..N : j \in S) => i \in S
  <2> SUFFICES ASSUME NEW i \in 1..N, \A j \in (i + 1)..N : j \in S
               PROVE  Framing(scan[i]) = Framing(after(i))
    OBVIOUS
  <2>0. \A j \in (i + 1)..N : j \in 1..N /\ Framing(scan[j]) = Framing(after(j))
    BY <1>1
  <2>1. CASE i = N
    <3>1. i \in 1..(Len(data) + 1) /\ n \in (i - 1)..Len(data) /\ n < i
      BY <1>1, <2>1
    <3>2. after(i) = << >>
      <4> HIDE DEF n
      <4> QED BY <1>1, <3>1, CutInTwo
    <3> HIDE DEF N
    <3> QED BY <1>1, <2>1, <3>2
  <2>2. ASSUME NEW e \in i..n, NEW w \in Seq(Bytes), scan[i] = w \o scan[e + 1],
               Framing(SubSeq(data, i, e)) = Framing(w)
        PROVE  Framing(scan[i]) = Framing(after(i))
    <3> DEFINE d == SubSeq(data, i, e)
               s == e + 1
    <3>1. i \in 1..(Len(data) + 1) /\ e \in (i - 1)..Len(data) /\ s \in (i + 1)..N
      BY <1>1
    <3>2. d \in Seq(Bytes) /\ after(s) \in Seq(Bytes) /\ after(i) = d \o after(s)
      <4>1. data \in Seq(Bytes) /\ i \in 1..(Len(data) + 1) /\ e \in (i - 1)..Len(data)
        BY <1>1, <3>1
      <4> QED BY ONLY <4>1, CutInTwo DEF n
    <3>3. scan[s] \in Seq(Bytes) /\ Framing(scan[s]) = Framing(after(s))
      BY <1>1, <2>0, <3>1
    <3> HIDE DEF d, s, after, N, n
    <3>4. Framing(scan[i]) = Framing(w) \o Framing(scan[s])
      BY <2>2, <3>3, FramingParts DEF s
    <3>5. Framing(after(i)) = Framing(d) \o Framing(after(s))
      BY <3>2, FramingParts
    <3> QED BY <2>2, <3>3, <3>4, <3>5 DEF d
  <2>3. CASE i # N /\ i \notin hits
    <3>1. i \in 1..n /\ i \in i..n
      BY <1>1, <2>3
    <3>2. <<data[i]>> \in Seq(Bytes) /\ scan[i] = <<data[i]>> \o scan[i + 1]
      BY <1>1, <2>3, <3>1
    <3>3. SubSeq(data, i, i) = <<data[i]>>
      BY <1>1, <3>1, OneByte
    <3> HIDE DEF n, N, S, after
    <3> QED BY <2>2, <3>1, <3>2, <3>3
  <2>4. CASE i \in hits
    <3> DEFINE e == i + len[i] - 1
    <3>1. i \in 1..n /\ e \in i..n /\ e + 1 = i + len[i] /\ \A k \in i..e : data[k] \in NameBytes
      <4> DEFINE m == len[i]
      <4>1. i \in 1..n /\ m \in Nat \ {0} /\ i + m <= n + 1
            /\ \A k \in i..(i + m - 1) : data[k] \in NameBytes
        BY <1>1, <2>4
      <4> HIDE DEF m, n
      <4> QED BY <1>1, <4>1 DEF m
    <3>2. put[i] \in Seq(Bytes) /\ Framing(put[i]) = << >>
      BY <1>1, <2>4, IdentifierShape, FramingOfNames
    <3>3. scan[i] = put[i] \o scan[e + 1]
      <4> HIDE DEF e, n, N
      <4> QED BY <1>1, <2>4, <3>1
    <3>4. Framing(SubSeq(data, i, e)) = << >>
      <4> DEFINE d == SubSeq(data, i, e)
      <4>1. i \in 1..(Len(data) + 1) /\ e \in (i - 1)..Len(data)
        BY <3>1, <1>1
      <4> HIDE DEF e
      <4>2. d \in Seq(Bytes) /\ Len(d) = e - i + 1
            /\ \A k \in 1..(e - i + 1) : d[k] = data[i + k - 1]
        BY <1>1, <4>1, CutInTwo
      <4>3. \A k \in 1..(e - i + 1) : i + k - 1 \in i..e
        BY <1>1, <3>1
      <4>4. \A k \in 1..Len(d) : d[k] \in NameBytes
        <5> HIDE DEF d, n
        <5> QED BY <3>1, <4>2, <4>3
      <4> HIDE DEF d
      <4> QED BY <4>2, <4>4, FramingOfNames DEF d
    <3> HIDE DEF e, n, N, S, after
    <3> QED BY <2>2, <3>1, <3>2, <3>3, <3>4
  <2> QED BY <2>1, <2>3, <2>4
<1>5. \A i \in 1..N : i \in S
  <2> HIDE DEF N, S
  <2> QED BY <1>2, <1>4, Backwards
<1>6. Framing(scan[1]) = Framing(after(1))
  BY <1>2, <1>5
<1>7. after(1) = data
  BY <1>1, SubSeqFull
<1> QED BY <1>1, <1>2, <1>6, <1>7

-----------------------------------------------------------------------------
(***************************************************************************)
(* Tokens.  Those of two parts are the tokens of the one and of the other, *)
(* if no name goes over from one to the other.                             *)
(***************************************************************************)

\* The token that starts at i ends at j.
TokenEnds(data, i, j) ==
  /\ j \in i..Len(data)
  /\ \A k \in (i + 1)..j : k \notin Starts(data)
  /\ j = Len(data) \/ j + 1 \in Starts(data)

(* Every token has one end.                                                *)
LEMMA TokenShape ==
  ASSUME NEW data \in Seq(Bytes), NEW i \in 1..Len(data)
  PROVE  /\ \E j \in i..Len(data) : TokenEnds(data, i, j)
         /\ \A j \in i..Len(data) : TokenEnds(data, i, j) => TokenAt(data, i) = SubSeq(data, i, j)
<1> DEFINE n == Len(data)
           T == {j \in i..n : j = n \/ j + 1 \in Starts(data)}
<1>1. n \in Nat /\ i \in Nat /\ 1 <= i /\ i <= n
  BY LenProperties
<1>2. \E j \in i..n : TokenEnds(data, i, j)
  <2>1. T \in SUBSET Nat /\ n \in T
    BY <1>1
  <2>2. PICK j \in T : \A k \in T : j <= k
    <3> HIDE DEF T
    <3> QED BY <2>1, LeastExists
  <2>3. \A k \in (i + 1)..j : k \notin Starts(data)
    <3> SUFFICES ASSUME NEW k \in (i + 1)..j, k \in Starts(data) PROVE FALSE
      OBVIOUS
    <3> DEFINE l == k - 1
    <3>1. l \in i..n /\ l + 1 = k /\ l < j /\ j \in Int
      BY <1>1
    <3> HIDE DEF l
    <3>2. l \in T
      BY <3>1
    <3>3. l \in Int
      BY <1>1, <3>1
    <3> HIDE DEF T
    <3> QED BY <2>2, <3>1, <3>2, <3>3
  <2> QED BY <2>3 DEF TokenEnds
<1>3. \A j, k \in i..n : TokenEnds(data, i, j) /\ TokenEnds(data, i, k) => j = k
  <2> SUFFICES ASSUME NEW j \in i..n, NEW k \in i..n,
                      TokenEnds(data, i, j), TokenEnds(data, i, k), j < k
               PROVE  FALSE
    BY <1>1
  <2>1. j + 1 \in (i + 1)..k /\ j # n
    BY <1>1
  <2> QED BY <2>1 DEF TokenEnds
<1>4. ASSUME NEW j \in i..n, TokenEnds(data, i, j)
      PROVE  TokenAt(data, i) = SubSeq(data, i, j)
  <2> DEFINE Last == CHOOSE l \in i..n : /\ \A k \in (i + 1)..l : k \notin Starts(data)
                                         /\ l = n \/ l + 1 \in Starts(data)
  <2>1. Last \in i..n /\ TokenEnds(data, i, Last)
    BY <1>4 DEF TokenEnds
  <2>2. TokenAt(data, i) = SubSeq(data, i, Last)
    BY DEF TokenAt
  <2> HIDE DEF Last
  <2> QED BY <1>3, <1>4, <2>1, <2>2
<1> QED BY <1>2, <1>4

\* No name goes over from a to b.
Separate(a, b) ==
  a = << >> \/ b = << >> \/ ~isNameByte(a[Len(a)]) \/ ~isNameByte(b[1])

(* Where tokens start in two parts joined at which no name goes over.      *)
LEMMA StartsParts ==
  ASSUME NEW a \in Seq(Bytes), NEW b \in Seq(Bytes), Separate(a, b)
  PROVE  /\ Starts(a \o b) = Starts(a) \cup Shifted(Len(a), Starts(b))
         /\ \A i \in 1..Len(a) : i \in Starts(a \o b) <=> i \in Starts(a)
         /\ \A i \in 1..Len(b) : Len(a) + i \in Starts(a \o b) <=> i \in Starts(b)
<1> DEFINE N == Len(a)
           M == Len(b)
           u == a \o b
<1>1. /\ N \in Nat /\ DOMAIN a = 1..N
      /\ M \in Nat /\ DOMAIN b = 1..M
  BY LenProperties
<1>2. /\ DOMAIN u = 1..(N + M)
      /\ \A i \in 1..(N + M) : u[i] = IF i <= N THEN a[i] ELSE b[i - N]
  BY ConcatProperties, LenProperties
<1>3. (a = << >> => N = 0) /\ (b = << >> => M = 0)
  OBVIOUS
<1>4. (N = 0 \/ M = 0 \/ ~isNameByte(a[N]) \/ ~isNameByte(b[1]))
  BY <1>3 DEF Separate
<1> HIDE DEF u, N, M
<1>5. \A i \in 1..N : i \in 1..(N + M) /\ u[i] = a[i]
  BY <1>1, <1>2
<1>6. \A i \in 1..M : N + i \in 1..(N + M) /\ u[N + i] = b[i]
  <2> SUFFICES ASSUME NEW i \in 1..M PROVE N + i \in 1..(N + M) /\ u[N + i] = b[i]
    OBVIOUS
  <2>1. N + i \in 1..(N + M) /\ ~(N + i <= N) /\ (N + i) - N = i
    BY <1>1
  <2> QED BY <1>2, <2>1
<1>7. ASSUME NEW i \in 1..N PROVE i \in Starts(u) <=> i \in Starts(a)
  <2>1. i \in DOMAIN u /\ i \in DOMAIN a /\ u[i] = a[i]
    BY <1>1, <1>2, <1>5
  <2>2. i = 1 \/ i - 1 \in 1..N
    BY <1>1
  <2>3. i = 1 \/ u[i - 1] = a[i - 1]
    BY <1>5, <2>2
  <2> QED BY <2>1, <2>3 DEF Starts
<1>8. ASSUME NEW i \in 1..M PROVE N + i \in Starts(u) <=> i \in Starts(b)
  <2>1. N + i \in DOMAIN u /\ i \in DOMAIN b /\ u[N + i] = b[i]
    BY <1>1, <1>2, <1>6
  <2>2. CASE i = 1
    <3>1. i \in Starts(b)
      BY <2>1, <2>2 DEF Starts
    <3>2. CASE N = 0
      <4>1. N + i = 1
        BY <2>2, <3>2
      <4> QED BY <2>1, <3>1, <4>1 DEF Starts
    <3>3. CASE N # 0
      <4>1. N \in 1..N /\ (N + i) - 1 = N /\ M # 0
        BY <1>1, <2>2, <3>3
      <4>2. u[N] = a[N]
        BY <1>5, <4>1
      <4>3. ~isNameByte(u[(N + i) - 1]) \/ ~isNameByte(u[N + i])
        BY <1>4, <2>1, <2>2, <3>3, <4>1, <4>2
      <4> QED BY <2>1, <3>1, <4>3 DEF Starts
    <3> QED BY <3>2, <3>3
  <2>3. CASE i # 1
    <3>1. i - 1 \in 1..M /\ (N + i) - 1 = N + (i - 1) /\ N + i # 1
      BY <1>1, <2>3
    <3>2. u[(N + i) - 1] = b[i - 1]
      BY <1>6, <3>1
    <3> QED BY <2>1, <2>3, <3>1, <3>2 DEF Starts
  <2> QED BY <2>2, <2>3
<1>9. Starts(u) = Starts(a) \cup Shifted(N, Starts(b))
  <2>1. \A i \in Starts(u) : i \in Starts(a) \/ i \in Shifted(N, Starts(b))
    <3> SUFFICES ASSUME NEW i \in Starts(u)
                 PROVE  i \in Starts(a) \/ i \in Shifted(N, Starts(b))
      OBVIOUS
    <3>1. i \in 1..(N + M)
      BY <1>2 DEF Starts
    <3>2. i \in 1..N \/ (i - N \in 1..M /\ N + (i - N) = i)
      BY <1>1, <3>1
    <3>3. CASE i \in 1..N
      BY <1>7, <3>3
    <3>4. CASE i - N \in 1..M /\ N + (i - N) = i
      <4> DEFINE k == i - N
      <4>1. k \in 1..M /\ N + k = i
        BY <3>4
      <4> HIDE DEF k
      <4>2. k \in Starts(b)
        BY <1>8, <4>1
      <4> QED BY <4>1, <4>2 DEF Shifted
    <3> QED BY <3>2, <3>3, <3>4
  <2>2. \A i \in Starts(a) : i \in Starts(u)
    BY <1>1, <1>7 DEF Starts
  <2>3. \A i \in Starts(b) : N + i \in Starts(u)
    BY <1>1, <1>8 DEF Starts
  <2> QED BY <2>1, <2>2, <2>3 DEF Shifted
<1> QED BY <1>7, <1>8, <1>9 DEF u, N, M

(* Tokens do not change when a part is joined that does not go on with the *)
(* last of them, or that it does not go on with.                           *)
LEMMA TokenInParts ==
  ASSUME NEW a \in Seq(Bytes), NEW b \in Seq(Bytes), Separate(a, b)
  PROVE  /\ \A i \in 1..Len(a) : TokenAt(a \o b, i) = TokenAt(a, i)
         /\ \A i \in 1..Len(b) : TokenAt(a \o b, Len(a) + i) = TokenAt(b, i)
<1> DEFINE N == Len(a)
           M == Len(b)
           u == a \o b
<1>1. /\ N \in Nat /\ M \in Nat /\ u \in Seq(Bytes) /\ Len(u) = N + M
  BY LenProperties, ConcatProperties
<1>2. /\ \A i \in 1..N : i \in Starts(u) <=> i \in Starts(a)
      /\ \A i \in 1..M : N + i \in Starts(u) <=> i \in Starts(b)
  BY StartsParts
<1>3. M # 0 => 1 \in Starts(b)
  BY <1>1, LenProperties DEF Starts
<1> HIDE DEF N, M, u
<1>4. ASSUME NEW i \in 1..N PROVE TokenAt(u, i) = TokenAt(a, i)
  <2>1. PICK j \in i..N : TokenEnds(a, i, j)
    BY TokenShape DEF N
  <2>2. TokenAt(a, i) = SubSeq(a, i, j)
    BY <2>1, TokenShape DEF N
  <2>3. i \in 1..Len(u) /\ j \in i..Len(u) /\ i \in 1..N /\ j \in 1..N
    BY <1>1
  <2>4. TokenEnds(u, i, j)
    <3>1. \A k \in (i + 1)..j : k \in 1..N
      BY <1>1, <2>3
    <3>2. \A k \in (i + 1)..j : k \notin Starts(u)
      BY <1>2, <2>1, <3>1 DEF TokenEnds
    <3>3. j = Len(u) \/ j + 1 \in Starts(u)
      <4>1. CASE j # N
        <5>1. j + 1 \in Starts(a) /\ j + 1 \in 1..N
          BY <2>1, <2>3, <4>1, <1>1 DEF TokenEnds, N
        <5> QED BY <1>2, <5>1
      <4>2. CASE j = N /\ M = 0
        BY <1>1, <4>2
      <4>3. CASE j = N /\ M # 0
        <5>1. 1 \in 1..M
          BY <1>1, <4>3
        <5> QED BY <1>2, <1>3, <4>3, <5>1
      <4> QED BY <4>1, <4>2, <4>3
    <3> QED BY <2>3, <3>2, <3>3 DEF TokenEnds
  <2>5. TokenAt(u, i) = SubSeq(u, i, j)
    BY <1>1, <2>3, <2>4, TokenShape
  <2>6. SubSeq(u, i, j) = SubSeq(a, i, j)
    BY <2>3, SubSeqOfConcat1 DEF u, N
  <2> QED BY <2>2, <2>5, <2>6
<1>5. ASSUME NEW i \in 1..M PROVE TokenAt(u, N + i) = TokenAt(b, i)
  <2>1. PICK j \in i..M : TokenEnds(b, i, j)
    BY TokenShape DEF M
  <2>2. TokenAt(b, i) = SubSeq(b, i, j)
    BY <2>1, TokenShape DEF M
  <2> DEFINE p == N + i
             q == N + j
  <2>3. /\ i \in 1..M /\ j \in 1..M /\ p \in 1..Len(u) /\ q \in p..Len(u)
        /\ p \in (N + 1)..(N + M) /\ q \in (N + 1)..(N + M) /\ p - N = i /\ q - N = j
    BY <1>1
  <2>4. TokenEnds(u, p, q)
    <3>1. \A k \in (p + 1)..q : k - N \in (i + 1)..j /\ k - N \in 1..M /\ N + (k - N) = k
      BY <1>1, <2>3
    <3>2. \A k \in (p + 1)..q : k \notin Starts(u)
      <4> SUFFICES ASSUME NEW k \in (p + 1)..q PROVE k \notin Starts(u)
        OBVIOUS
      <4> DEFINE l == k - N
      <4>1. l \in (i + 1)..j /\ l \in 1..M /\ N + l = k
        BY <3>1
      <4> HIDE DEF l
      <4>2. l \notin Starts(b)
        BY <2>1, <4>1 DEF TokenEnds
      <4> QED BY <1>2, <4>1, <4>2
    <3>3. q = Len(u) \/ q + 1 \in Starts(u)
      <4>1. CASE j # M
        <5> DEFINE l == j + 1
        <5>1. l \in Starts(b) /\ l \in 1..M /\ N + l = q + 1
          BY <2>1, <2>3, <4>1, <1>1 DEF TokenEnds, M
        <5> HIDE DEF l
        <5> QED BY <1>2, <5>1
      <4>2. CASE j = M
        BY <1>1, <4>2
      <4> QED BY <4>1, <4>2
    <3> QED BY <2>3, <3>2, <3>3 DEF TokenEnds
  <2> HIDE DEF p, q
  <2>5. TokenAt(u, p) = SubSeq(u, p, q)
    BY <1>1, <2>3, <2>4, TokenShape
  <2>6. SubSeq(u, p, q) = SubSeq(b, i, j)
    <3>1. SubSeq(u, p, q) = SubSeq(b, p - N, q - N)
      BY <2>3, SubSeqOfConcat2 DEF u, N, M
    <3> QED BY <2>3, <3>1
  <2> QED BY <2>2, <2>5, <2>6 DEF p
<1> QED BY <1>4, <1>5 DEF N, M, u

(* A token is a sequence of bytes.                                         *)
LEMMA TokenType ==
  ASSUME NEW data \in Seq(Bytes), NEW i \in 1..Len(data)
  PROVE  TokenAt(data, i) \in Seq(Bytes)
<1>1. PICK j \in i..Len(data) : TokenEnds(data, i, j)
  BY TokenShape
<1>2. TokenAt(data, i) = SubSeq(data, i, j)
  BY <1>1, TokenShape
<1>3. i \in 1..(Len(data) + 1) /\ j \in (i - 1)..Len(data)
  BY LenProperties
<1>4. SubSeq(data, i, j) \in Seq(Bytes)
  BY <1>3, CutInTwo
<1> QED BY <1>2, <1>4

(* The tokens of two such parts are those of the one, then of the other.   *)
LEMMA TokensParts ==
  ASSUME NEW a \in Seq(Bytes), NEW b \in Seq(Bytes), Separate(a, b)
  PROVE  /\ Tokens(a) \in Seq(Seq(Bytes)) /\ Tokens(b) \in Seq(Seq(Bytes))
         /\ Tokens(a \o b) = Tokens(a) \o Tokens(b)
<1> DEFINE N == Len(a)
           M == Len(b)
           u == a \o b
           s == [i \in DOMAIN a |-> TokenAt(a, i)]
           t == [i \in DOMAIN b |-> TokenAt(b, i)]
           v == [i \in DOMAIN u |-> TokenAt(u, i)]
           P == Starts(a)
           Q == Starts(b)
           R == Starts(u)
<1>1. /\ N \in Nat /\ DOMAIN a = 1..N
      /\ M \in Nat /\ DOMAIN b = 1..M
      /\ u \in Seq(Bytes) /\ DOMAIN u = 1..(N + M)
  BY LenProperties, ConcatProperties
<1>2. R = P \cup Shifted(N, Q)
  BY StartsParts
<1>3. P \in SUBSET (1..N) /\ Q \in SUBSET (1..M)
  BY <1>1 DEF Starts
<1>4. \A i \in P : v[i] = s[i] /\ s[i] \in Seq(Bytes)
  <2> SUFFICES ASSUME NEW i \in P PROVE v[i] = s[i] /\ s[i] \in Seq(Bytes)
    OBVIOUS
  <2>1. i \in 1..N /\ i \in 1..(N + M)
    BY <1>1, <1>3
  <2>2. s[i] = TokenAt(a, i) /\ v[i] = TokenAt(u, i)
    BY <1>1, <2>1
  <2> QED BY <2>1, <2>2, TokenInParts, TokenType
<1>5. \A i \in Q : v[N + i] = t[i] /\ t[i] \in Seq(Bytes)
  <2> SUFFICES ASSUME NEW i \in Q PROVE v[N + i] = t[i] /\ t[i] \in Seq(Bytes)
    OBVIOUS
  <2>1. i \in 1..M /\ N + i \in 1..(N + M)
    BY <1>1, <1>3
  <2>2. t[i] = TokenAt(b, i) /\ v[N + i] = TokenAt(u, N + i)
    BY <1>1, <2>1
  <2> QED BY <2>1, <2>2, TokenInParts, TokenType
<1>6. Tokens(a) = Picked(s, P) /\ Tokens(b) = Picked(t, Q) /\ Tokens(u) = Picked(v, R)
  BY DEF Tokens
<1> HIDE DEF N, M, s, t, v, P, Q, R, u
<1>7. Juxtaposed(s, N, P, t, M, Q, v, R)
  BY <1>1, <1>2, <1>3, <1>4, <1>5 DEF Juxtaposed
<1> DEFINE S == Seq(Bytes)
<1>8. (\A i \in P : s[i] \in S) /\ (\A i \in Q : t[i] \in S)
  BY <1>4, <1>5
<1> HIDE DEF S
<1>9. InParts(Picked(v, R), Picked(s, P), Picked(t, Q), S)
  BY <1>7, <1>8, PickedParts
<1> QED BY <1>6, <1>9 DEF InParts, S, u

(* A sequence in which nothing starts but itself is one token.             *)
LEMMA OneToken ==
  ASSUME NEW data \in Seq(Bytes), Starts(data) = {1}
  PROVE  Tokens(data) = <<data>>
<1> DEFINE n == Len(data)
           t == [i \in DOMAIN data |-> TokenAt(data, i)]
<1>1. n \in Nat /\ DOMAIN data = 1..n /\ 1 \in 1..n
  BY LenProperties DEF Starts
<1>2. TokenEnds(data, 1, n)
  BY <1>1 DEF TokenEnds
<1>3. TokenAt(data, 1) = data
  <2>1. n \in 1..Len(data) /\ 1 \in 1..Len(data)
    BY <1>1
  <2>2. TokenAt(data, 1) = SubSeq(data, 1, n)
    BY <1>2, <2>1, TokenShape
  <2> QED BY <2>2, SubSeqFull
<1>4. Cardinality({1}) = 1
  BY FS_Singleton
<1>5. Place({1}, 1) = 1
  <2>1. 1 \in Nat /\ {1} \in SUBSET (1..1) /\ 1 \in 1..Cardinality({1})
    BY <1>4
  <2>2. \A k \in 1..Cardinality({1}) : Place({1}, k) \in {1}
    BY <2>1, PlaceShape
  <2> QED BY <2>1, <2>2
<1>6. t[1] = data
  BY <1>1, <1>3
<1> HIDE DEF t
<1>7. Picked(t, {1}) = [k \in 1..1 |-> data]
  <2>1. Picked(t, {1}) = [k \in 1..1 |-> t[Place({1}, k)]]
    BY <1>4 DEF Picked
  <2>2. \A k \in 1..1 : t[Place({1}, k)] = data
    BY <1>5, <1>6
  <2> QED BY <2>1, <2>2
<1>8. [k \in 1..1 |-> data] = <<data>>
  OBVIOUS
<1> QED BY <1>7, <1>8 DEF Tokens, t

(* An identifier is one token.                                             *)
LEMMA IdentifierIsToken ==
  ASSUME NEW w \in Identifiers
  PROVE  Starts(w) = {1} /\ Tokens(w) = <<w>>
<1>1. w \in Seq(Bytes) /\ Len(w) \in Nat \ {0} /\ DOMAIN w = 1..Len(w)
      /\ \A k \in 1..Len(w) : isNameByte(w[k])
  BY IdentifierShape DEF isNameByte
<1>2. \A k \in 1..Len(w) : k = 1 \/ k - 1 \in 1..Len(w)
  BY <1>1
<1>3. Starts(w) = {1}
  BY <1>1, <1>2 DEF Starts
<1> QED BY <1>1, <1>3, OneToken

(* The bytes from the start of a token to its end are one token.           *)
LEMMA TokenIsToken ==
  ASSUME NEW data \in Seq(Bytes), NEW i \in 1..Len(data), NEW j \in i..Len(data),
         TokenEnds(data, i, j)
  PROVE  LET d == SubSeq(data, i, j)
         IN  Starts(d) = {1} /\ Tokens(d) = <<d>>
<1> DEFINE d == SubSeq(data, i, j)
           m == j - i + 1
<1>1. Len(data) \in Nat /\ i \in 1..(Len(data) + 1) /\ j \in (i - 1)..Len(data) /\ m \in Nat /\ 1 \in 1..m
  BY LenProperties
<1>2. d \in Seq(Bytes) /\ Len(d) = m /\ \A k \in 1..m : d[k] = data[i + k - 1]
  BY <1>1, CutInTwo
<1> HIDE DEF d
<1>3. DOMAIN d = 1..m
  BY <1>2, LenProperties
<1>4. ASSUME NEW k \in 1..m, k # 1
      PROVE  k \notin Starts(d)
  <2> DEFINE p == i + k - 1
  <2>1. p \in (i + 1)..j /\ p \in 1..Len(data) /\ k - 1 \in 1..m /\ i + (k - 1) - 1 = p - 1 /\ p # 1
    BY <1>1, <1>4
  <2>2. d[k] = data[p] /\ d[k - 1] = data[p - 1]
    <3> HIDE DEF m
    <3>1. d[k] = data[p]
      BY <1>2
    <3>2. d[k - 1] = data[i + (k - 1) - 1]
      BY <1>2, <2>1
    <3> QED BY <2>1, <3>1, <3>2
  <2> HIDE DEF p
  <2>3. p \notin Starts(data)
    BY <2>1 DEF TokenEnds
  <2>4. isNameByte(data[p]) /\ isNameByte(data[p - 1])
    BY <2>1, <2>3, LenProperties DEF Starts
  <2> QED BY <1>3, <1>4, <2>2, <2>4 DEF Starts
<1>5. 1 \in Starts(d)
  BY <1>1, <1>3 DEF Starts
<1>6. Starts(d) = {1}
  <2>1. \A k \in Starts(d) : k \in 1..m
    BY <1>3 DEF Starts
  <2> HIDE DEF m
  <2> QED BY <1>4, <1>5, <2>1
<1> QED BY <1>2, <1>6, OneToken DEF d

-----------------------------------------------------------------------------
(***************************************************************************)
(* A rewriting keeps the parts separate: what it puts in begins and ends   *)
(* with name bytes where what it replaces does.                            *)
(***************************************************************************)

\* a is empty if b is, and begins and ends with a name byte if b does.
Alike(a, b) ==
  /\ a = << >> <=> b = << >>
  /\ b # << >> => /\ isNameByte(a[1]) <=> isNameByte(b[1])
                  /\ isNameByte(a[Len(a)]) <=> isNameByte(b[Len(b)])

(* The ends of two parts joined.                                           *)
LEMMA EndsOfParts ==
  ASSUME NEW a \in Seq(Bytes), NEW b \in Seq(Bytes)
  PROVE  /\ a \o b = << >> <=> a = << >> /\ b = << >>
         /\ a # << >> => (a \o b)[1] = a[1]
         /\ a = << >> /\ b # << >> => (a \o b)[1] = b[1]
         /\ b # << >> => (a \o b)[Len(a \o b)] = b[Len(b)]
         /\ b = << >> => (a \o b)[Len(a \o b)] = a[Len(a)]
<1> DEFINE N == Len(a)
           M == Len(b)
           u == a \o b
<1>1. N \in Nat /\ M \in Nat /\ Len(u) = N + M /\ u \in Seq(Bytes)
      /\ \A k \in 1..(N + M) : u[k] = IF k <= N THEN a[k] ELSE b[k - N]
  BY LenProperties, ConcatProperties
<1>2. (a = << >> <=> N = 0) /\ (b = << >> <=> M = 0) /\ (u = << >> <=> Len(u) = 0)
  BY <1>1, EmptySeq
<1> HIDE DEF N, M, u
<1>3. u = << >> <=> a = << >> /\ b = << >>
  BY <1>1, <1>2
<1>4. a # << >> => u[1] = a[1]
  BY <1>1, <1>2
<1>5. a = << >> /\ b # << >> => u[1] = b[1]
  <2> SUFFICES ASSUME N = 0, M # 0 PROVE u[1] = b[1]
    BY <1>2
  <2>1. 1 \in 1..(N + M) /\ ~(1 <= N) /\ 1 - N = 1
    BY <1>1
  <2> QED BY <1>1, <2>1
<1>6. b # << >> => u[Len(u)] = b[M]
  <2> SUFFICES ASSUME M # 0 PROVE u[Len(u)] = b[M]
    BY <1>2
  <2>1. N + M \in 1..(N + M) /\ ~(N + M <= N) /\ (N + M) - N = M
    BY <1>1
  <2> QED BY <1>1, <2>1
<1>7. b = << >> => u[Len(u)] = a[N]
  <2> SUFFICES ASSUME M = 0, b = << >> PROVE u[Len(u)] = a[N]
    BY <1>2
  <2>1. u = a
    BY ConcatEmptySeq DEF u
  <2> QED BY <1>1, <2>1
<1> QED BY <1>3, <1>4, <1>5, <1>6, <1>7 DEF N, M, u

(* What is joined from parts that are alike is alike.                      *)
LEMMA AlikeParts ==
  ASSUME NEW a \in Seq(Bytes), NEW b \in Seq(Bytes), NEW c \in Seq(Bytes), NEW d \in Seq(Bytes),
         Alike(a, b), Alike(c, d)
  PROVE  Alike(a \o c, b \o d)
<1> DEFINE u == a \o c
           v == b \o d
<1>1. /\ u = << >> <=> a = << >> /\ c = << >>
      /\ a # << >> => u[1] = a[1]
      /\ a = << >> /\ c # << >> => u[1] = c[1]
      /\ c # << >> => u[Len(u)] = c[Len(c)]
      /\ c = << >> => u[Len(u)] = a[Len(a)]
  BY EndsOfParts
<1>2. /\ v = << >> <=> b = << >> /\ d = << >>
      /\ b # << >> => v[1] = b[1]
      /\ b = << >> /\ d # << >> => v[1] = d[1]
      /\ d # << >> => v[Len(v)] = d[Len(d)]
      /\ d = << >> => v[Len(v)] = b[Len(b)]
  BY EndsOfParts
<1> HIDE DEF u, v
<1>3. /\ a = << >> <=> b = << >>
      /\ b # << >> => /\ isNameByte(a[1]) <=> isNameByte(b[1])
                      /\ isNameByte(a[Len(a)]) <=> isNameByte(b[Len(b)])
      /\ c = << >> <=> d = << >>
      /\ d # << >> => /\ isNameByte(c[1]) <=> isNameByte(d[1])
                      /\ isNameByte(c[Len(c)]) <=> isNameByte(d[Len(d)])
  BY DEF Alike
<1>4. Alike(u, v)
  BY <1>1, <1>2, <1>3 DEF Alike
<1> QED BY <1>4 DEF u, v

(* Names begin and end like any other.                                     *)
LEMMA NamesAlike ==
  ASSUME NEW a \in Seq(Bytes), NEW b \in Seq(Bytes), a # << >>, b # << >>,
         \A k \in 1..Len(a) : a[k] \in NameBytes, \A k \in 1..Len(b) : b[k] \in NameBytes
  PROVE  Alike(a, b)
<1>1. 1 \in 1..Len(a) /\ Len(a) \in 1..Len(a) /\ 1 \in 1..Len(b) /\ Len(b) \in 1..Len(b)
  BY LenProperties, EmptySeq
<1> QED BY <1>1 DEF Alike, isNameByte

\* From i to e the scan turns the data into w.
Stretch(data, scan, i, e, w) ==
  scan[i] = w \o scan[e + 1] /\ Alike(w, SubSeq(data, i, e))

(* One step of a rewriting: a stretch of the data, and what it becomes.    *)
LEMMA RewritingStep ==
  ASSUME NEW data, NEW hits, NEW len, NEW put, NEW scan, Rewriting(data, hits, len, put, scan),
         NEW i \in 1..Len(data)
  PROVE  \E e \in i..Len(data), w \in Seq(Bytes) : Stretch(data, scan, i, e, w)
<1> DEFINE n == Len(data)
<1>1. /\ data \in Seq(Bytes) /\ n \in Nat /\ i \in 1..n
      /\ i \notin hits => scan[i] = <<data[i]>> \o scan[i + 1]
      /\ i \in hits => /\ len[i] \in Nat \ {0} /\ i + len[i] <= n + 1
                       /\ \A k \in i..(i + len[i] - 1) : data[k] \in NameBytes
                       /\ put[i] \in Identifiers
                       /\ scan[i] = put[i] \o scan[i + len[i]]
  BY LenProperties DEF Rewriting
<1>2. CASE i \notin hits
  <2>1. <<data[i]>> \in Seq(Bytes) /\ SubSeq(data, i, i) = <<data[i]>>
    BY <1>1, OneByte
  <2>2. Alike(<<data[i]>>, <<data[i]>>)
    BY DEF Alike
  <2>3. i \in i..Len(data)
    BY <1>1
  <2> QED BY <1>1, <1>2, <2>1, <2>2, <2>3 DEF Stretch
<1>3. CASE i \in hits
  <2> DEFINE m == len[i]
             e == i + m - 1
             d == SubSeq(data, i, e)
  <2>1. m \in Nat \ {0} /\ i + m <= n + 1 /\ put[i] \in Identifiers
        /\ \A k \in i..(i + m - 1) : data[k] \in NameBytes
        /\ scan[i] = put[i] \o scan[i + m]
    BY <1>1, <1>3
  <2> HIDE DEF m, n
  <2>2. e \in i..n /\ e + 1 = i + m /\ \A k \in i..e : data[k] \in NameBytes
    <3>1. n \in Nat /\ i \in 1..n /\ m \in Nat \ {0} /\ i + m <= n + 1
      BY <1>1, <2>1
    <3>2. e \in i..n /\ e + 1 = i + m
      BY ONLY <3>1
    <3> QED BY <2>1, <3>2
  <2> HIDE DEF e, d
  <2>3. i \in 1..(Len(data) + 1) /\ e \in (i - 1)..Len(data)
    BY <1>1, <2>2 DEF n
  <2>4. d \in Seq(Bytes) /\ Len(d) = e - i + 1 /\ \A k \in 1..(e - i + 1) : d[k] = data[i + k - 1]
    BY <1>1, <2>3, CutInTwo DEF d
  <2>5. \A k \in 1..(e - i + 1) : i + k - 1 \in i..e
    BY <1>1, <2>2
  <2>6. \A k \in 1..Len(d) : d[k] \in NameBytes
    BY <2>2, <2>4, <2>5
  <2>7. d # << >>
    <3>1. Len(d) # 0
      BY <1>1, <2>2, <2>4
    <3> QED BY <3>1
  <2>8. put[i] \in Seq(Bytes) /\ put[i] # << >> /\ \A k \in 1..Len(put[i]) : put[i][k] \in NameBytes
    BY <2>1, IdentifierShape
  <2>9. Alike(put[i], d)
    BY <2>4, <2>6, <2>7, <2>8, NamesAlike
  <2>10. scan[i] = put[i] \o scan[e + 1]
    <3>1. scan[i] = put[i] \o scan[i + m]
      BY <1>1, <1>3 DEF m
    <3>2. e + 1 = i + m
      BY <2>2
    <3>3. scan[e + 1] = scan[i + m]
      BY <3>2
    <3> QED BY <3>1, <3>3
  <2> QED BY <2>2, <2>8, <2>9, <2>10 DEF Stretch, d, n
<1> QED BY <1>2, <1>3

(* A rewriting begins and ends as the data does, wherever it starts.       *)
LEMMA RewritingAlike ==
  ASSUME NEW data, NEW hits, NEW len, NEW put, NEW scan, Rewriting(data, hits, len, put, scan)
  PROVE  \A i \in 1..(Len(data) + 1) : Alike(scan[i], SubSeq(data, i, Len(data)))
<1> DEFINE n == Len(data)
           N == n + 1
           after(i) == SubSeq(data, i, n)
           S == {i \in 1..N : Alike(scan[i], after(i))}
<1>1. /\ data \in Seq(Bytes) /\ n \in Nat /\ N \in Nat
      /\ \A i \in 1..N : scan[i] \in Seq(Bytes)
      /\ scan[N] = << >>
  BY LenProperties DEF Rewriting
<1>2. \A i \in 1..N : after(i) \in Seq(Bytes)
  <2> SUFFICES ASSUME NEW i \in 1..N PROVE after(i) \in Seq(Bytes)
    OBVIOUS
  <2>1. i \in 1..(Len(data) + 1) /\ n \in (i - 1)..Len(data)
    BY <1>1
  <2> HIDE DEF n
  <2> QED BY <1>1, <2>1, CutInTwo
<1>3. \A i \in 1..N : (\A j \in (i + 1)..N : j \in S) => i \in S
  <2> SUFFICES ASSUME NEW i \in 1..N, \A j \in (i + 1)..N : j \in S
               PROVE  Alike(scan[i], after(i))
    OBVIOUS
  <2>1. CASE i = N
    <3>1. i \in 1..(Len(data) + 1) /\ n \in (i - 1)..Len(data) /\ n < i
      BY <1>1, <2>1
    <3>2. after(i) = << >>
      <4> HIDE DEF n
      <4> QED BY <1>1, <3>1, CutInTwo
    <3> HIDE DEF N, after
    <3> QED BY <1>1, <2>1, <3>2 DEF Alike
  <2>2. CASE i # N
    <3>0. i \in 1..Len(data)
      BY <1>1, <2>2
    <3>1. PICK e \in i..Len(data), w \in Seq(Bytes) : Stretch(data, scan, i, e, w)
      BY <3>0, RewritingStep
    <3> DEFINE d == SubSeq(data, i, e)
               s == e + 1
    <3>2. i \in 1..(Len(data) + 1) /\ e \in (i - 1)..Len(data) /\ s \in (i + 1)..N /\ s \in 1..N
      BY <1>1
    <3>3. d \in Seq(Bytes) /\ after(i) = d \o after(s)
      BY ONLY <1>1, <3>2, CutInTwo DEF n
    <3>4. scan[s] \in Seq(Bytes) /\ after(s) \in Seq(Bytes) /\ Alike(scan[s], after(s))
      BY <1>1, <1>2, <3>2
    <3>5. scan[i] = w \o scan[s] /\ Alike(w, d)
      BY <3>1 DEF Stretch
    <3> HIDE DEF d, s, after, N, n
    <3>6. Alike(w \o scan[s], d \o after(s))
      BY <3>3, <3>4, <3>5, AlikeParts
    <3> QED BY <3>3, <3>5, <3>6
  <2> QED BY <2>1, <2>2
<1>4. \A i \in 1..N : i \in S
  <2> HIDE DEF N, S
  <2> QED BY <1>1, <1>3, Backwards
<1> QED BY <1>4

-----------------------------------------------------------------------------
(***************************************************************************)
(* A scan for whole names and the tokens it replaces.                      *)
(***************************************************************************)

(* Replacing tokens goes token by token.                                   *)
LEMMA SubstitutedParts ==
  ASSUME NEW R, \A d \in DOMAIN R : R[d] \in Seq(Bytes),
         NEW t \in Seq(Seq(Bytes)), NEW u \in Seq(Seq(Bytes))
  PROVE  /\ Substituted(t, R) \in Seq(Seq(Bytes))
         /\ Substituted(t \o u, R) = Substituted(t, R) \o Substituted(u, R)
<1> DEFINE S == Seq(Bytes)
           one(d) == IF d \in DOMAIN R THEN R[d] ELSE d
           N == Len(t)
           M == Len(u)
           v == t \o u
           a == Substituted(t, R)
           b == Substituted(u, R)
           c == Substituted(v, R)
<1>1. \A d \in S : one(d) \in S
  OBVIOUS
<1> HIDE DEF S, one
<1>2. /\ N \in Nat /\ DOMAIN t = 1..N /\ \A k \in 1..N : t[k] \in S
      /\ M \in Nat /\ DOMAIN u = 1..M /\ \A k \in 1..M : u[k] \in S
      /\ v \in Seq(S) /\ Len(v) = N + M /\ DOMAIN v = 1..(N + M)
      /\ \A k \in 1..(N + M) : v[k] = IF k <= N THEN t[k] ELSE u[k - N]
  <2>1. t \in Seq(S) /\ u \in Seq(S)
    BY DEF S
  <2> QED BY <2>1, LenProperties, ElementOfSeq, ConcatProperties
<1> HIDE DEF N, M, v
<1>3. a \in Seq(S) /\ Len(a) = N /\ \A k \in 1..N : a[k] = one(t[k])
  <2>1. a = [k \in 1..N |-> one(t[k])]
    BY <1>2 DEF Substituted, one
  <2>2. \A k \in 1..N : one(t[k]) \in S
    BY <1>1, <1>2
  <2> HIDE DEF a
  <2> QED BY <1>2, <2>1, <2>2
<1>4. b \in Seq(S) /\ Len(b) = M /\ \A k \in 1..M : b[k] = one(u[k])
  <2>1. b = [k \in 1..M |-> one(u[k])]
    BY <1>2 DEF Substituted, one
  <2>2. \A k \in 1..M : one(u[k]) \in S
    BY <1>1, <1>2
  <2> HIDE DEF b
  <2> QED BY <1>2, <2>1, <2>2
<1>5. c = [k \in 1..(N + M) |-> one(v[k])]
  BY <1>2 DEF Substituted, one
<1>6. c \in Seq(S) /\ Len(c) = N + M /\ \A k \in 1..(N + M) : c[k] = one(v[k])
  <2> DEFINE L == N + M
  <2>1. L \in Nat /\ \A k \in 1..L : v[k] \in S
    BY <1>2, ElementOfSeq
  <2>2. \A k \in 1..L : one(v[k]) \in S
    BY <1>1, <2>1
  <2>3. c = [k \in 1..L |-> one(v[k])]
    BY <1>5
  <2> HIDE DEF c, L
  <2>4. c \in Seq(S) /\ Len(c) = L /\ \A k \in 1..L : c[k] = one(v[k])
    BY <2>1, <2>2, <2>3
  <2> QED BY <2>4 DEF L
<1> HIDE DEF a, b, c
<1>7. /\ a \o b \in Seq(S) /\ Len(a \o b) = N + M
      /\ \A k \in 1..(N + M) : (a \o b)[k] = IF k <= N THEN a[k] ELSE b[k - N]
  BY <1>3, <1>4, ConcatProperties
<1>8. \A k \in 1..(N + M) : c[k] = (a \o b)[k]
  <2> SUFFICES ASSUME NEW k \in 1..(N + M) PROVE c[k] = (a \o b)[k]
    OBVIOUS
  <2>1. CASE k <= N
    <3>1. k \in 1..N
      BY <1>2, <2>1
    <3> QED BY <1>2, <1>3, <1>6, <1>7, <2>1, <3>1
  <2>2. CASE ~(k <= N)
    <3> DEFINE l == k - N
    <3>1. l \in 1..M
      BY <1>2, <2>2
    <3>2. (a \o b)[k] = b[l] /\ v[k] = u[l]
      BY <1>2, <1>7, <2>2
    <3> HIDE DEF l
    <3> QED BY <1>4, <1>6, <3>1, <3>2
  <2> QED BY <2>1, <2>2
<1>9. c = a \o b
  <2> DEFINE w == a \o b
  <2>1. w \in Seq(S) /\ Len(w) = Len(c) /\ \A k \in 1..Len(c) : c[k] = w[k]
    BY <1>6, <1>7, <1>8
  <2> HIDE DEF w
  <2>2. c = w
    BY <1>6, <2>1, SeqEqual
  <2> QED BY <2>2 DEF w
<1> QED BY <1>3, <1>9 DEF a, b, c, v, S

(* One token.                                                              *)
LEMMA SubstitutedOne ==
  ASSUME NEW R, NEW d \in Seq(Bytes)
  PROVE  Substituted(<<d>>, R) = <<IF d \in DOMAIN R THEN R[d] ELSE d>>
BY DEF Substituted

(* No token.                                                               *)
LEMMA SubstitutedNone ==
  ASSUME NEW R
  PROVE  Substituted(<< >>, R) = << >> /\ Tokens(<< >>) = << >>
<1>1. Starts(<< >>) = {}
  BY DEF Starts
<1>2. Cardinality({}) = 0
  BY FS_EmptySet
<1>3. \A t : Picked(t, {}) = [k \in 1..0 |-> t[Place({}, k)]]
  BY <1>2 DEF Picked
<1>4. \A t : [k \in 1..0 |-> t[Place({}, k)]] = << >>
  OBVIOUS
<1>5. Tokens(<< >>) = << >>
  <2> DEFINE t == [i \in DOMAIN << >> |-> TokenAt(<< >>, i)]
  <2>1. Tokens(<< >>) = Picked(t, Starts(<< >>))
    BY DEF Tokens
  <2> HIDE DEF t
  <2>2. Picked(t, {}) = << >>
    BY <1>3, <1>4
  <2> QED BY <1>1, <2>1, <2>2
<1>6. Substituted(<< >>, R) = << >>
  BY DEF Substituted
<1> QED BY <1>5, <1>6

\* scan is the rewriting that replaces from, where it is a whole name, by to.
Renaming(data, from, to, scan) ==
  Rewriting(data, Found(data, from, TRUE),
            [i \in 1..Len(data) |-> Len(from)], [i \in 1..Len(data) |-> to], scan)

OnePair(from, to) == [d \in {from} |-> to]

(* An alias that stands as a whole name is a token, and a token that is    *)
(* the alias stands as a whole name.                                       *)
LEMMA FoundIsToken ==
  ASSUME NEW data \in Seq(Bytes), NEW from \in Identifiers,
         NEW i \in Starts(data), NEW j \in i..Len(data), TokenEnds(data, i, j)
  PROVE  /\ i \in Found(data, from, TRUE) <=> SubSeq(data, i, j) = from
         /\ \A k \in (i + 1)..j : k \notin Found(data, from, TRUE)
<1> DEFINE n == Len(data)
           m == Len(from)
           d == SubSeq(data, i, j)
           e == i + m - 1
<1>1. n \in Nat /\ DOMAIN data = 1..n /\ i \in 1..n /\ i \in 1..Len(data)
  BY LenProperties DEF Starts
<1>2. m \in Nat \ {0} /\ \A k \in 1..m : from[k] \in NameBytes
  BY IdentifierShape
<1>3. /\ i \in 1..(Len(data) + 1) /\ j \in (i - 1)..Len(data)
      /\ j \in 1..n /\ i <= j
  BY <1>1
<1>4. d \in Seq(Bytes) /\ Len(d) = j - i + 1 /\ \A k \in 1..(j - i + 1) : d[k] = data[i + k - 1]
  BY ONLY data \in Seq(Bytes), <1>3, CutInTwo
<1>5. /\ i = 1 \/ ~isNameByte(data[i - 1]) \/ ~isNameByte(data[i])
      /\ j = n \/ j + 1 \in Starts(data)
      /\ \A k \in (i + 1)..j : k \notin Starts(data)
  BY DEF Starts, TokenEnds
<1>6. \A k \in 1..n : k \in Starts(data) <=> k = 1 \/ ~isNameByte(data[k - 1]) \/ ~isNameByte(data[k])
  BY <1>1 DEF Starts
<1>7. OccursAt(data, from, i) <=> i + m <= n + 1 /\ \A k \in 1..m : data[i + k - 1] = from[k]
  BY <1>1, OccursShape
<1>8. i \in Found(data, from, TRUE) <=>
        OccursAt(data, from, i) /\ WholeName(data, i, e)
  BY <1>1 DEF Found
<1> HIDE DEF n, m, d, e
<1>9. ASSUME d = from PROVE i \in Found(data, from, TRUE)
  <2>1. m = j - i + 1 /\ e = j /\ i + m = j + 1
    <3>1. Len(d) = m /\ e = i + m - 1
      BY <1>9 DEF m, e
    <3>2. m = j - i + 1
      BY <1>4, <3>1
    <3> QED BY <1>1, <1>3, <3>1, <3>2
  <2>2. \A k \in 1..m : data[i + k - 1] = from[k]
    BY <1>4, <1>9, <2>1
  <2>3. OccursAt(data, from, i)
    BY <1>1, <1>3, <1>7, <2>1, <2>2
  <2>4. isNameByte(data[i]) /\ isNameByte(data[j])
    <3>1. 1 \in 1..m /\ i + 1 - 1 = i /\ m \in 1..m /\ i + m - 1 = j
      BY <1>1, <1>2, <2>1, <1>3
    <3>2. data[i + 1 - 1] \in NameBytes /\ data[i + m - 1] \in NameBytes
      BY <1>2, <2>2, <3>1
    <3> QED BY <3>1, <3>2 DEF isNameByte
  <2>5. j = n \/ ~isNameByte(data[j + 1])
    <3> SUFFICES ASSUME j # n PROVE ~isNameByte(data[j + 1])
      OBVIOUS
    <3> DEFINE l == j + 1
    <3>1. l \in 1..n /\ l # 1 /\ l - 1 = j /\ l \in Starts(data)
      BY <1>1, <1>3, <1>5
    <3> HIDE DEF l
    <3>2. ~isNameByte(data[j]) \/ ~isNameByte(data[l])
      BY <1>6, <3>1
    <3> QED BY <2>4, <3>2 DEF l
  <2>6. WholeName(data, i, j)
    BY <1>5, <2>4, <2>5 DEF WholeName, n
  <2> QED BY <1>8, <2>1, <2>3, <2>6
<1>10. ASSUME i \in Found(data, from, TRUE) PROVE d = from
  <2>1. OccursAt(data, from, i) /\ WholeName(data, i, e)
    BY <1>8, <1>10
  <2>2. i + m <= n + 1 /\ \A k \in 1..m : data[i + k - 1] = from[k]
    BY <1>7, <2>1
  <2>3. e \in i..n /\ e + 1 = i + m /\ e \in 1..n
    <3>1. i + m <= n + 1 /\ m \in Nat \ {0} /\ n \in Nat /\ i \in 1..n
      BY <1>1, <1>2, <2>2
    <3> QED BY ONLY <3>1 DEF e
  <2>4. \A k \in i..e : isNameByte(data[k])
    <3> SUFFICES ASSUME NEW k \in i..e PROVE isNameByte(data[k])
      OBVIOUS
    <3> DEFINE l == k - i + 1
    <3>1. l \in 1..m /\ i + l - 1 = k
      BY <1>1, <1>2, <2>3
    <3> HIDE DEF l
    <3> QED BY <1>2, <2>2, <3>1 DEF isNameByte
  <2>5. \A k \in (i + 1)..e : k \notin Starts(data)
    <3> SUFFICES ASSUME NEW k \in (i + 1)..e PROVE k \notin Starts(data)
      OBVIOUS
    <3>1. k \in 1..n /\ k # 1 /\ k \in i..e /\ k - 1 \in i..e
      BY <1>1, <2>3
    <3> QED BY <1>6, <2>4, <3>1
  <2>6. e = n \/ e + 1 \in Starts(data)
    <3> SUFFICES ASSUME e # n PROVE e + 1 \in Starts(data)
      OBVIOUS
    <3> DEFINE l == e + 1
    <3>1. l \in 1..n
      BY <1>1, <2>3
    <3>2. ~isNameByte(data[l])
      BY <2>1 DEF WholeName, n
    <3> HIDE DEF l
    <3>3. l \in Starts(data)
      BY <1>6, <3>1, <3>2
    <3> QED BY <3>3 DEF l
  <2>7. TokenEnds(data, i, e)
    BY <2>3, <2>5, <2>6 DEF TokenEnds, n
  <2>8. TokenAt(data, i) = SubSeq(data, i, e) /\ TokenAt(data, i) = d
    BY <1>1, <2>3, <2>7, TokenShape DEF d, n
  <2>9. SubSeq(data, i, e) = from
    BY <2>1 DEF OccursAt, e, m
  <2> QED BY <2>8, <2>9
<1>11. ASSUME NEW k \in (i + 1)..j PROVE k \notin Found(data, from, TRUE)
  <2>1. k \in 1..n /\ k # 1 /\ k \notin Starts(data)
    BY <1>1, <1>3, <1>5
  <2>2. isNameByte(data[k - 1])
    BY <1>6, <2>1
  <2> QED BY <2>1, <2>2 DEF Found, WholeName
<1> QED BY <1>9, <1>10, <1>11 DEF d

\* The stretch from i to j becomes to if it is from, and stays otherwise.
Turned(data, from, to, scan, i, j) ==
  LET d == SubSeq(data, i, j)
  IN  scan[i] = (IF d = from THEN to ELSE d) \o scan[j + 1]

(* The scan turns a token into one token, the alias into the name.         *)
LEMMA TokenScanned ==
  ASSUME NEW data \in Seq(Bytes), NEW from \in Identifiers, NEW to \in Identifiers,
         NEW scan, Renaming(data, from, to, scan),
         NEW i \in Starts(data), NEW j \in i..Len(data), TokenEnds(data, i, j)
  PROVE  Turned(data, from, to, scan, i, j)
<1> DEFINE n == Len(data)
           hits == Found(data, from, TRUE)
           len == [k \in 1..n |-> Len(from)]
           put == [k \in 1..n |-> to]
           d == SubSeq(data, i, j)
<1>1. n \in Nat /\ i \in 1..n /\ j \in 0..Len(data) /\ i \in 1..(j + 1) /\ j \in 1..n /\ i <= j
  BY LenProperties DEF Starts
<1>2. Rewriting(data, hits, len, put, scan)
  BY DEF Renaming
<1>3. i \in hits <=> d = from
  BY FoundIsToken
<1>4. \A k \in (i + 1)..j : k \notin hits
  BY FoundIsToken
<1>5. CASE d = from
  <2>1. scan[i] = put[i] \o scan[i + len[i]]
    <3> HIDE DEF hits, len, put
    <3> QED BY <1>2, <1>3, <1>5 DEF Rewriting
  <2>2. put[i] = to /\ len[i] = Len(from)
    BY <1>1
  <2>3. Len(d) = j - i + 1
    <3>1. i \in 1..(Len(data) + 1) /\ j \in (i - 1)..Len(data)
      BY <1>1
    <3> QED BY ONLY data \in Seq(Bytes), <3>1, CutInTwo
  <2> HIDE DEF hits, len, put, d, n
  <2>4. i + len[i] = j + 1
    <3>1. len[i] = j - i + 1
      BY <1>5, <2>2, <2>3
    <3> QED BY <1>1, <3>1
  <2>5. scan[i] = to \o scan[j + 1]
    BY <2>1, <2>2, <2>4
  <2> QED BY <1>5, <2>5 DEF d, Turned
<1>6. CASE d # from
  <2>1. \A k \in i..j : k \notin hits
    <3> HIDE DEF hits, d
    <3>1. \A k \in i..j : k = i \/ k \in (i + 1)..j
      BY <1>1
    <3> QED BY <1>3, <1>4, <1>6, <3>1
  <2> HIDE DEF hits, len, put, n
  <2>2. CopiedUpTo(data, hits, scan, j)
    BY <1>1, <1>2, CopiedThrough
  <2>3. scan[i] = d \o scan[j + 1]
    BY <1>1, <2>1, <2>2 DEF CopiedUpTo
  <2> QED BY <1>6, <2>3 DEF Turned
<1> QED BY <1>5, <1>6

(* Parts alike to separate ones are separate.                              *)
LEMMA SeparateAlike ==
  ASSUME NEW a, NEW b, NEW c, NEW d, Alike(a, b), Alike(c, d)
  PROVE  Separate(a, c) <=> Separate(b, d)
BY DEF Alike, Separate

(* The bytes from a position to before the start of a token, and those     *)
(* from there on, are separate.                                            *)
LEMMA SeparateAtStart ==
  ASSUME NEW data \in Seq(Bytes), NEW i \in 1..Len(data), NEW j \in i..Len(data),
         j = Len(data) \/ j + 1 \in Starts(data)
  PROVE  Separate(SubSeq(data, i, j), SubSeq(data, j + 1, Len(data)))
<1> DEFINE n == Len(data)
           d == SubSeq(data, i, j)
           b == SubSeq(data, j + 1, n)
<1>1. n \in Nat /\ i \in 1..(Len(data) + 1) /\ j \in (i - 1)..Len(data) /\ j \in 1..n /\ i <= j
      /\ DOMAIN data = 1..n
  BY LenProperties
<1>2. /\ d \in Seq(Bytes) /\ Len(d) = j - i + 1
      /\ \A k \in 1..(j - i + 1) : d[k] = data[i + k - 1]
      /\ b \in Seq(Bytes) /\ Len(b) = n - j
      /\ \A k \in 1..(n - j) : b[k] = data[j + k]
  BY ONLY data \in Seq(Bytes), <1>1, CutInTwo
<1> HIDE DEF d, b
<1>0. n \in Int /\ i \in Int /\ j \in Int /\ 1 <= i /\ i <= j /\ j <= n
  <2>1. n \in Nat /\ i \in 1..n /\ j \in i..n
    BY <1>1
  <2> HIDE DEF n
  <2> QED BY ONLY <2>1
<1> HIDE DEF n
<1>3. CASE j = n
  <2>1. Len(b) = 0
    BY <1>1, <1>2, <1>3
  <2> QED BY <1>2, <2>1, EmptySeq DEF Separate, d, b, n
<1>4. CASE j # n
  <2>1. d[Len(d)] = data[j]
    <3> DEFINE l == j - i + 1
    <3>1. l \in 1..(j - i + 1) /\ i + l - 1 = j
      BY ONLY <1>0
    <3> HIDE DEF l
    <3>2. d[l] = data[j]
      BY <1>2, <3>1
    <3> QED BY <1>2, <3>2 DEF l
  <2>2. b[1] = data[j + 1]
    <3>1. 1 \in 1..(n - j)
      BY ONLY <1>0, <1>4
    <3> QED BY <1>2, <3>1
  <2>3. ~isNameByte(data[j]) \/ ~isNameByte(data[j + 1])
    <3> DEFINE l == j + 1
    <3>1. l - 1 = j /\ l # 1
      BY ONLY <1>0
    <3>0. l \in Starts(data)
      BY <1>4 DEF n
    <3> HIDE DEF l
    <3>2. ~isNameByte(data[l - 1]) \/ ~isNameByte(data[l])
      BY <3>0, <3>1 DEF Starts
    <3>3. ~isNameByte(data[j]) \/ ~isNameByte(data[l])
      BY <3>1, <3>2
    <3> QED BY <3>3 DEF l
  <2> QED BY <2>1, <2>2, <2>3 DEF Separate, d, b, n
<1> QED BY <1>3, <1>4

(* Renaming byte by byte replaces exactly the tokens that are the alias.   *)
LEMMA TokensRenamed ==
  ASSUME NEW data \in Seq(Bytes), NEW from \in Identifiers, NEW to \in Identifiers,
         NEW scan, Renaming(data, from, to, scan)
  PROVE  /\ scan[1] \in Seq(Bytes) /\ Alike(scan[1], data)
         /\ Tokens(scan[1]) = Substituted(Tokens(data), OnePair(from, to))
<1> DEFINE n == Len(data)
           N == n + 1
           R == OnePair(from, to)
           after(i) == SubSeq(data, i, n)
           S == {i \in 1..N : i = N \/ i \in Starts(data)
                               => Tokens(scan[i]) = Substituted(Tokens(after(i)), R)}
<1>1. /\ n \in Nat /\ N \in Nat /\ N \in 1..N /\ 1 \in 1..N /\ DOMAIN data = 1..n
      /\ Starts(data) \subseteq 1..n
  BY LenProperties DEF Starts
<1>2. /\ \A i \in 1..N : scan[i] \in Seq(Bytes) /\ Alike(scan[i], after(i))
      /\ scan[N] = << >>
  <2> DEFINE hits == Found(data, from, TRUE)
             len == [k \in 1..n |-> Len(from)]
             put == [k \in 1..n |-> to]
  <2>1. Rewriting(data, hits, len, put, scan)
    BY DEF Renaming
  <2> HIDE DEF hits, len, put
  <2>2. scan \in [1..(Len(data) + 1) -> Seq(Bytes)] /\ scan[Len(data) + 1] = << >>
    BY <2>1 DEF Rewriting
  <2>3. \A i \in 1..(Len(data) + 1) : Alike(scan[i], SubSeq(data, i, Len(data)))
    BY <2>1, RewritingAlike
  <2> QED BY <2>2, <2>3
<1>3. \A i \in 1..N : after(i) \in Seq(Bytes)
  <2> SUFFICES ASSUME NEW i \in 1..N PROVE after(i) \in Seq(Bytes)
    OBVIOUS
  <2>1. i \in 1..(Len(data) + 1) /\ n \in (i - 1)..Len(data)
    BY <1>1
  <2> HIDE DEF n
  <2> QED BY <2>1, CutInTwo
<1>4. after(N) = << >>
  <2>1. N \in 1..(Len(data) + 1) /\ n \in (N - 1)..Len(data) /\ n < N
    BY <1>1
  <2> HIDE DEF N, n
  <2> QED BY <2>1, CutInTwo
<1>5. \A d \in DOMAIN R : R[d] \in Seq(Bytes)
  BY IdentifierShape DEF OnePair
<1>6. \A i \in 1..N : (\A j \in (i + 1)..N : j \in S) => i \in S
  <2> SUFFICES ASSUME NEW i \in 1..N, \A j \in (i + 1)..N : j \in S, i = N \/ i \in Starts(data)
               PROVE  Tokens(scan[i]) = Substituted(Tokens(after(i)), R)
    OBVIOUS
  <2>1. CASE i = N
    <3> HIDE DEF N, after, R
    <3> QED BY <1>2, <1>4, <2>1, SubstitutedNone
  <2>2. CASE i # N
    <3>1. i \in Starts(data) /\ i \in 1..Len(data)
      BY <1>1, <2>2
    <3>2. PICK j \in i..Len(data) : TokenEnds(data, i, j)
      BY <3>1, TokenShape
    <3> DEFINE s == j + 1
               d == SubSeq(data, i, j)
               w == IF d = from THEN to ELSE d
    <3>0. n \in Int /\ i \in Int /\ j \in Int /\ 1 <= i /\ i <= j /\ j <= n
      BY <1>1, <3>1
    <3>3. /\ i \in 1..(Len(data) + 1) /\ j \in (i - 1)..Len(data)
          /\ s \in (i + 1)..N /\ s \in 1..N /\ j \in 1..n /\ (j = n => s = N)
      <4> HIDE DEF n
      <4> QED BY ONLY <3>0 DEF n
    <3>4. d \in Seq(Bytes) /\ after(i) = d \o after(s)
      BY ONLY data \in Seq(Bytes), <3>3, CutInTwo DEF n
    <3>5. s = N \/ s \in Starts(data)
      BY <3>2, <3>3 DEF TokenEnds
    <3>6. Tokens(scan[s]) = Substituted(Tokens(after(s)), R)
      <4>1. s \in S
        <5> HIDE DEF s, S
        <5> QED BY <3>3
      <4> HIDE DEF s
      <4> QED BY <3>5, <4>1
    <3>7. scan[i] = w \o scan[s]
      <4>1. Turned(data, from, to, scan, i, j)
        BY <3>1, <3>2, TokenScanned
      <4> QED BY <4>1 DEF Turned
    <3>8. Tokens(d) = <<d>> /\ Starts(d) = {1}
      BY <3>1, <3>2, TokenIsToken
    <3>9. w \in Seq(Bytes) /\ Tokens(w) = <<w>> /\ Alike(w, d)
      <4>1. CASE d = from
        <5>1. /\ to \in Seq(Bytes) /\ to # << >> /\ \A k \in 1..Len(to) : to[k] \in NameBytes
              /\ from # << >> /\ \A k \in 1..Len(from) : from[k] \in NameBytes
              /\ from \in Seq(Bytes)
          BY IdentifierShape
        <5>2. Tokens(to) = <<to>>
          BY IdentifierIsToken
        <5>3. Alike(to, from)
          BY <5>1, NamesAlike
        <5> QED BY <4>1, <5>1, <5>2, <5>3
      <4>2. CASE d # from
        <5>1. Alike(d, d)
          BY DEF Alike
        <5> QED BY <3>4, <3>8, <4>2, <5>1
      <4> QED BY <4>1, <4>2
    <3>10. Separate(d, after(s))
      <4>1. j = Len(data) \/ j + 1 \in Starts(data)
        BY <3>2 DEF TokenEnds
      <4> QED BY <3>1, <4>1, SeparateAtStart
    <3>11. w = IF d \in DOMAIN R THEN R[d] ELSE d
      BY DEF OnePair
    <3>12. /\ scan[s] \in Seq(Bytes) /\ Alike(scan[s], after(s)) /\ after(s) \in Seq(Bytes)
      BY <1>2, <1>3, <3>3
    <3> HIDE DEF d, w, s, after, R, S, N, n
    <3>13. Separate(w, scan[s])
      BY <3>9, <3>10, <3>12, SeparateAlike
    <3>14. /\ Tokens(scan[i]) = Tokens(w) \o Tokens(scan[s])
           /\ Tokens(after(i)) = Tokens(d) \o Tokens(after(s))
           /\ Tokens(d) \in Seq(Seq(Bytes)) /\ Tokens(after(s)) \in Seq(Seq(Bytes))
      BY <3>4, <3>7, <3>9, <3>10, <3>12, <3>13, TokensParts
    <3>15. Substituted(Tokens(after(i)), R)
             = Substituted(Tokens(d), R) \o Substituted(Tokens(after(s)), R)
      BY <1>5, <3>14, SubstitutedParts
    <3>16. Substituted(Tokens(d), R) = Tokens(w)
      BY <3>4, <3>8, <3>9, <3>11, SubstitutedOne
    <3> QED BY <3>6, <3>14, <3>15, <3>16
  <2> QED BY <2>1, <2>2
<1>7. \A i \in 1..N : i \in S
  <2> HIDE DEF N, S
  <2> QED BY <1>1, <1>6, Backwards
<1>8. 1 = N \/ 1 \in Starts(data)
  BY <1>1 DEF Starts
<1>9. after(1) = data
  BY SubSeqFull
<1> HIDE DEF after, N
<1> QED BY <1>1, <1>2, <1>7, <1>8, <1>9

-----------------------------------------------------------------------------
(***************************************************************************)
(* The inductive invariant.  Up to a chunk end c the response is restored  *)
(* and delivered; behind it, what the host passed is in the hook with the  *)
(* pairs applied that are no longer ahead.  This is what has to be known   *)
(* of a chunk half restored, and Alike is what lets it be joined with what *)
(* was delivered before it.                                                *)
(***************************************************************************)

\* The pairs of R but for those of the aliases in A.
Without(R, A) == [d \in DOMAIN R \ A |-> R[d]]

(* One more pair after those that came before: what a pair puts in is not  *)
(* an alias, so that no replacement is replaced again.                     *)
LEMMA SubstitutedTwice ==
  ASSUME NEW R, \A d, e \in DOMAIN R : R[d] # e,
         NEW A, NEW fake \in A, fake \in DOMAIN R,
         NEW t
  PROVE  Substituted(Substituted(t, Without(R, A)), OnePair(fake, R[fake]))
           = Substituted(t, Without(R, A \ {fake}))
<1> DEFINE P == Without(R, A)
           Q == Without(R, A \ {fake})
           O == OnePair(fake, R[fake])
           u == Substituted(t, P)
           one(d) == IF d \in DOMAIN P THEN P[d] ELSE d
           two(d) == IF d \in DOMAIN Q THEN Q[d] ELSE d
           last(d) == IF d \in DOMAIN O THEN O[d] ELSE d
<1>1. \A d : last(one(d)) = two(d)
  <2> SUFFICES ASSUME NEW d PROVE last(one(d)) = two(d)
    OBVIOUS
  <2>1. CASE d \in DOMAIN R /\ d \notin A
    <3>1. one(d) = R[d] /\ two(d) = R[d]
      BY <2>1 DEF Without
    <3>2. R[d] \notin DOMAIN O
      BY <2>1 DEF OnePair
    <3> HIDE DEF one, two, O
    <3> QED BY <3>1, <3>2
  <2>2. CASE d = fake
    <3>1. one(d) = fake /\ two(d) = R[fake] /\ fake \in DOMAIN O /\ O[fake] = R[fake]
      BY <2>2 DEF Without, OnePair
    <3> HIDE DEF one, two, O
    <3> QED BY <3>1
  <2>3. CASE ~(d \in DOMAIN R /\ d \notin A) /\ d # fake
    <3>1. one(d) = d /\ two(d) = d /\ d \notin DOMAIN O
      BY <2>3 DEF Without, OnePair
    <3> HIDE DEF one, two, O
    <3> QED BY <3>1
  <2> QED BY <2>1, <2>2, <2>3
<1>2. u = [k \in DOMAIN t |-> one(t[k])]
  BY DEF Substituted
<1>3. Substituted(t, Q) = [k \in DOMAIN t |-> two(t[k])]
  BY DEF Substituted
<1>4. \A v : Substituted(v, O) = [k \in DOMAIN v |-> last(v[k])]
  BY DEF Substituted
<1> HIDE DEF u, one, two, last, O, P, Q
<1>5. Substituted(u, O) = [k \in DOMAIN t |-> last(one(t[k]))]
  BY <1>2, <1>4
<1> QED BY <1>1, <1>3, <1>5 DEF u, O, P, Q

(* Before the first pair nothing is replaced, after the last all are.      *)
LEMMA SubstitutedAllOrNone ==
  ASSUME NEW R, R = [d \in DOMAIN R |-> R[d]], NEW S, NEW t \in Seq(S)
  PROVE  /\ Without(R, {}) = R
         /\ Substituted(t, Without(R, DOMAIN R)) = t
<1>1. Without(R, {}) = R
  BY DEF Without
<1>2. DOMAIN Without(R, DOMAIN R) = {}
  BY DEF Without
<1>3. Substituted(t, Without(R, DOMAIN R)) = [k \in DOMAIN t |-> t[k]]
  BY <1>2 DEF Substituted
<1>4. t = [k \in DOMAIN t |-> t[k]]
  BY LenProperties
<1> QED BY <1>1, <1>3, <1>4

passed == Len(response) - Len(rest)

NoNameCut == \A c \in cuts : ~CutsAName(c)

\* Of response, what stands up to c is restored and delivered, and what the
\* host passed behind it is in the hook, restored but for the pairs ahead.
RestoredUpTo(c) ==
  LET done == SubSeq(response, 1, c)
      src  == SubSeq(response, c + 1, passed)
  IN  /\ c \in cuts \cup {0}
      /\ chunk = << >> => c = passed
      /\ Alike(out, done)
      /\ Tokens(out) = Substituted(Tokens(done), RequestReverse)
      /\ Alike(chunk, src)
      /\ Tokens(chunk) = Substituted(Tokens(src), Without(RequestReverse, ahead))

\* The inductive invariant behind the properties of a response with a map,
\* and of the framing of any.
RestoredInv ==
  /\ StreamTyped
  /\ passed \in cuts \cup {0}
  /\ rest = SubSeq(response, passed + 1, Len(response))
  /\ Framing(out \o chunk \o rest) = Framing(response)
  /\ mapped /\ NoNameCut => \E c \in 0..passed : RestoredUpTo(c)

\* x is data with from replaced by to; with wholeNames, token by token.
Kept(data, from, to, wholeNames, x) ==
  /\ x \in Seq(Bytes)
  /\ Framing(x) = Framing(data)
  /\ Alike(x, data)
  /\ wholeNames => Tokens(x) = Substituted(Tokens(data), OnePair(from, to))

(* What either scan keeps, and what replacing whole names does to tokens.  *)
LEMMA ScanKeeps ==
  ASSUME NEW data \in Seq(Bytes), NEW from \in Identifiers, NEW to \in Identifiers,
         NEW wholeNames \in BOOLEAN
  PROVE  Kept(data, from, to, wholeNames, Scan(data, from, to, wholeNames))
<1> DEFINE hits == Found(data, from, wholeNames)
           len == [i \in 1..Len(data) |-> Len(from)]
           put == [i \in 1..Len(data) |-> to]
           x == Scan(data, from, to, wholeNames)
<1>1. PICK scan : x = scan[1] /\ Rewriting(data, hits, len, put, scan)
  BY ScanRewrites
<1> HIDE DEF x
<1>2. scan[1] \in Seq(Bytes) /\ Framing(scan[1]) = Framing(data)
  <2> HIDE DEF hits, len, put
  <2> QED BY <1>1, RewritingFraming
<1>3. Alike(scan[1], data)
  <2>1. \A i \in 1..(Len(data) + 1) : Alike(scan[i], SubSeq(data, i, Len(data)))
    <3> HIDE DEF hits, len, put
    <3> QED BY <1>1, RewritingAlike
  <2>2. 1 \in 1..(Len(data) + 1)
    BY LenProperties
  <2>3. SubSeq(data, 1, Len(data)) = data
    BY SubSeqFull
  <2> QED BY <2>1, <2>2, <2>3
<1>4. ASSUME wholeNames PROVE Tokens(scan[1]) = Substituted(Tokens(data), OnePair(from, to))
  <2>1. wholeNames = TRUE
    BY <1>4
  <2>2. Renaming(data, from, to, scan)
    BY <1>1, <2>1 DEF Renaming
  <2> QED BY <2>2, TokensRenamed
<1> QED BY <1>1, <1>2, <1>3, <1>4 DEF Kept, x

(***************************************************************************)
(* replaceWholeNames replaces exactly the tokens that are the alias, and   *)
(* leaves the framing alone: for any data, alias and name.                 *)
(***************************************************************************)
THEOREM WholeNamesReplaced ==
  ASSUME NEW data \in Seq(Bytes), NEW from \in Identifiers, NEW to \in Identifiers
  PROVE  /\ Tokens(ReplaceWhole(data, from, to)) = Substituted(Tokens(data), OnePair(from, to))
         /\ Framing(ReplaceWhole(data, from, to)) = Framing(data)
BY ScanKeeps DEF Kept, ReplaceWhole

(* Alike goes on from one to the next.                                     *)
LEMMA AlikeTrans ==
  ASSUME NEW a, NEW b, NEW c, Alike(a, b), Alike(b, c)
  PROVE  Alike(a, c)
BY DEF Alike

(* The pairs of the response.                                              *)
LEMMA PairsShape ==
  ASSUME mapped \in BOOLEAN
  PROVE  /\ DOMAIN pairs \subseteq Identifiers
         /\ \A fake \in DOMAIN pairs : pairs[fake] \in Identifiers
         /\ \A d, e \in DOMAIN RequestReverse : RequestReverse[d] # e
         /\ RequestReverse = [d \in DOMAIN RequestReverse |-> RequestReverse[d]]
         /\ \A d \in DOMAIN RequestReverse : RequestReverse[d] \in Seq(Bytes)
<1>1. /\ DOMAIN RequestReverse \subseteq Identifiers
      /\ RequestReverse \in [DOMAIN RequestReverse -> Identifiers]
      /\ Range(RequestReverse) \cap DOMAIN RequestReverse = {}
      /\ DOMAIN StaticReverse \subseteq Identifiers
      /\ StaticReverse \in [DOMAIN StaticReverse -> Identifiers]
  BY ReverseAssumption, TableAssumption
<1>2. \A fake \in DOMAIN RequestReverse : RequestReverse[fake] \in Identifiers
  BY <1>1
<1>3. \A fake \in DOMAIN StaticReverse : StaticReverse[fake] \in Identifiers
  BY <1>1
<1>4. \A d, e \in DOMAIN RequestReverse : RequestReverse[d] # e
  BY <1>1 DEF Range
<1> QED BY <1>1, <1>2, <1>3, <1>4, IdentifierShape DEF pairs

(* One iteration of the loop on the chunk in the hook.                     *)
LEMMA PairApplied ==
  ASSUME mapped \in BOOLEAN, chunk \in Seq(Bytes), NEW fake \in DOMAIN pairs
  PROVE  Kept(chunk, fake, pairs[fake], mapped, ReplaceOne(chunk, fake))
<1>1. fake \in Identifiers /\ pairs[fake] \in Identifiers
  BY PairsShape
<1> DEFINE to == pairs[fake]
<1> HIDE DEF to
<1>2. Kept(chunk, fake, to, mapped, Scan(chunk, fake, to, mapped))
  BY <1>1, ScanKeeps DEF to
<1>3. ReplaceOne(chunk, fake) = Scan(chunk, fake, to, mapped)
  <2>1. CASE mapped = TRUE
    BY <2>1 DEF ReplaceOne, ReplaceWhole, to
  <2>2. CASE mapped = FALSE
    BY <2>2 DEF ReplaceOne, replaceAllBytes, to
  <2> QED BY <2>1, <2>2
<1> QED BY <1>2, <1>3 DEF to

(* Nothing joined with a sequence of bytes.                                *)
LEMMA SeqNone ==
  << >> \in Seq(Bytes) /\ Len(<< >>) = 0 /\ \A a \in Seq(Bytes) : a \o << >> = a /\ << >> \o a = a
BY EmptySeq, ConcatEmptySeq

(* What is passed, and what is not, make up the response.                  *)
LEMMA PassedShape ==
  ASSUME StreamTyped
  PROVE  /\ response \in Seq(Bytes) /\ Len(response) \in Nat \ {0}
         /\ passed \in 0..Len(response) /\ Len(rest) = Len(response) - passed
         /\ rest = SubSeq(response, passed + 1, Len(response))
         /\ rest \in Seq(Bytes)
         /\ rest = << >> <=> passed = Len(response)
<1>1. response \in Seq(Bytes) /\ response # << >>
  BY BytesAssumption DEF StreamTyped
<1> DEFINE n == Len(response)
<1>2. n \in Nat \ {0}
  BY <1>1, EmptySeq
<1>3. PICK k \in 0..n : rest = SubSeq(response, k + 1, n)
  BY DEF StreamTyped
<1>4. 1 \in 1..(n + 1) /\ k \in (1 - 1)..n
  BY <1>2
<1>5. rest \in Seq(Bytes) /\ Len(rest) = n - k
  BY ONLY <1>1, <1>3, <1>4, CutInTwo
<1> HIDE DEF n
<1>6. passed = k
  BY <1>2, <1>3, <1>5 DEF passed, n
<1>7. Len(rest) = 0 <=> rest = << >>
  BY <1>5, EmptySeq
<1>8. n - k = 0 <=> k = n
  BY <1>2
<1> QED BY <1>1, <1>2, <1>3, <1>5, <1>6, <1>7, <1>8 DEF n

\* Of tail, what remains of data behind k, a are the first n bytes, b the rest.
CutOff(data, k, n, tail, a, b) ==
  /\ a = SubSeq(data, k + 1, k + n)
  /\ b = SubSeq(data, k + n + 1, Len(data))
  /\ a \in Seq(Bytes) /\ b \in Seq(Bytes) /\ tail = a \o b
  /\ Len(b) = Len(data) - (k + n)
  /\ a # << >>

(* What the host cuts off of the rest, in terms of the response.           *)
LEMMA ChunkCut ==
  ASSUME NEW data \in Seq(Bytes), NEW k \in 0..Len(data), NEW n \in 1..(Len(data) - k),
         NEW tail, tail = SubSeq(data, k + 1, Len(data))
  PROVE  CutOff(data, k, n, tail, SubSeq(tail, 1, n), SubSeq(tail, n + 1, Len(tail)))
<1> DEFINE N == Len(data)
           s == k + 1
           e == k + n
           L == Len(tail)
           a == SubSeq(tail, 1, n)
           b == SubSeq(tail, n + 1, L)
<1>0. N \in Nat /\ k \in Nat /\ k <= N /\ n \in Nat /\ 1 <= n /\ n <= N - k
  BY LenProperties
<1> HIDE DEF N
<1>10. tail = SubSeq(data, s, N)
  BY DEF N
<1>1. /\ 1 \in 1..(N + 1) /\ k \in (1 - 1)..N /\ s \in 1..N /\ N \in 1..N /\ N - s + 1 = N - k
      /\ e \in 1..N /\ e \in (s - 1)..N
  BY ONLY <1>0
<1> HIDE DEF s, e
<1>2. tail \in Seq(Bytes) /\ L = N - k
  <2>1. SubSeq(data, k + 1, N) \in Seq(Bytes) /\ Len(SubSeq(data, k + 1, N)) = N - k
    BY <1>1, CutInTwo DEF N
  <2> QED BY <1>10, <2>1 DEF s
<1> HIDE DEF L
<1>3. 1 \in 1..(L + 1) /\ n \in (1 - 1)..L /\ n \in 1..L /\ 1 \in 1..L /\ n - 1 + 1 = n /\ L \in Nat
  BY ONLY <1>0, <1>2
<1>4. /\ a \in Seq(Bytes) /\ Len(a) = n /\ b \in Seq(Bytes) /\ Len(b) = L - n
      /\ SubSeq(tail, 1, L) = a \o b
  <2>1. /\ a \in Seq(Bytes) /\ Len(a) = n - 1 + 1 /\ b \in Seq(Bytes) /\ Len(b) = L - n
        /\ SubSeq(tail, 1, L) = a \o b
    BY <1>2, <1>3, CutInTwo DEF L
  <2> QED BY <1>3, <2>1
<1>5. tail = a \o b
  <2>1. SubSeq(tail, 1, L) = tail
    BY <1>2, SubSeqFull DEF L
  <2> QED BY <1>4, <2>1
<1>6. Len(b) = N - e
  BY <1>0, <1>2, <1>4 DEF e
<1>7. a # << >>
  <2>1. Len(a) = n /\ n # 0
    BY <1>0, <1>4
  <2> HIDE DEF a
  <2> QED BY <2>1, SeqNone
<1>8. a = SubSeq(data, s, e)
  <2>1. 1 \in 1..(N - s + 1) /\ n \in 1..(N - s + 1) /\ s + 1 - 1 = s /\ s + n - 1 = e
    BY ONLY <1>0, <1>1 DEF s, e
  <2>2. SubSeq(SubSeq(data, s, N), 1, n) = SubSeq(data, s + 1 - 1, s + n - 1)
    BY <1>1, <2>1, SubSeqOfSubSeq DEF N
  <2> QED BY <2>1, <2>2, <1>10 DEF a
<1>9. b = SubSeq(data, e + 1, N)
  <2>1. CASE n = L
    <3>1. Len(b) = 0
      BY <1>3, <1>4, <2>1
    <3>2. e = N
      BY <1>0, <1>2, <2>1 DEF e
    <3>3. N < e + 1 /\ e + 1 \in Int /\ N \in Int
      BY <1>0, <3>2
    <3>4. SubSeq(data, e + 1, N) = << >>
      BY <3>3, SubSeqEmpty
    <3> QED BY <1>4, <3>1, <3>4, EmptySeq
  <2>2. CASE n # L
    <3> DEFINE p == n + 1
    <3>1. /\ p \in 1..(N - s + 1) /\ L \in 1..(N - s + 1)
          /\ s + p - 1 = e + 1 /\ s + L - 1 = N
      BY ONLY <1>0, <1>1, <1>2, <2>2 DEF s, e
    <3> HIDE DEF p
    <3>2. SubSeq(SubSeq(data, s, N), p, L) = SubSeq(data, s + p - 1, s + L - 1)
      BY <1>1, <3>1, SubSeqOfSubSeq DEF N
    <3> QED BY <3>1, <3>2, <1>10 DEF p, b
  <2> QED BY <2>1, <2>2
<1> QED BY <1>4, <1>5, <1>6, <1>7, <1>8, <1>9 DEF CutOff, a, b, L, s, e, N

(* Alike and separate at the ends of what is done and what comes.          *)
LEMMA CutAtNoName ==
  ASSUME NEW c \in 0..Len(response), NEW p \in c..Len(response), response \in Seq(Bytes),
         c = 0 \/ ~CutsAName(c)
  PROVE  Separate(SubSeq(response, 1, c), SubSeq(response, c + 1, p))
<1> DEFINE n == Len(response)
           a == SubSeq(response, 1, c)
           b == SubSeq(response, c + 1, p)
<1>0. n \in Nat /\ c \in Nat /\ p \in Nat /\ c <= p /\ p <= n
  BY LenProperties
<1>1. CASE c = 0
  <2>1. a = << >>
    BY <1>1, SubSeqEmpty
  <2> QED BY <2>1 DEF Separate
<1>2. CASE c = p
  <2>1. p < c + 1 /\ p \in Int /\ c + 1 \in Int
    BY <1>0, <1>2
  <2>2. b = << >>
    BY <2>1, SubSeqEmpty
  <2> QED BY <2>2 DEF Separate
<1>3. CASE c # 0 /\ c # p
  <2> DEFINE s == c + 1
  <2>0. /\ 1 \in 1..(n + 1) /\ c \in (1 - 1)..n /\ c \in 1..(c - 1 + 1) /\ 1 + c - 1 = c /\ c - 1 + 1 = c
        /\ s \in 1..(n + 1) /\ p \in (s - 1)..n /\ 1 \in 1..(p - s + 1) /\ s + 1 - 1 = s /\ c < n
    <3> HIDE DEF n
    <3> QED BY ONLY <1>0, <1>3
  <2> HIDE DEF s
  <2>1. Len(a) = c - 1 + 1 /\ \A k \in 1..(c - 1 + 1) : a[k] = response[1 + k - 1]
    BY <2>0, CutInTwo
  <2>2. a[Len(a)] = response[c]
    <3>1. a[c] = response[1 + c - 1]
      BY <2>0, <2>1
    <3> HIDE DEF a
    <3> QED BY <2>0, <2>1, <3>1
  <2>3. \A k \in 1..(p - s + 1) : SubSeq(response, s, p)[k] = response[s + k - 1]
    BY <2>0, CutInTwo
  <2>4. b[1] = response[s]
    <3>1. SubSeq(response, s, p)[1] = response[s + 1 - 1]
      BY <2>0, <2>3
    <3> QED BY <2>0, <3>1 DEF s
  <2>5. ~isNameByte(response[c]) \/ ~isNameByte(response[s])
    BY <1>3, <2>0 DEF CutsAName, s
  <2> QED BY <2>2, <2>4, <2>5 DEF Separate
<1> QED BY <1>1, <1>2, <1>3

(* The response begins with nothing passed and nothing delivered.          *)
LEMMA RestoredInit ==
  StreamInit => RestoredInv
<1> SUFFICES ASSUME StreamInit PROVE RestoredInv
  OBVIOUS
<1> DEFINE n == Len(response)
<1>1. /\ mapped \in BOOLEAN /\ response \in IF mapped THEN Texts ELSE StaticTexts
      /\ rest = response /\ cuts = {} /\ chunk = << >> /\ ahead = {} /\ out = << >>
  BY DEF StreamInit
<1>2. response \in Seq(Bytes) /\ n \in Nat
  BY <1>1, BytesAssumption, LenProperties
<1>3. response = SubSeq(response, 0 + 1, n) /\ 0 \in 0..n
  BY <1>2, SubSeqFull
<1>4. StreamTyped
  BY <1>1, <1>3, SeqNone DEF StreamTyped
<1>5. passed = 0
  BY <1>1, <1>2 DEF passed
<1>6. out \o chunk \o rest = response
  BY <1>1, <1>2, SeqNone
<1>7. RestoredUpTo(0)
  <2>1. SubSeq(response, 1, 0) = << >> /\ SubSeq(response, 0 + 1, 0) = << >>
    BY SubSeqEmpty
  <2>2. Alike(<< >>, << >>)
    BY DEF Alike
  <2> QED BY <1>1, <1>5, <2>1, <2>2, SubstitutedNone DEF RestoredUpTo
<1>8. 0 \in 0..passed
  BY <1>5
<1> QED BY <1>1, <1>3, <1>4, <1>5, <1>6, <1>7, <1>8 DEF RestoredInv

(* A new chunk: what stands before it is delivered and restored, and       *)
(* it has no pair applied yet.                                             *)
LEMMA RestoredPassChunk ==
  RestoredInv /\ PassChunk => RestoredInv'
<1> SUFFICES ASSUME RestoredInv, PassChunk PROVE RestoredInv'
  OBVIOUS
<1> DEFINE N == Len(response)
<1> PICK k : k = passed
  OBVIOUS
<1>1. StreamTyped
  BY DEF RestoredInv
<1>2. /\ response \in Seq(Bytes) /\ N \in Nat \ {0} /\ k \in 0..N /\ Len(rest) = N - k /\ passed = k
      /\ rest = SubSeq(response, k + 1, N) /\ rest \in Seq(Bytes)
  BY <1>1, PassedShape
<1>3. PICK n \in 1..Len(rest) :
        /\ chunk' = SubSeq(rest, 1, n)
        /\ rest' = SubSeq(rest, n + 1, Len(rest))
        /\ cuts' = cuts \cup {N - Len(rest) + n}
  BY DEF PassChunk
<1>4. /\ chunk = << >> /\ ahead' = DOMAIN pairs
      /\ mapped' = mapped /\ response' = response /\ out' = out
  BY DEF PassChunk
<1>5. n \in 1..(N - k) /\ N - Len(rest) + n = k + n
  BY <1>2
<1>6. /\ chunk' = SubSeq(response, k + 1, k + n)
      /\ rest' = SubSeq(response, k + n + 1, N)
      /\ chunk' \in Seq(Bytes) /\ rest' \in Seq(Bytes) /\ rest = chunk' \o rest'
      /\ Len(rest') = N - (k + n) /\ chunk' # << >>
  <2>1. CutOff(response, k, n, rest, SubSeq(rest, 1, n), SubSeq(rest, n + 1, Len(rest)))
    BY ONLY <1>2, <1>5, ChunkCut
  <2> QED BY <1>3, <2>1 DEF CutOff
<1>7. passed' = k + n /\ k + n \in 1..N /\ k + n \in 0..N /\ k + n \in cuts'
  <2>3. k + n \in cuts'
    BY <1>3, <1>5
  <2> HIDE DEF N
  <2>1. passed' = N - Len(rest')
    BY <1>4 DEF passed, N
  <2>2. passed' = k + n
    BY <1>2, <1>5, <1>6, <2>1
  <2>4. k + n \in 1..N /\ k + n \in 0..N
    BY <1>2, <1>5
  <2> QED BY <2>2, <2>3, <2>4
<1>8. StreamTyped'
  <2>1. \E i \in 0..Len(response') : rest' = SubSeq(response', i + 1, Len(response'))
    <3> DEFINE i == k + n
    <3>1. i \in 0..N /\ rest' = SubSeq(response, i + 1, N)
      BY <1>6, <1>7
    <3> HIDE DEF i
    <3> QED BY <1>4, <3>1
  <2>2. cuts' \subseteq 1..Len(response')
    <3>1. cuts \subseteq 1..N /\ cuts' = cuts \cup {k + n}
      BY <1>1, <1>3, <1>5 DEF StreamTyped
    <3> QED BY <1>4, <1>7, <3>1
  <2>3. ahead' \subseteq DOMAIN pairs'
    BY <1>4 DEF pairs
  <2>4. /\ mapped \in BOOLEAN /\ response \in IF mapped THEN Texts ELSE StaticTexts
        /\ out \in Seq(Bytes)
    BY <1>1 DEF StreamTyped
  <2> QED BY <1>4, <1>6, <2>1, <2>2, <2>3, <2>4 DEF StreamTyped
<1>9. rest' = SubSeq(response', passed' + 1, Len(response'))
  BY <1>4, <1>6, <1>7
<1>10. Framing(out \o chunk \o rest)' = Framing(response)'
  <2>1. out \in Seq(Bytes)
    BY <1>1 DEF StreamTyped
  <2>2. out \o chunk \o rest = out \o (chunk' \o rest')
    BY <1>4, <1>6, <2>1, SeqNone
  <2>3. \A a, b, c \in Seq(Bytes) : a \o (b \o c) = (a \o b) \o c
    BY ConcatAssociative
  <2>4. out \o (chunk' \o rest') = (out \o chunk') \o rest'
    BY <1>6, <2>1, <2>3
  <2>5. Framing(out \o chunk \o rest) = Framing(response)
    BY DEF RestoredInv
  <2> QED BY <1>4, <2>2, <2>4, <2>5
<1>11. ASSUME mapped', NoNameCut'
       PROVE  \E c \in 0..passed' : RestoredUpTo(c)'
  <2>1. mapped /\ NoNameCut
    BY <1>3, <1>4, <1>11 DEF NoNameCut, CutsAName
  <2>2. PICK c \in 0..passed : RestoredUpTo(c)
    BY <2>1 DEF RestoredInv
  <2>3. c = k
    BY <1>2, <1>4, <2>2 DEF RestoredUpTo
  <2>4. /\ k \in cuts \cup {0}
        /\ Alike(out, SubSeq(response, 1, k))
        /\ Tokens(out) = Substituted(Tokens(SubSeq(response, 1, k)), RequestReverse)
    BY <2>2, <2>3 DEF RestoredUpTo
  <2>5. Tokens(chunk') \in Seq(Seq(Bytes))
    <3>1. Separate(chunk', << >>)
      BY DEF Separate
    <3> QED BY <1>6, <3>1, SeqNone, TokensParts
  <2>6. Tokens(chunk') = Substituted(Tokens(chunk'), Without(RequestReverse, ahead'))
    <3>1. RequestReverse = [d \in DOMAIN RequestReverse |-> RequestReverse[d]]
      BY ReverseAssumption
    <3>2. ahead' = DOMAIN RequestReverse
      BY <1>4, <2>1 DEF pairs
    <3> QED BY <2>5, <3>1, <3>2, SubstitutedAllOrNone
  <2>7. Alike(chunk', chunk')
    BY DEF Alike
  <2>8. chunk' = SubSeq(response', k + 1, passed')
    BY <1>4, <1>6, <1>7
  <2>9. k \in (cuts \cup {0})'
    BY <1>3, <2>4
  <2>10. /\ Alike(out, SubSeq(response, 1, k))'
         /\ (Tokens(out) = Substituted(Tokens(SubSeq(response, 1, k)), RequestReverse))'
    <3> QED BY <1>4, <2>4
  <2>11. k \in 0..passed'
    BY <1>2, <1>5, <1>7
  <2>12. \A i : i = k => RestoredUpTo(i)'
    <3> SUFFICES ASSUME NEW i, i = k PROVE RestoredUpTo(i)'
      OBVIOUS
    <3> QED BY <1>4, <1>6, <2>6, <2>7, <2>8, <2>9, <2>10 DEF RestoredUpTo
  <2> QED BY <2>11, <2>12
<1>12. passed' \in (cuts \cup {0})'
  BY <1>7
<1> HIDE DEF N
<1> QED BY <1>8, <1>9, <1>10, <1>11, <1>12 DEF RestoredInv

(* The framing of three parts.                                             *)
LEMMA ThreeParts ==
  \A a, b, c \in Seq(Bytes) :
    Framing(a \o b \o c) = Framing(a) \o Framing(b) \o Framing(c)
<1> SUFFICES ASSUME NEW a \in Seq(Bytes), NEW b \in Seq(Bytes), NEW c \in Seq(Bytes)
             PROVE  Framing(a \o b \o c) = Framing(a) \o Framing(b) \o Framing(c)
  OBVIOUS
<1> DEFINE d == a \o b
<1>1. d \in Seq(Bytes) /\ Framing(d) = Framing(a) \o Framing(b)
  BY FramingParts
<1> HIDE DEF d
<1>2. Framing(d \o c) = Framing(d) \o Framing(c)
  BY <1>1, FramingParts
<1> QED BY <1>1, <1>2 DEF d

(* A pair applied to the chunk: one alias more is replaced in it.          *)
LEMMA RestoredApplyPair ==
  RestoredInv /\ ApplyPair => RestoredInv'
<1> SUFFICES ASSUME RestoredInv, ApplyPair PROVE RestoredInv'
  OBVIOUS
<1>1. PICK fake \in NextPairs : chunk' = ReplaceOne(chunk, fake) /\ ahead' = ahead \ {fake}
  BY DEF ApplyPair
<1>2. /\ mapped' = mapped /\ response' = response /\ rest' = rest
      /\ cuts' = cuts /\ out' = out
  BY DEF ApplyPair
<1>3. StreamTyped
  BY DEF RestoredInv
<1>4. /\ mapped \in BOOLEAN /\ chunk \in Seq(Bytes) /\ out \in Seq(Bytes)
      /\ fake \in ahead /\ fake \in DOMAIN pairs /\ chunk # << >>
  BY <1>3 DEF StreamTyped, NextPairs
<1>5. Kept(chunk, fake, pairs[fake], mapped, chunk')
  BY <1>1, <1>4, PairApplied
<1>6. /\ chunk' \in Seq(Bytes) /\ Framing(chunk') = Framing(chunk) /\ Alike(chunk', chunk)
      /\ mapped => Tokens(chunk') = Substituted(Tokens(chunk), OnePair(fake, pairs[fake]))
  BY <1>5 DEF Kept
<1>7. chunk' # << >>
  BY <1>4, <1>6 DEF Alike
<1>8. passed' = passed
  BY <1>2 DEF passed
<1>9. StreamTyped'
  <2>1. pairs' = pairs
    BY <1>2 DEF pairs
  <2> QED BY <1>1, <1>2, <1>3, <1>6, <1>7, <2>1 DEF StreamTyped
<1>10. Framing(out \o chunk \o rest)' = Framing(response)'
  <2>1. rest \in Seq(Bytes)
    BY <1>3, PassedShape
  <2>2. Framing(out \o chunk' \o rest) = Framing(out) \o Framing(chunk') \o Framing(rest)
    BY <1>4, <1>6, <2>1, ThreeParts
  <2>3. Framing(out \o chunk \o rest) = Framing(out) \o Framing(chunk) \o Framing(rest)
    BY <1>4, <2>1, ThreeParts
  <2>4. Framing(out \o chunk \o rest) = Framing(response)
    BY DEF RestoredInv
  <2> QED BY <1>2, <1>6, <2>2, <2>3, <2>4
<1>11. ASSUME mapped', NoNameCut'
       PROVE  \E c \in 0..passed' : RestoredUpTo(c)'
  <2>1. mapped /\ NoNameCut
    BY <1>2, <1>11 DEF NoNameCut, CutsAName
  <2>2. PICK c \in 0..passed : RestoredUpTo(c)
    BY <2>1 DEF RestoredInv
  <2> DEFINE src == SubSeq(response, c + 1, passed)
             t == Tokens(src)
  <2>3. /\ c \in cuts \cup {0}
        /\ Alike(out, SubSeq(response, 1, c))
        /\ Tokens(out) = Substituted(Tokens(SubSeq(response, 1, c)), RequestReverse)
        /\ Alike(chunk, src)
        /\ Tokens(chunk) = Substituted(t, Without(RequestReverse, ahead))
    BY <2>2 DEF RestoredUpTo
  <2>4. pairs = RequestReverse
    BY <2>1 DEF pairs
  <2>5. Tokens(chunk') = Substituted(t, Without(RequestReverse, ahead'))
    <3>1. \A d, e \in DOMAIN RequestReverse : RequestReverse[d] # e
      BY <1>4, PairsShape
    <3>2. Tokens(chunk') = Substituted(Tokens(chunk), OnePair(fake, RequestReverse[fake]))
      BY <1>6, <2>1, <2>4
    <3>3. fake \in ahead /\ fake \in DOMAIN RequestReverse
      BY <1>4, <2>4
    <3> HIDE DEF t
    <3>4. Substituted(Substituted(t, Without(RequestReverse, ahead)),
                      OnePair(fake, RequestReverse[fake]))
            = Substituted(t, Without(RequestReverse, ahead \ {fake}))
      BY <3>1, <3>3, SubstitutedTwice
    <3> QED BY <1>1, <2>3, <3>2, <3>4
  <2>6. Alike(chunk', src)
    BY <1>6, <2>3, AlikeTrans
  <2>7. src' = src
    BY <1>2, <1>8
  <2>8. RestoredUpTo(c)'
    BY <1>2, <1>7, <1>8, <2>3, <2>5, <2>6 DEF RestoredUpTo
  <2> HIDE DEF src, t
  <2> QED BY <1>8, <2>8
<1>12. /\ passed' \in (cuts \cup {0})'
       /\ rest' = SubSeq(response', passed' + 1, Len(response'))
  BY <1>2, <1>8 DEF RestoredInv
<1> QED BY <1>9, <1>10, <1>11, <1>12 DEF RestoredInv

(* A chunk with all pairs applied joins what was delivered.                *)
LEMMA RestoredDeliverChunk ==
  RestoredInv /\ DeliverChunk => RestoredInv'
<1> SUFFICES ASSUME RestoredInv, DeliverChunk PROVE RestoredInv'
  OBVIOUS
<1>1. /\ chunk # << >> /\ ahead = {} /\ out' = out \o chunk /\ chunk' = << >>
      /\ mapped' = mapped /\ response' = response /\ rest' = rest
      /\ cuts' = cuts /\ ahead' = ahead
  BY DEF DeliverChunk
<1>2. StreamTyped
  BY DEF RestoredInv
<1>3. /\ mapped \in BOOLEAN /\ chunk \in Seq(Bytes) /\ out \in Seq(Bytes)
      /\ cuts \subseteq 1..Len(response)
  BY <1>2 DEF StreamTyped
<1>4. /\ response \in Seq(Bytes) /\ Len(response) \in Nat \ {0}
      /\ passed \in 0..Len(response) /\ rest \in Seq(Bytes)
  BY <1>2, PassedShape
<1>5. passed' = passed
  BY <1>1 DEF passed
<1>6. StreamTyped'
  <2>1. pairs' = pairs
    BY <1>1 DEF pairs
  <2>2. out' \in Seq(Bytes)
    BY <1>1, <1>3, ConcatProperties
  <2> QED BY <1>1, <1>2, <2>1, <2>2, SeqNone DEF StreamTyped
<1>7. Framing(out \o chunk \o rest)' = Framing(response)'
  <2> DEFINE o == out \o chunk
  <2>1. o \in Seq(Bytes)
    BY <1>3, ConcatProperties
  <2> HIDE DEF o
  <2>2. o \o << >> = o
    BY <2>1, SeqNone
  <2>3. out' \o chunk' \o rest' = o \o rest
    BY <1>1, <2>2 DEF o
  <2>4. Framing(out \o chunk \o rest) = Framing(response)
    BY DEF RestoredInv
  <2> QED BY <1>1, <2>3, <2>4 DEF o
<1>8. ASSUME mapped', NoNameCut'
      PROVE  \E c \in 0..passed' : RestoredUpTo(c)'
  <2>1. mapped /\ NoNameCut
    BY <1>1, <1>8 DEF NoNameCut, CutsAName
  <2>2. PICK c \in 0..passed : RestoredUpTo(c)
    BY <2>1 DEF RestoredInv
  <2> DEFINE done == SubSeq(response, 1, c)
             src == SubSeq(response, c + 1, passed)
             all == SubSeq(response, 1, passed)
             T == Seq(Seq(Bytes))
  <2>3. /\ c \in cuts \cup {0}
        /\ Alike(out, done)
        /\ Tokens(out) = Substituted(Tokens(done), RequestReverse)
        /\ Alike(chunk, src)
        /\ Tokens(chunk) = Substituted(Tokens(src), Without(RequestReverse, ahead))
    BY <2>2 DEF RestoredUpTo
  <2>4. Without(RequestReverse, ahead) = RequestReverse
    BY <1>1, <1>3, PairsShape DEF Without
  <2>5. c \in 0..Len(response) /\ passed \in c..Len(response) /\ (c = 0 \/ ~CutsAName(c))
    BY <1>4, <2>1, <2>3 DEF NoNameCut
  <2>6. Separate(done, src)
    BY <1>4, <2>5, CutAtNoName
  <2>7. done \in Seq(Bytes) /\ src \in Seq(Bytes) /\ all = done \o src
    <3> PICK p \in Nat : p = passed
      BY <1>4
    <3>1. /\ 1 \in 1..(Len(response) + 1) /\ c \in (1 - 1)..Len(response)
          /\ c + 1 \in 1..(Len(response) + 1) /\ p \in ((c + 1) - 1)..Len(response)
          /\ p \in c..Len(response)
      BY <1>4, <2>5
    <3>2. done \in Seq(Bytes)
      BY ONLY <1>4, <3>1, CutInTwo
    <3>3. SubSeq(response, c + 1, p) \in Seq(Bytes)
      <4> DEFINE s == c + 1
      <4>1. s \in 1..(Len(response) + 1) /\ p \in (s - 1)..Len(response)
        BY <3>1
      <4> HIDE DEF s
      <4>2. SubSeq(response, s, p) \in Seq(Bytes)
        BY ONLY <1>4, <4>1, CutInTwo
      <4> QED BY <4>2 DEF s
    <3>4. SubSeq(response, 1, p) = SubSeq(response, 1, c) \o SubSeq(response, c + 1, p)
      BY ONLY <1>4, <3>1, ConcatAdjacentSubSeq
    <3> QED BY <3>2, <3>3, <3>4
  <2> HIDE DEF done, src, all, T
  <2>8. Separate(out, chunk)
    BY <2>3, <2>6, SeparateAlike
  <2>9. Tokens(out \o chunk) = Tokens(out) \o Tokens(chunk)
    BY <1>3, <2>8, TokensParts
  <2>10. Tokens(all) = Tokens(done) \o Tokens(src) /\ Tokens(done) \in T /\ Tokens(src) \in T
    BY <2>6, <2>7, TokensParts DEF T
  <2>11. Tokens(out \o chunk) = Substituted(Tokens(all), RequestReverse)
    <3>1. \A d \in DOMAIN RequestReverse : RequestReverse[d] \in Seq(Bytes)
      BY <1>3, PairsShape
    <3>2. Substituted(Tokens(done) \o Tokens(src), RequestReverse)
            = Substituted(Tokens(done), RequestReverse) \o Substituted(Tokens(src), RequestReverse)
      BY <2>10, <3>1, SubstitutedParts DEF T
    <3> QED BY <2>3, <2>4, <2>9, <2>10, <3>2
  <2>12. Alike(out \o chunk, all)
    BY <1>3, <2>3, <2>7, AlikeParts
  <2>13. PICK p : p = passed
    OBVIOUS
  <2>14. /\ Alike(out', SubSeq(response, 1, p))
         /\ Tokens(out') = Substituted(Tokens(SubSeq(response, 1, p)), RequestReverse)
    BY <1>1, <2>11, <2>12, <2>13 DEF all
  <2>15. SubSeq(response, p + 1, p) = << >>
    <3>1. p \in Int /\ p + 1 \in Int /\ p < p + 1
      BY <1>4, <2>13
    <3> QED BY <3>1, SubSeqEmpty
  <2>16. Alike(<< >>, << >>)
    BY DEF Alike
  <2>17. p \in cuts \cup {0} /\ p \in 0..p /\ passed' = p
    BY <1>4, <1>5, <2>13 DEF RestoredInv
  <2>18. RestoredUpTo(p)'
    BY <1>1, <2>14, <2>15, <2>16, <2>17, SubstitutedNone DEF RestoredUpTo
  <2> QED BY <2>17, <2>18
<1>9. /\ passed' \in (cuts \cup {0})'
      /\ rest' = SubSeq(response', passed' + 1, Len(response'))
  BY <1>1, <1>5 DEF RestoredInv
<1> QED BY <1>6, <1>7, <1>8, <1>9 DEF RestoredInv

(* Every step keeps the invariant.                                         *)
LEMMA RestoredNext == RestoredInv /\ [StreamNext]_streamVars => RestoredInv'
<1> SUFFICES ASSUME RestoredInv, [StreamNext]_streamVars PROVE RestoredInv'
  OBVIOUS
<1>1. CASE PassChunk
  BY <1>1, RestoredPassChunk
<1>2. CASE ApplyPair
  BY <1>2, RestoredApplyPair
<1>3. CASE DeliverChunk
  BY <1>3, RestoredDeliverChunk
<1>4. CASE UNCHANGED streamVars
  <2>1. /\ mapped' = mapped /\ response' = response /\ rest' = rest /\ cuts' = cuts
        /\ chunk' = chunk /\ ahead' = ahead /\ out' = out
    BY <1>4 DEF streamVars
  <2>2. pairs' = pairs /\ passed' = passed
    BY <2>1 DEF pairs, passed
  <2>3. StreamTyped'
    <3>1. StreamTyped
      BY DEF RestoredInv
    <3> QED BY <2>1, <2>2, <3>1 DEF StreamTyped
  <2>4. NoNameCut' = NoNameCut
    BY <2>1 DEF NoNameCut, CutsAName
  <2>5. \A c : RestoredUpTo(c) => RestoredUpTo(c)'
    BY <2>1, <2>2 DEF RestoredUpTo
  <2> QED BY <2>1, <2>2, <2>3, <2>4, <2>5 DEF RestoredInv
<1> QED BY <1>1, <1>2, <1>3, <1>4 DEF StreamNext

(* So it holds always.                                                     *)
LEMMA RestoredAlways == StreamSpec => []RestoredInv
BY RestoredInit, RestoredNext, PTL DEF StreamSpec

(* A response all of which is delivered.                                   *)
LEMMA DeliveredShape ==
  ASSUME RestoredInv, Delivered
  PROVE  /\ passed = Len(response) /\ Len(response) \in Nat \ {0}
         /\ response \in Seq(Bytes) /\ out \in Seq(Bytes)
<1>1. StreamTyped
  BY DEF RestoredInv
<1> QED BY <1>1, PassedShape DEF Delivered, StreamTyped

(* Every state of a response under way is well typed. *)
THEOREM StreamTypeOK == StreamSpec => []StreamTyped
<1>1. RestoredInv => StreamTyped
  BY DEF RestoredInv
<1> QED BY <1>1, RestoredAlways, PTL

(***************************************************************************)
(* However the host cuts a response into chunks, with a map or without,    *)
(* restoreToolNamesInBytes leaves what is not part of a name alone, byte   *)
(* for byte and in its order.                                              *)
(***************************************************************************)
THEOREM StreamFramingKept == StreamSpec => []FramingKept
<1>1. RestoredInv => FramingKept
  <2> SUFFICES ASSUME RestoredInv, Delivered PROVE Framing(out) = Framing(response)
    BY DEF FramingKept
  <2>1. out \o chunk \o rest = out
    <3>1. out \in Seq(Bytes) /\ chunk = << >> /\ rest = << >>
      BY DeliveredShape DEF Delivered
    <3> QED BY <3>1, SeqNone
  <2>2. Framing(out \o chunk \o rest) = Framing(response)
    BY DEF RestoredInv
  <2> QED BY <2>1, <2>2
<1> QED BY <1>1, RestoredAlways, PTL

(***************************************************************************)
(* With a map, and with no chunk that ends inside a name, the scans of     *)
(* replaceWholeNames, pair after pair and chunk after chunk, deliver the   *)
(* response with exactly the whole identifiers that are aliases replaced,  *)
(* for any aliases, names and bytes.                                       *)
(***************************************************************************)
THEOREM StreamRestoredBetweenNames == StreamSpec => []RestoredBetweenNames
<1>1. RestoredInv => RestoredBetweenNames
  <2> SUFFICES ASSUME RestoredInv, Delivered, mapped, \A c \in cuts : ~CutsAName(c)
               PROVE  Tokens(out) = Substituted(Tokens(response), RequestReverse)
    BY DEF RestoredBetweenNames
  <2>1. PICK c \in 0..passed : RestoredUpTo(c)
    BY DEF RestoredInv, NoNameCut
  <2>2. c = Len(response)
    BY <2>1, DeliveredShape DEF RestoredUpTo, Delivered
  <2>3. SubSeq(response, 1, c) = response
    BY <2>2, DeliveredShape, SubSeqFull
  <2> QED BY <2>1, <2>3 DEF RestoredUpTo
<1> QED BY <1>1, RestoredAlways, PTL

\* d is the first token of data and r is the rest of data.
FirstToken(data, d, r) ==
  /\ d \in Seq(Bytes) /\ r \in Seq(Bytes)
  /\ data = d \o r
  /\ Len(r) < Len(data)
  /\ Tokens(r) \in Seq(Seq(Bytes))
  /\ Tokens(data) = <<d>> \o Tokens(r)

(* Data that is not empty has a first token.                               *)
LEMMA FirstTokenExists ==
  ASSUME NEW data \in Seq(Bytes), data # << >>
  PROVE  \E d, r : FirstToken(data, d, r)
<1> DEFINE n == Len(data)
<1>1. n \in Nat \ {0} /\ 1 \in 1..n /\ 1 \in 1..(n + 1)
  BY EmptySeq, LenProperties
<1>2. PICK j \in 1..n : TokenEnds(data, 1, j)
  BY <1>1, TokenShape
<1> DEFINE d == SubSeq(data, 1, j)
           r == SubSeq(data, j + 1, n)
<1>3. j \in (1 - 1)..n /\ n - j < n /\ (j = n \/ j + 1 \in Starts(data))
  BY <1>1, <1>2 DEF TokenEnds
<1>4. /\ d \in Seq(Bytes) /\ r \in Seq(Bytes) /\ Len(r) = n - j
      /\ SubSeq(data, 1, n) = d \o r
  BY <1>1, <1>3, CutInTwo
<1>5. data = d \o r
  BY <1>4, SubSeqFull
<1>6. Separate(d, r)
  BY <1>1, <1>3, SeparateAtStart
<1>7. Tokens(d) = <<d>>
  BY <1>1, <1>2, TokenIsToken
<1> HIDE DEF d, r
<1>8. Tokens(r) \in Seq(Seq(Bytes)) /\ Tokens(d \o r) = Tokens(d) \o Tokens(r)
  BY <1>4, <1>6, TokensParts
<1> HIDE DEF n
<1>9. Len(r) < Len(data)
  BY <1>3, <1>4 DEF n
<1>10. Tokens(data) = <<d>> \o Tokens(r)
  BY <1>5, <1>7, <1>8
<1>11. FirstToken(data, d, r)
  BY <1>4, <1>5, <1>8, <1>9, <1>10 DEF FirstToken
<1> QED BY <1>11

\* d and then s are the tokens that e and then t are.
SameTokens(d, s, e, t) ==
  /\ d \in Seq(Bytes) /\ e \in Seq(Bytes)
  /\ s \in Seq(Seq(Bytes)) /\ t \in Seq(Seq(Bytes))
  /\ <<d>> \o s = <<e>> \o t

(* Sequences of tokens that are equal have equal first tokens and rests.   *)
LEMMA SameFirstToken ==
  ASSUME NEW d, NEW s, NEW e, NEW t, SameTokens(d, s, e, t)
  PROVE  d = e /\ s = t
<1> DEFINE S == Seq(Bytes)
           u == <<d>>
           v == <<e>>
<1>1. u \in Seq(S) /\ v \in Seq(S) /\ Len(u) = 1 /\ Len(v) = 1 /\ u[1] = d /\ v[1] = e
  BY DEF SameTokens
<1>2. s \in Seq(S) /\ t \in Seq(S) /\ u \o s = v \o t
  BY DEF SameTokens
<1> HIDE DEF S, u, v
<1>3. Len(s) \in Nat /\ Len(t) \in Nat
  BY <1>2, LenProperties
<1>4. (u \o s)[1] = d /\ (v \o t)[1] = e
  <2>1. 1 \in 1..(1 + Len(s)) /\ 1 \in 1..(1 + Len(t))
    BY <1>3
  <2> QED BY <1>1, <1>2, <2>1, ConcatProperties
<1>5. d = e
  BY <1>2, <1>4
<1>6. u = v
  BY <1>5 DEF u, v
<1>7. \A a, b, c \in Seq(S) : a \o b = a \o c => b = c
  BY ConcatSimplifications
<1>8. s = t
  BY <1>1, <1>2, <1>6, <1>7
<1> QED BY <1>5, <1>8

(***************************************************************************)
(* Data with the same tokens is the same: what RestoredBetweenNames says   *)
(* of the tokens of a response fixes every byte the client gets.           *)
(***************************************************************************)
THEOREM TokensFixData ==
  ASSUME NEW x \in Seq(Bytes), NEW y \in Seq(Bytes), Tokens(x) = Tokens(y)
  PROVE  x = y
<1> DEFINE Differ(a, b) == Tokens(a) = Tokens(b) /\ a # b
           T == {n \in Nat : \E a, b \in Seq(Bytes) : Len(a) = n /\ Differ(a, b)}
<1>1. ASSUME NEW a \in Seq(Bytes), a # << >> PROVE Tokens(a) # << >>
  <2>1. PICK d, r : FirstToken(a, d, r)
    BY <1>1, FirstTokenExists
  <2>2. d \in Seq(Bytes) /\ Tokens(r) \in Seq(Seq(Bytes)) /\ Tokens(a) = <<d>> \o Tokens(r)
    BY <2>1 DEF FirstToken
  <2> QED BY <2>2
<1>2. Tokens(<< >>) = << >>
  BY SubstitutedNone
<1>3. ASSUME T # {} PROVE FALSE
  <2>1. PICK k \in T : \A l \in T : k <= l
    <3>1. T \in SUBSET Nat
      OBVIOUS
    <3> HIDE DEF T
    <3> QED BY <3>1, <1>3, LeastExists
  <2>2. PICK a, b \in Seq(Bytes) : Len(a) = k /\ Differ(a, b)
    OBVIOUS
  <2>3. a # << >> /\ b # << >>
    BY <1>1, <1>2, <2>2
  <2>4. PICK d, r : FirstToken(a, d, r)
    BY <2>3, FirstTokenExists
  <2>5. PICK e, s : FirstToken(b, e, s)
    BY <2>3, FirstTokenExists
  <2>6. d = e /\ Tokens(r) = Tokens(s)
    <3>1. SameTokens(d, Tokens(r), e, Tokens(s))
      BY <2>2, <2>4, <2>5 DEF FirstToken, SameTokens
    <3> QED BY <3>1, SameFirstToken
  <2>7. r \in Seq(Bytes) /\ s \in Seq(Bytes) /\ Differ(r, s)
    BY <2>2, <2>4, <2>5, <2>6 DEF FirstToken
  <2>8. Len(r) \in T /\ Len(r) < k
    BY <2>2, <2>4, <2>7, LenProperties DEF FirstToken
  <2> HIDE DEF T, Differ
  <2>9. k <= Len(r)
    BY <2>1, <2>8
  <2> QED BY <2>8, <2>9, LenProperties, <2>7, <2>2
<1>4. Len(x) \in Nat
  BY LenProperties
<1> QED BY <1>3, <1>4

-----------------------------------------------------------------------------
(***************************************************************************)
(* Replacing everywhere, in parts.                                         *)
(***************************************************************************)

\* At the hits there is something to replace and an identifier to put there.
Replaceable(data, hits, len, put) ==
  /\ data \in Seq(Bytes)
  /\ hits \in SUBSET (1..Len(data))
  /\ \A i \in hits :
       /\ len[i] \in Nat \ {0}
       /\ i + len[i] <= Len(data) + 1
       /\ \A k \in i..(i + len[i] - 1) : data[k] \in NameBytes
       /\ put[i] \in Identifiers

(* Such a rewriting exists: the recursion from the end of the data.        *)
LEMMA RewritingExists ==
  ASSUME NEW data, NEW hits, NEW len, NEW put, Replaceable(data, hits, len, put)
  PROVE  \E scan : Rewriting(data, hits, len, put, scan)
<1> DEFINE n == Len(data)
           N == n + 1
           pre == [i \in 1..N |-> IF i = N THEN << >> ELSE IF i \in hits THEN put[i] ELSE <<data[i]>>]
           next == [i \in 1..N |-> IF i = N THEN 0 ELSE IF i \in hits THEN i + len[i] ELSE i + 1]
<1>1. /\ data \in Seq(Bytes) /\ n \in Nat /\ N \in Nat /\ N \in 1..N
      /\ hits \in SUBSET (1..n)
      /\ \A i \in hits : len[i] \in Nat \ {0} /\ i + len[i] <= N /\ put[i] \in Identifiers
      /\ \A i \in 1..n : data[i] \in Bytes
      /\ \A i \in hits : i \in 1..n
  BY LenProperties, ElementOfSeq DEF Replaceable
<1> HIDE DEF n
<1>2. \A i \in 1..N : i # N => i \in 1..n /\ i + 1 \in (i + 1)..N
  BY <1>1
<1>3. \A i \in hits : i \in 1..N /\ i # N /\ i + len[i] \in (i + 1)..N
  <2> SUFFICES ASSUME NEW i \in hits PROVE i \in 1..N /\ i # N /\ i + len[i] \in (i + 1)..N
    OBVIOUS
  <2> DEFINE l == len[i]
  <2>1. l \in Nat \ {0} /\ i + l <= N /\ i \in 1..n
    BY <1>1
  <2> HIDE DEF l
  <2>2. i \in 1..N /\ i # N /\ i + l \in (i + 1)..N
    BY <1>1, <2>1
  <2> QED BY <2>2 DEF l
<1>4. \A i \in 1..N : /\ i = N => next[i] = 0 /\ pre[i] = << >>
                      /\ i # N /\ i \in hits => next[i] = i + len[i] /\ pre[i] = put[i]
                      /\ i # N /\ i \notin hits => next[i] = i + 1 /\ pre[i] = <<data[i]>>
  <2> HIDE DEF N
  <2> QED OBVIOUS
<1> HIDE DEF pre, next
<1>5. \A i \in 1..N : next[i] = 0 \/ next[i] \in (i + 1)..N
  <2> HIDE DEF N
  <2> QED BY <1>2, <1>3, <1>4
<1>6. PICK f : Forwards(f, N, pre, next)
  <2> HIDE DEF N
  <2> QED BY <1>1, <1>5, ForwardRecursion
<1>7. /\ DOMAIN f = 1..N /\ f = [i \in 1..N |-> f[i]]
      /\ \A i \in 1..N : f[i] = IF next[i] = 0 THEN pre[i] ELSE pre[i] \o f[next[i]]
  <2> HIDE DEF N
  <2> QED BY <1>6 DEF Forwards
<1>8. f[N] = << >>
  <2> HIDE DEF N
  <2> QED BY <1>1, <1>4, <1>7
<1>9. \A i \in 1..n : i \notin hits => f[i] = <<data[i]>> \o f[i + 1]
  <2> SUFFICES ASSUME NEW i \in 1..n, i \notin hits PROVE f[i] = <<data[i]>> \o f[i + 1]
    OBVIOUS
  <2>1. i \in 1..N /\ i # N /\ i + 1 # 0
    BY <1>1
  <2> HIDE DEF N
  <2> QED BY <1>4, <1>7, <2>1
<1>10. \A i \in hits : f[i] = put[i] \o f[i + len[i]]
  <2> SUFFICES ASSUME NEW i \in hits PROVE f[i] = put[i] \o f[i + len[i]]
    OBVIOUS
  <2>1. i \in 1..N /\ i # N /\ i + len[i] # 0
    <3> DEFINE l == i + len[i]
    <3>1. i \in 1..N /\ i # N /\ l \in (i + 1)..N
      BY <1>3
    <3> HIDE DEF l
    <3>2. l # 0
      BY <1>1, <3>1
    <3> QED BY <3>1, <3>2 DEF l
  <2> HIDE DEF N
  <2> QED BY <1>4, <1>7, <2>1
<1> DEFINE S == {i \in 1..N : f[i] \in Seq(Bytes)}
<1>11. \A i \in 1..N : (\A j \in (i + 1)..N : j \in S) => i \in S
  <2> SUFFICES ASSUME NEW i \in 1..N, \A j \in (i + 1)..N : j \in S PROVE f[i] \in Seq(Bytes)
    OBVIOUS
  <2>1. CASE i = N
    BY <1>8, <2>1, SeqNone
  <2>2. CASE i # N /\ i \in hits
    <3>1. put[i] \in Seq(Bytes)
      BY <1>1, <2>2, IdentifierShape
    <3>2. f[i + len[i]] \in Seq(Bytes)
      <4> HIDE DEF N
      <4> QED BY <1>3, <2>2
    <3> QED BY <1>10, <2>2, <3>1, <3>2, ConcatProperties
  <2>3. CASE i # N /\ i \notin hits
    <3>1. i \in 1..n /\ i + 1 \in (i + 1)..N
      BY <1>2, <2>3
    <3>2. <<data[i]>> \in Seq(Bytes) /\ f[i + 1] \in Seq(Bytes)
      <4> HIDE DEF N
      <4> QED BY <1>1, <3>1
    <3> QED BY <1>9, <2>3, <3>1, <3>2, ConcatProperties
  <2> QED BY <2>1, <2>2, <2>3
<1>12. \A i \in 1..N : f[i] \in Seq(Bytes)
  <2>1. \A i \in 1..N : i \in S
    <3> HIDE DEF N, S
    <3> QED BY <1>1, <1>11, Backwards
  <2> QED BY <2>1
<1>13. f \in [1..N -> Seq(Bytes)]
  <2> HIDE DEF N
  <2> QED BY <1>7, <1>12
<1>14. Rewriting(data, hits, len, put, f)
  <2>1. f \in [1..(Len(data) + 1) -> Seq(Bytes)] /\ f[Len(data) + 1] = << >>
    BY <1>8, <1>13 DEF n
  <2>2. \A i \in 1..Len(data) : i \notin hits => f[i] = <<data[i]>> \o f[i + 1]
    BY <1>9 DEF n
  <2> HIDE DEF N, S
  <2> QED BY <2>1, <2>2, <1>10 DEF Rewriting, Replaceable
<1> QED BY <1>14

(* Identifiers that are apart do not occur over one another.               *)
LEMMA OccurrencesApart ==
  ASSUME NEW x \in Seq(Bytes), NEW a \in Identifiers, NEW b \in Identifiers, Apart(a, b),
         NEW s \in 1..Len(x), NEW p \in 1..Len(x), OccursAt(x, a, s), OccursAt(x, b, p)
  PROVE  s + Len(a) <= p \/ p + Len(b) <= s
<1> SUFFICES ASSUME ~(s + Len(a) <= p), ~(p + Len(b) <= s) PROVE FALSE
  OBVIOUS
<1> DEFINE m == Len(a)
           l == Len(b)
           shift == p - s
<1>1. m \in Nat \ {0} /\ l \in Nat \ {0} /\ DOMAIN a = 1..m /\ DOMAIN b = 1..l /\ s \in Int /\ p \in Int
  BY IdentifierShape, LenProperties
<1>2. /\ \A k \in 1..m : x[s + k - 1] = a[k]
      /\ \A k \in 1..l : x[p + k - 1] = b[k]
  BY OccursShape
<1>3. ~(s + m <= p) /\ ~(p + l <= s)
  OBVIOUS
<1> HIDE DEF m, l
<1>4. shift \in (1 - l)..(m - 1) /\ shift \in Int
  BY <1>1, <1>3
<1>5. PICK k \in DOMAIN a : k - shift \in DOMAIN b /\ a[k] # b[k - shift]
  BY <1>4 DEF Apart, m, l
<1> DEFINE i == k - shift
<1>6. k \in 1..m /\ i \in 1..l /\ a[k] # b[i] /\ p + i - 1 = s + k - 1
  BY <1>1, <1>5
<1> HIDE DEF i, shift
<1>7. x[s + k - 1] = a[k] /\ x[p + i - 1] = b[i]
  BY <1>2, <1>6
<1> QED BY <1>6, <1>7

\* x is u and then y.
Appended(x, u, y) ==
  /\ x \in Seq(Bytes) /\ u \in Seq(Bytes) /\ y \in Seq(Bytes) /\ x = u \o y

(* The bytes of a sequence of two parts.                                   *)
LEMMA AppendedShape ==
  ASSUME NEW x, NEW u, NEW y, Appended(x, u, y)
  PROVE  /\ Len(x) = Len(u) + Len(y) /\ Len(u) \in Nat /\ Len(y) \in Nat
         /\ \A k \in 1..Len(u) : x[k] = u[k]
         /\ \A k \in 1..Len(y) : x[Len(u) + k] = y[k]
<1> DEFINE N == Len(u)
           M == Len(y)
<1>1. x = u \o y /\ u \in Seq(Bytes) /\ y \in Seq(Bytes)
  BY DEF Appended
<1>2. /\ Len(x) = N + M /\ N \in Nat /\ M \in Nat
      /\ \A k \in 1..(N + M) : x[k] = IF k <= N THEN u[k] ELSE y[k - N]
  BY <1>1, ConcatProperties, LenProperties
<1> HIDE DEF N, M
<1>3. \A k \in 1..N : x[k] = u[k]
  BY <1>2
<1>4. \A k \in 1..M : x[N + k] = y[k]
  <2> SUFFICES ASSUME NEW k \in 1..M PROVE x[N + k] = y[k]
    OBVIOUS
  <2>1. N + k \in 1..(N + M) /\ ~(N + k <= N) /\ (N + k) - N = k
    BY <1>2
  <2> QED BY <1>2, <2>1
<1> QED BY <1>2, <1>3, <1>4 DEF N, M

(* An occurrence in the second part is one in the whole.                   *)
LEMMA OccursInAppended ==
  ASSUME NEW x, NEW u, NEW y, Appended(x, u, y), NEW from \in Identifiers, NEW i \in 1..Len(y)
  PROVE  OccursAt(x, from, Len(u) + i) <=> OccursAt(y, from, i)
<1> DEFINE N == Len(u)
           M == Len(y)
           m == Len(from)
           s == N + i
<1>1. /\ x \in Seq(Bytes) /\ y \in Seq(Bytes) /\ Len(x) = N + M /\ N \in Nat /\ M \in Nat
      /\ \A k \in 1..M : x[N + k] = y[k]
  BY AppendedShape DEF Appended
<1>2. m \in Nat \ {0}
  BY IdentifierShape
<1>3. OccursAt(y, from, i) <=> i + m <= M + 1 /\ \A k \in 1..m : y[i + k - 1] = from[k]
  BY <1>1, OccursShape
<1>0. s \in 1..Len(x)
  <2> HIDE DEF N, M
  <2> QED BY <1>1 DEF M
<1> HIDE DEF s
<1>4. OccursAt(x, from, s) <=> s + m <= Len(x) + 1 /\ \A k \in 1..m : x[s + k - 1] = from[k]
  BY <1>0, <1>1, OccursShape
<1> HIDE DEF m
<1>5. i \in 1..M
  OBVIOUS
<1> HIDE DEF N, M
<1>6. s + m <= Len(x) + 1 <=> i + m <= M + 1
  BY <1>1, <1>2, <1>5 DEF s
<1>7. ASSUME i + m <= M + 1 PROVE \A k \in 1..m : x[s + k - 1] = y[i + k - 1]
  <2> SUFFICES ASSUME NEW k \in 1..m PROVE x[s + k - 1] = y[i + k - 1]
    OBVIOUS
  <2> DEFINE l == i + k - 1
  <2>1. l \in 1..M /\ N + l = s + k - 1
    BY <1>1, <1>2, <1>5, <1>7 DEF s
  <2> HIDE DEF l
  <2>2. x[N + l] = y[l]
    BY <1>1, <2>1
  <2> QED BY <2>1, <2>2 DEF l
<1> QED BY <1>3, <1>4, <1>6, <1>7 DEF s, N

\* y rewritten is what the rewriting of x has behind the first n bytes.
Continues(scanx, n, scany, m) == \A i \in 1..(m + 1) : scanx[n + i] = scany[i]

\* scan replaces from by to wherever it occurs.
Replacing(x, from, to, scan) ==
  Rewriting(x, Found(x, from, FALSE), [i \in 1..Len(x) |-> Len(from)], [i \in 1..Len(x) |-> to], scan)

\* The same, byte by byte in terms of where from occurs.
ReplacingSteps(x, from, to, scan) ==
  /\ scan \in [1..(Len(x) + 1) -> Seq(Bytes)]
  /\ scan[Len(x) + 1] = << >>
  /\ \A i \in 1..Len(x) : ~OccursAt(x, from, i) => scan[i] = <<x[i]>> \o scan[i + 1]
  /\ \A i \in 1..Len(x) : OccursAt(x, from, i) => scan[i] = to \o scan[i + Len(from)]

(* Replacing everywhere, byte by byte.                                     *)
LEMMA ReplacingShape ==
  ASSUME NEW x \in Seq(Bytes), NEW from \in Identifiers, NEW to \in Identifiers,
         NEW scan, Replacing(x, from, to, scan)
  PROVE  ReplacingSteps(x, from, to, scan)
<1> DEFINE hits == Found(x, from, FALSE)
           len == [i \in 1..Len(x) |-> Len(from)]
           put == [i \in 1..Len(x) |-> to]
<1>1. \A i \in 1..Len(x) : /\ i \in hits <=> OccursAt(x, from, i)
                           /\ len[i] = Len(from) /\ put[i] = to
  BY DEF Found
<1>2. Rewriting(x, hits, len, put, scan)
  BY DEF Replacing
<1> HIDE DEF hits, len, put
<1>3. /\ scan \in [1..(Len(x) + 1) -> Seq(Bytes)]
      /\ scan[Len(x) + 1] = << >>
      /\ \A i \in 1..Len(x) : i \notin hits => scan[i] = <<x[i]>> \o scan[i + 1]
      /\ \A i \in hits : scan[i] = put[i] \o scan[i + len[i]]
  BY <1>2 DEF Rewriting
<1>4. ASSUME NEW i \in 1..Len(x), OccursAt(x, from, i)
      PROVE  scan[i] = to \o scan[i + Len(from)]
  <2>1. scan[i] = put[i] \o scan[i + len[i]]
    BY <1>1, <1>3, <1>4
  <2> QED BY <1>1, <2>1
<1> QED BY <1>1, <1>3, <1>4 DEF ReplacingSteps

(* Replacing in the second part is what replacing in the whole comes to    *)
(* once it is there.                                                       *)
LEMMA ScanContinues ==
  ASSUME NEW x, NEW u, NEW y, Appended(x, u, y), NEW from \in Identifiers, NEW to \in Identifiers,
         NEW scanx, Replacing(x, from, to, scanx), NEW scany, Replacing(y, from, to, scany)
  PROVE  Continues(scanx, Len(u), scany, Len(y))
<1> DEFINE N == Len(u)
           M == Len(y)
           L == M + 1
           m == Len(from)
           S == {i \in 1..L : scanx[N + i] = scany[i]}
<1>1. /\ x \in Seq(Bytes) /\ y \in Seq(Bytes) /\ Len(x) = N + M /\ N \in Nat /\ M \in Nat
      /\ \A k \in 1..M : x[N + k] = y[k]
  BY AppendedShape DEF Appended
<1>2. m \in Nat \ {0}
  BY IdentifierShape
<1>3. /\ scanx[Len(x) + 1] = << >>
      /\ \A i \in 1..Len(x) : ~OccursAt(x, from, i) => scanx[i] = <<x[i]>> \o scanx[i + 1]
      /\ \A i \in 1..Len(x) : OccursAt(x, from, i) => scanx[i] = to \o scanx[i + m]
  <2>1. ReplacingSteps(x, from, to, scanx)
    BY <1>1, ReplacingShape
  <2> QED BY <2>1 DEF ReplacingSteps
<1>4. /\ scany[M + 1] = << >>
      /\ \A i \in 1..M : ~OccursAt(y, from, i) => scany[i] = <<y[i]>> \o scany[i + 1]
      /\ \A i \in 1..M : OccursAt(y, from, i) => scany[i] = to \o scany[i + m]
  <2>1. ReplacingSteps(y, from, to, scany)
    BY <1>1, ReplacingShape
  <2> QED BY <2>1 DEF ReplacingSteps
<1>5. \A i \in 1..M : OccursAt(x, from, N + i) <=> OccursAt(y, from, i)
  BY OccursInAppended
<1>6. \A i \in 1..M : OccursAt(y, from, i) => i + m <= M + 1
  BY <1>1, OccursShape
<1> HIDE DEF N, M, m
<1>7. \A i \in 1..L : (\A j \in (i + 1)..L : j \in S) => i \in S
  <2> SUFFICES ASSUME NEW i \in 1..L, \A j \in (i + 1)..L : j \in S
               PROVE  scanx[N + i] = scany[i]
    OBVIOUS
  <2> DEFINE s == N + i
  <2>1. CASE i = L
    <3>1. s = Len(x) + 1
      BY <1>1, <2>1
    <3> HIDE DEF s
    <3>2. scanx[s] = << >>
      BY <1>3, <3>1
    <3> QED BY <1>4, <2>1, <3>2 DEF s
  <2>2. CASE i # L
    <3>1. i \in 1..M /\ s \in 1..Len(x) /\ i + 1 \in (i + 1)..L /\ N + (i + 1) = s + 1
      BY <1>1, <2>2
    <3> HIDE DEF s
    <3>2. CASE OccursAt(y, from, i)
      <4> DEFINE j == i + m
      <4>1. j \in (i + 1)..L /\ N + j = s + m
        BY <1>1, <1>2, <1>6, <3>1, <3>2 DEF s
      <4>2. scany[i] = to \o scany[j]
        BY <1>4, <3>1, <3>2
      <4>3. OccursAt(x, from, s)
        BY <1>5, <3>1, <3>2 DEF s
      <4>4. scanx[s] = to \o scanx[s + m]
        BY <1>3, <3>1, <4>3
      <4> HIDE DEF j
      <4>5. scanx[N + j] = scany[j]
        <5> HIDE DEF L
        <5> QED BY <4>1
      <4>6. scanx[s + m] = scanx[N + j]
        BY <4>1
      <4> QED BY <4>2, <4>4, <4>5, <4>6 DEF s
    <3>3. CASE ~OccursAt(y, from, i)
      <4> DEFINE j == i + 1
      <4>1. j \in (i + 1)..L /\ N + j = s + 1
        BY <3>1
      <4>2. scany[i] = <<y[i]>> \o scany[j]
        BY <1>4, <3>1, <3>3
      <4>3. ~OccursAt(x, from, s) /\ x[s] = y[i]
        BY <1>1, <1>5, <3>1, <3>3 DEF s
      <4>4. scanx[s] = <<x[s]>> \o scanx[s + 1]
        BY <1>3, <3>1, <4>3
      <4> HIDE DEF j
      <4>5. scanx[N + j] = scany[j]
        <5> HIDE DEF L
        <5> QED BY <4>1
      <4>6. scanx[s + 1] = scanx[N + j]
        BY <4>1
      <4> QED BY <4>2, <4>3, <4>4, <4>5, <4>6 DEF s
    <3> QED BY <3>2, <3>3
  <2> QED BY <2>1, <2>2
<1>8. \A i \in 1..L : i \in S
  <2>1. L \in Nat
    BY <1>1
  <2> HIDE DEF L, S
  <2> QED BY <1>7, <2>1, Backwards
<1> QED BY <1>8 DEF Continues, N, M

(* What replaceAllBytes computes.                                          *)
LEMMA ReplaceAllScan ==
  ASSUME NEW x \in Seq(Bytes), NEW from \in Identifiers, NEW to \in Identifiers
  PROVE  \E scan : Replacing(x, from, to, scan) /\ replaceAllBytes(x, from, to) = scan[1]
<1>1. PICK scan :
        /\ Scan(x, from, to, FALSE) = scan[1]
        /\ Rewriting(x, Found(x, from, FALSE),
                     [i \in 1..Len(x) |-> Len(from)], [i \in 1..Len(x) |-> to], scan)
  BY ScanRewrites
<1> QED BY <1>1 DEF Replacing, replaceAllBytes

(* Before the first occurrence everything is copied.                       *)
LEMMA ReplaceAllBehind ==
  ASSUME NEW x, NEW u, NEW y, Appended(x, u, y), NEW from \in Identifiers, NEW to \in Identifiers,
         \A i \in 1..Len(u) : ~OccursAt(x, from, i)
  PROVE  replaceAllBytes(x, from, to) = u \o replaceAllBytes(y, from, to)
<1> DEFINE N == Len(u)
           hits == Found(x, from, FALSE)
           len == [i \in 1..Len(x) |-> Len(from)]
           put == [i \in 1..Len(x) |-> to]
<1>1. /\ x \in Seq(Bytes) /\ u \in Seq(Bytes) /\ y \in Seq(Bytes) /\ x = u \o y
      /\ Len(x) = N + Len(y) /\ N \in Nat /\ Len(y) \in Nat
      /\ \A k \in 1..N : x[k] = u[k]
  BY AppendedShape DEF Appended
<1>2. PICK f : Replacing(x, from, to, f) /\ replaceAllBytes(x, from, to) = f[1]
  BY <1>1, ReplaceAllScan
<1>3. PICK g : Replacing(y, from, to, g) /\ replaceAllBytes(y, from, to) = g[1]
  BY <1>1, ReplaceAllScan
<1>4. Continues(f, N, g, Len(y))
  BY <1>2, <1>3, ScanContinues
<1>5. f[N + 1] = g[1]
  BY <1>1, <1>4 DEF Continues
<1>6. CopiedUpTo(x, hits, f, N)
  <2>1. Rewriting(x, hits, len, put, f)
    BY <1>2 DEF Replacing
  <2>2. N \in 0..Len(x)
    BY <1>1
  <2> HIDE DEF hits, len, put, N
  <2> QED BY <2>1, <2>2, CopiedThrough
<1>7. \A k \in 1..N : k \notin hits
  BY DEF Found
<1>8. f[1] = SubSeq(x, 1, N) \o f[N + 1]
  <2>1. 1 \in 1..(N + 1)
    BY <1>1
  <2> HIDE DEF hits, N
  <2> QED BY <1>6, <1>7, <2>1 DEF CopiedUpTo
<1>9. SubSeq(x, 1, N) = u
  <2>1. 1 \in 1..(Len(x) + 1) /\ N \in (1 - 1)..Len(x) /\ N - 1 + 1 = N /\ \A k \in 1..N : 1 + k - 1 = k
    BY <1>1
  <2> DEFINE a == SubSeq(x, 1, N)
  <2>2. a \in Seq(Bytes) /\ Len(a) = N - 1 + 1 /\ \A k \in 1..(N - 1 + 1) : a[k] = x[1 + k - 1]
    BY <1>1, <2>1, CutInTwo
  <2> HIDE DEF a
  <2>3. \A k \in 1..N : a[k] = u[k]
    BY <1>1, <2>1, <2>2
  <2> QED BY <1>1, <2>1, <2>2, <2>3, SeqEqual DEF a
<1> QED BY <1>2, <1>3, <1>5, <1>8, <1>9

(* An occurrence at the beginning is replaced; the scan goes on behind it. *)
LEMMA ReplaceAllHere ==
  ASSUME NEW x, NEW y, NEW from \in Identifiers, NEW to \in Identifiers, Appended(x, from, y)
  PROVE  replaceAllBytes(x, from, to) = to \o replaceAllBytes(y, from, to)
<1> DEFINE N == Len(from)
<1>1. /\ x \in Seq(Bytes) /\ y \in Seq(Bytes)
      /\ Len(x) = N + Len(y) /\ Len(y) \in Nat
      /\ \A k \in 1..N : x[k] = from[k]
  BY AppendedShape DEF Appended
<1>0. N \in Nat \ {0}
  BY IdentifierShape
<1>2. PICK f : Replacing(x, from, to, f) /\ replaceAllBytes(x, from, to) = f[1]
  BY <1>1, ReplaceAllScan
<1>3. PICK g : Replacing(y, from, to, g) /\ replaceAllBytes(y, from, to) = g[1]
  BY <1>1, ReplaceAllScan
<1>4. Continues(f, N, g, Len(y))
  BY <1>2, <1>3, ScanContinues
<1>5. f[N + 1] = g[1]
  BY <1>1, <1>4 DEF Continues
<1>6. 1 \in 1..Len(x) /\ 1 + N <= Len(x) + 1 /\ \A k \in 1..N : 1 + k - 1 = k
  BY <1>0, <1>1
<1>7. OccursAt(x, from, 1)
  <2>1. OccursAt(x, from, 1) <=> 1 + Len(from) <= Len(x) + 1
                                 /\ \A k \in 1..Len(from) : x[1 + k - 1] = from[k]
    BY <1>1, <1>6, OccursShape
  <2> QED BY <1>1, <1>6, <2>1
<1>8. f[1] = to \o f[1 + N]
  <2>1. ReplacingSteps(x, from, to, f)
    BY <1>1, <1>2, ReplacingShape
  <2> QED BY <1>6, <1>7, <2>1 DEF ReplacingSteps
<1>9. 1 + N = N + 1
  BY <1>0
<1>10. f[1 + N] = f[N + 1]
  BY <1>9
<1> QED BY <1>2, <1>3, <1>5, <1>8, <1>10

(* In nothing, nothing is replaced.                                        *)
LEMMA ReplaceAllNone ==
  ASSUME NEW from \in Identifiers, NEW to \in Identifiers
  PROVE  replaceAllBytes(<< >>, from, to) = << >>
<1>1. << >> \in Seq(Bytes) /\ Len(<< >>) = 0
  BY SeqNone
<1>2. PICK f : Replacing(<< >>, from, to, f) /\ replaceAllBytes(<< >>, from, to) = f[1]
  BY <1>1, ReplaceAllScan
<1>3. ReplacingSteps(<< >>, from, to, f)
  BY <1>1, <1>2, ReplacingShape
<1>4. f[Len(<< >>) + 1] = << >>
  BY <1>3 DEF ReplacingSteps
<1> QED BY <1>1, <1>2, <1>4

-----------------------------------------------------------------------------
(***************************************************************************)
(* The static aliases, in any order.  A scan for an alias after a scan for *)
(* others finds it exactly where the data has it: nothing that was put in, *)
(* nor that together with what stands beside it, makes an alias up.        *)
(***************************************************************************)

\* The aliases of F that occur at i, and one of them.
Here(F, data, i) == {f \in F : OccursAt(data, f, i)}
Chosen(F, data, i) == CHOOSE f \in Here(F, data, i) : TRUE

\* scan replaces, from left to right, whichever alias of F comes next.
ReplacingAny(F, data, scan) ==
  Rewriting(data, {i \in 1..Len(data) : Here(F, data, i) # {}},
            [i \in 1..Len(data) |-> Len(Chosen(F, data, i))],
            [i \in 1..Len(data) |-> StaticReverse[Chosen(F, data, i)]], scan)

\* The same, byte by byte in terms of where an alias occurs.
AnySteps(F, data, scan) ==
  /\ scan \in [1..(Len(data) + 1) -> Seq(Bytes)]
  /\ scan[Len(data) + 1] = << >>
  /\ \A i \in 1..Len(data) : Here(F, data, i) = {} => scan[i] = <<data[i]>> \o scan[i + 1]
  /\ \A i \in 1..Len(data), f \in F :
       OccursAt(data, f, i) => scan[i] = StaticReverse[f] \o scan[i + Len(f)]

(* Aliases and names of the table.                                         *)
LEMMA StaticShape ==
  ASSUME NEW f \in DOMAIN StaticReverse
  PROVE  f \in Identifiers /\ StaticReverse[f] \in Identifiers
         /\ \A g \in DOMAIN StaticReverse : f # g => Apart(f, g) /\ Apart(f, StaticReverse[g])
BY TableAssumption

(* No two aliases of the table occur at one place.                         *)
LEMMA OneHere ==
  ASSUME NEW F \in SUBSET DOMAIN StaticReverse, NEW data \in Seq(Bytes), NEW i \in 1..Len(data),
         NEW f \in Here(F, data, i)
  PROVE  Chosen(F, data, i) = f
<1> DEFINE g == Chosen(F, data, i)
<1>1. g \in Here(F, data, i)
  BY DEF Chosen
<1> HIDE DEF g
<1>2. f \in DOMAIN StaticReverse /\ g \in DOMAIN StaticReverse
      /\ OccursAt(data, f, i) /\ OccursAt(data, g, i)
  BY <1>1 DEF Here
<1>3. CASE f # g
  <2>1. f \in Identifiers /\ g \in Identifiers /\ Apart(f, g)
    BY <1>2, <1>3, StaticShape
  <2>2. Len(f) \in Nat \ {0} /\ Len(g) \in Nat \ {0}
    BY <2>1, IdentifierShape
  <2>3. i + Len(f) <= i \/ i + Len(g) <= i
    BY <1>2, <2>1, OccurrencesApart
  <2> QED BY <2>2, <2>3
<1> QED BY <1>3 DEF g

(* Replacing whichever alias comes next, byte by byte.                     *)
LEMMA AnyShape ==
  ASSUME NEW F \in SUBSET DOMAIN StaticReverse, NEW data \in Seq(Bytes), NEW scan,
         ReplacingAny(F, data, scan)
  PROVE  AnySteps(F, data, scan)
<1> DEFINE hits == {i \in 1..Len(data) : Here(F, data, i) # {}}
           len == [i \in 1..Len(data) |-> Len(Chosen(F, data, i))]
           put == [i \in 1..Len(data) |-> StaticReverse[Chosen(F, data, i)]]
<1>1. \A i \in 1..Len(data) : /\ i \in hits <=> Here(F, data, i) # {}
                              /\ len[i] = Len(Chosen(F, data, i))
                              /\ put[i] = StaticReverse[Chosen(F, data, i)]
  OBVIOUS
<1>2. Rewriting(data, hits, len, put, scan)
  BY DEF ReplacingAny
<1> HIDE DEF hits, len, put
<1>3. /\ scan \in [1..(Len(data) + 1) -> Seq(Bytes)]
      /\ scan[Len(data) + 1] = << >>
      /\ \A i \in 1..Len(data) : i \notin hits => scan[i] = <<data[i]>> \o scan[i + 1]
      /\ \A i \in hits : scan[i] = put[i] \o scan[i + len[i]]
  BY <1>2 DEF Rewriting
<1>4. ASSUME NEW i \in 1..Len(data), NEW f \in F, OccursAt(data, f, i)
      PROVE  scan[i] = StaticReverse[f] \o scan[i + Len(f)]
  <2>1. f \in Here(F, data, i)
    BY <1>4 DEF Here
  <2>2. Chosen(F, data, i) = f
    BY <2>1, OneHere
  <2>3. scan[i] = put[i] \o scan[i + len[i]]
    BY <1>1, <1>3, <2>1
  <2>4. put[i] = StaticReverse[f] /\ len[i] = Len(f)
    BY <1>1, <2>2
  <2> QED BY <2>3, <2>4
<1> QED BY <1>1, <1>3, <1>4 DEF AnySteps

(* There is such a scan.                                                   *)
LEMMA AnyExists ==
  ASSUME NEW F \in SUBSET DOMAIN StaticReverse, NEW data \in Seq(Bytes)
  PROVE  \E scan : ReplacingAny(F, data, scan)
<1> DEFINE n == Len(data)
           hits == {i \in 1..n : Here(F, data, i) # {}}
           len == [i \in 1..n |-> Len(Chosen(F, data, i))]
           put == [i \in 1..n |-> StaticReverse[Chosen(F, data, i)]]
<1>1. ASSUME NEW i \in hits
      PROVE  /\ len[i] \in Nat \ {0} /\ i + len[i] <= n + 1
             /\ \A k \in i..(i + len[i] - 1) : data[k] \in NameBytes
             /\ put[i] \in Identifiers
  <2> DEFINE f == Chosen(F, data, i)
             m == Len(f)
  <2>0. i \in 1..n
    OBVIOUS
  <2>1. f \in Here(F, data, i)
    BY DEF Chosen
  <2> HIDE DEF f
  <2>2. f \in Identifiers /\ StaticReverse[f] \in Identifiers /\ OccursAt(data, f, i)
    BY <2>1, StaticShape DEF Here
  <2>3. m \in Nat \ {0} /\ \A k \in 1..m : f[k] \in NameBytes
    BY <2>2, IdentifierShape
  <2>4. i + m <= n + 1 /\ \A k \in 1..m : data[i + k - 1] = f[k]
    BY <2>0, <2>2, OccursShape
  <2>5. len[i] = m /\ put[i] = StaticReverse[f]
    BY <2>0 DEF f
  <2> HIDE DEF len, put, m, n, hits
  <2>6. \A k \in i..(i + m - 1) : data[k] \in NameBytes
    <3> SUFFICES ASSUME NEW k \in i..(i + m - 1) PROVE data[k] \in NameBytes
      OBVIOUS
    <3> DEFINE l == k - i + 1
    <3>1. l \in 1..m /\ i + l - 1 = k
      BY <2>0, <2>3
    <3> HIDE DEF l
    <3> QED BY <2>3, <2>4, <3>1
  <2> QED BY <2>2, <2>3, <2>4, <2>5, <2>6
<1>2. Replaceable(data, hits, len, put)
  <2>1. hits \in SUBSET (1..Len(data))
    OBVIOUS
  <2> HIDE DEF hits, len, put
  <2> QED BY <1>1, <2>1 DEF Replaceable
<1>3. PICK scan : Rewriting(data, hits, len, put, scan)
  <2> HIDE DEF hits, len, put
  <2> QED BY <1>2, RewritingExists
<1> QED BY <1>3 DEF ReplacingAny

(* The first part of a sequence occurs at its beginning.                   *)
LEMMA FirstPartOccurs ==
  ASSUME NEW x, NEW u \in Identifiers, NEW y, Appended(x, u, y)
  PROVE  1 \in 1..Len(x) /\ OccursAt(x, u, 1)
<1> DEFINE N == Len(u)
<1>1. x \in Seq(Bytes) /\ Len(x) = N + Len(y) /\ Len(y) \in Nat /\ \A k \in 1..N : x[k] = u[k]
  BY AppendedShape DEF Appended
<1>2. N \in Nat \ {0}
  BY IdentifierShape
<1>3. 1 \in 1..Len(x) /\ 1 + N <= Len(x) + 1 /\ \A k \in 1..N : 1 + k - 1 = k
  BY <1>1, <1>2
<1>4. OccursAt(x, u, 1) <=> 1 + Len(u) <= Len(x) + 1 /\ \A k \in 1..Len(u) : x[1 + k - 1] = u[k]
  BY <1>1, <1>3, OccursShape
<1> QED BY <1>1, <1>3, <1>4

(* An alias does not occur where a replacement has been put in.            *)
LEMMA NotInReplacement ==
  ASSUME NEW x, NEW u \in Identifiers, NEW y, Appended(x, u, y),
         NEW g \in Identifiers, Apart(g, u)
  PROVE  \A s \in 1..Len(u) : ~OccursAt(x, g, s)
<1> SUFFICES ASSUME NEW s \in 1..Len(u), OccursAt(x, g, s) PROVE FALSE
  OBVIOUS
<1>1. x \in Seq(Bytes) /\ Len(x) = Len(u) + Len(y) /\ Len(u) \in Nat /\ Len(y) \in Nat
  BY AppendedShape DEF Appended
<1>2. s \in 1..Len(x)
  BY <1>1
<1>3. 1 \in 1..Len(x) /\ OccursAt(x, u, 1)
  BY FirstPartOccurs
<1>4. s + Len(g) <= 1 \/ 1 + Len(u) <= s
  BY <1>1, <1>2, <1>3, OccurrencesApart
<1>5. Len(g) \in Nat \ {0}
  BY IdentifierShape
<1> QED BY <1>1, <1>4, <1>5

(* An alias at the beginning of what is rewritten so far stands there in   *)
(* the data: no replacement helps to make it up.                           *)
LEMMA NoneMadeUp ==
  ASSUME NEW F \in SUBSET DOMAIN StaticReverse, NEW g \in DOMAIN StaticReverse \ F,
         NEW data \in Seq(Bytes), NEW scan, ReplacingAny(F, data, scan),
         NEW i \in 1..Len(data), Here(F, data, i) = {}, OccursAt(scan[i], g, 1)
  PROVE  OccursAt(data, g, i)
<1> DEFINE n == Len(data)
           N == n + 1
           m == Len(g)
           x == scan[i]
           hits == {k \in 1..n : Here(F, data, k) # {}}
           len == [k \in 1..n |-> Len(Chosen(F, data, k))]
           put == [k \in 1..n |-> StaticReverse[Chosen(F, data, k)]]
           T == {k \in i..N : k = N \/ k \in hits}
<1>1. AnySteps(F, data, scan)
  BY AnyShape
<1>2. n \in Nat /\ N \in Nat /\ i \in 1..n /\ N \in 1..N /\ i \in Nat /\ N \in i..N
  BY LenProperties
<1>3. g \in Identifiers /\ m \in Nat \ {0}
  BY StaticShape, IdentifierShape
<1>4. PICK p \in T : \A k \in T : p <= k
  <2>1. T \in SUBSET Nat /\ N \in T
    BY <1>2
  <2> HIDE DEF T
  <2> QED BY <2>1, LeastExists
<1> DEFINE j == p - 1
           a == SubSeq(data, i, j)
           y == scan[p]
           L == p - i
<1>5. p \in i..N /\ p # i /\ (p = N \/ p \in hits) /\ \A k \in i..j : k \notin hits
  <2>1. p \in i..N /\ (p = N \/ p \in hits)
    BY <1>4
  <2>2. i \notin hits /\ i # N
    BY <1>2
  <2>3. \A k \in i..j : k \notin hits
    <3> SUFFICES ASSUME NEW k \in i..j, k \in hits PROVE FALSE
      OBVIOUS
    <3>1. k \in i..N /\ k < p
      BY <1>2, <2>1
    <3>2. k \in T
      BY <3>1
    <3> HIDE DEF T
    <3>3. p <= k
      BY <1>4, <3>2
    <3> QED BY <1>2, <2>1, <3>1, <3>3
  <2> QED BY <2>1, <2>2, <2>3
<1>6. /\ i \in 1..(n + 1) /\ j \in (i - 1)..n /\ j \in 0..n /\ i \in 1..(j + 1) /\ j + 1 = p
      /\ p \in 1..N /\ L \in Nat \ {0} /\ j - i + 1 = L /\ p \in Int
  <2> HIDE DEF n, T, hits
  <2> QED BY <1>2, <1>5
<1>7. x = a \o y
  <2>1. Rewriting(data, hits, len, put, scan)
    BY DEF ReplacingAny
  <2> HIDE DEF hits, len, put, j, T
  <2>2. CopiedUpTo(data, hits, scan, j)
    BY <1>6, <2>1, CopiedThrough
  <2>3. scan[i] = SubSeq(data, i, j) \o scan[j + 1]
    BY <1>5, <1>6, <2>2 DEF CopiedUpTo
  <2>4. scan[j + 1] = scan[p]
    BY <1>6
  <2> QED BY <2>3, <2>4
<1>8. a \in Seq(Bytes) /\ Len(a) = L /\ \A k \in 1..L : a[k] = data[i + k - 1]
  <2> HIDE DEF j, L
  <2>1. a \in Seq(Bytes) /\ Len(a) = j - i + 1 /\ \A k \in 1..(j - i + 1) : a[k] = data[i + k - 1]
    BY <1>6, CutInTwo
  <2> QED BY <1>6, <2>1
<1>9. x \in Seq(Bytes) /\ y \in Seq(Bytes)
  BY <1>1, <1>2, <1>6 DEF AnySteps
<1>10. Appended(x, a, y)
  BY <1>7, <1>8, <1>9 DEF Appended
<1>11. Len(x) = L + Len(y) /\ Len(y) \in Nat /\ (\A k \in 1..L : x[k] = a[k])
  <2> HIDE DEF L, a, x, y, j
  <2>1. Len(x) = Len(a) + Len(y) /\ Len(y) \in Nat /\ \A k \in 1..Len(a) : x[k] = a[k]
    BY <1>10, AppendedShape
  <2> QED BY <1>8, <2>1
<1> HIDE DEF L, a, x, y, j
<1>12. 1 \in 1..Len(x) /\ 1 + m <= Len(x) + 1 /\ \A k \in 1..m : x[1 + k - 1] = g[k]
  <2>1. 1 \in 1..Len(x)
    BY <1>6, <1>11
  <2> QED BY <1>3, <1>9, <2>1, OccursShape DEF x
<1>13. m <= L
  <2>1. CASE p = N
    <3>1. y = << >>
      BY <1>1, <2>1 DEF AnySteps, y
    <3>2. Len(y) = 0
      BY <3>1
    <3> QED BY <1>3, <1>6, <1>11, <1>12, <3>2
  <2>2. CASE p # N
    <3>1. PICK f \in F : OccursAt(data, f, p)
      BY <1>5, <2>2 DEF Here
    <3> DEFINE u == StaticReverse[f]
    <3>2. f \in Identifiers /\ u \in Identifiers /\ Apart(g, u) /\ f # g
      BY StaticShape
    <3>3. p \in 1..n /\ Len(f) \in Nat \ {0} /\ p + Len(f) <= n + 1
      <4>1. p \in 1..n
        BY <1>2, <1>6, <2>2
      <4> QED BY <3>1, <3>2, <4>1, OccursShape, IdentifierShape
    <3> DEFINE e == p + Len(f)
               z == scan[e]
    <3>4. y = u \o z
      BY <1>1, <3>1, <3>3 DEF AnySteps, y
    <3>5. z \in Seq(Bytes)
      <4>1. e \in 1..(n + 1)
        BY <1>2, <3>3
      <4> HIDE DEF e
      <4> QED BY <1>1, <4>1 DEF AnySteps
    <3> HIDE DEF u, z
    <3>6. Appended(y, u, z)
      BY <1>9, <3>2, <3>4, <3>5, IdentifierShape DEF Appended
    <3>7. 1 \in 1..Len(y) /\ OccursAt(y, u, 1)
      BY <3>2, <3>6, FirstPartOccurs
    <3>8. OccursAt(x, u, L + 1)
      BY <1>8, <1>10, <3>2, <3>7, OccursInAppended
    <3>9. L + 1 \in 1..Len(x)
      BY <1>6, <1>11, <3>7
    <3> DEFINE q == L + 1
    <3> HIDE DEF q
    <3>10. q \in 1..Len(x) /\ OccursAt(x, u, q) /\ OccursAt(x, g, 1)
      BY <3>8, <3>9 DEF q, x
    <3>11. 1 + Len(g) <= q \/ q + Len(u) <= 1
      BY <1>3, <1>9, <1>12, <3>2, <3>10, OccurrencesApart
    <3>12. Len(u) \in Nat \ {0}
      BY <3>2, IdentifierShape
    <3> QED BY <1>3, <1>6, <3>11, <3>12 DEF q
  <2> QED BY <2>1, <2>2
<1>14. \A k \in 1..m : data[i + k - 1] = g[k]
  <2> SUFFICES ASSUME NEW k \in 1..m PROVE data[i + k - 1] = g[k]
    OBVIOUS
  <2>1. k \in 1..L /\ 1 + k - 1 = k
    BY <1>3, <1>6, <1>13
  <2> QED BY <1>8, <1>11, <1>12, <2>1
<1>15. i + m <= n + 1
  BY <1>2, <1>3, <1>5, <1>6, <1>13 DEF L
<1> QED BY <1>3, <1>14, <1>15, OccursShape

(* Replacing one more alias everywhere in what the others have been        *)
(* replaced in is replacing it along with them.                            *)
LEMMA AnyOneMore ==
  ASSUME NEW F \in SUBSET DOMAIN StaticReverse, NEW g \in DOMAIN StaticReverse \ F,
         NEW data \in Seq(Bytes), NEW scan, ReplacingAny(F, data, scan),
         NEW scan2, ReplacingAny(F \cup {g}, data, scan2)
  PROVE  replaceAllBytes(scan[1], g, StaticReverse[g]) = scan2[1]
<1> DEFINE n == Len(data)
           N == n + 1
           m == Len(g)
           to == StaticReverse[g]
           G(x) == replaceAllBytes(x, g, to)
           hits == {k \in 1..n : Here(F, data, k) # {}}
           len == [k \in 1..n |-> Len(Chosen(F, data, k))]
           put == [k \in 1..n |-> StaticReverse[Chosen(F, data, k)]]
           S == {i \in 1..N : G(scan[i]) = scan2[i]}
<1>1. AnySteps(F, data, scan) /\ AnySteps(F \cup {g}, data, scan2)
  <2>1. F \cup {g} \in SUBSET DOMAIN StaticReverse
    OBVIOUS
  <2> QED BY <2>1, AnyShape
<1>2. n \in Nat /\ N \in Nat /\ N \in 1..N /\ 1 \in 1..N
  BY LenProperties
<1>3. g \in Identifiers /\ to \in Identifiers /\ m \in Nat \ {0}
  BY StaticShape, IdentifierShape
<1>4. /\ \A i \in 1..N : scan[i] \in Seq(Bytes)
      /\ scan[N] = << >>
      /\ \A i \in 1..n : Here(F, data, i) = {} => scan[i] = <<data[i]>> \o scan[i + 1]
      /\ \A i \in 1..n, f \in F :
           OccursAt(data, f, i) => scan[i] = StaticReverse[f] \o scan[i + Len(f)]
  BY <1>1 DEF AnySteps
<1>5. /\ scan2[N] = << >>
      /\ \A i \in 1..n : Here(F \cup {g}, data, i) = {} => scan2[i] = <<data[i]>> \o scan2[i + 1]
      /\ \A i \in 1..n, f \in F \cup {g} :
           OccursAt(data, f, i) => scan2[i] = StaticReverse[f] \o scan2[i + Len(f)]
  BY <1>1 DEF AnySteps
<1>6. Rewriting(data, hits, len, put, scan)
  BY DEF ReplacingAny
<1>7. \A i \in 1..n : i \in hits <=> Here(F, data, i) # {}
  OBVIOUS
<1> HIDE DEF hits, len, put
<1>8. \A i \in 1..N : (\A j \in (i + 1)..N : j \in S) => i \in S
  <2> SUFFICES ASSUME NEW i \in 1..N, \A j \in (i + 1)..N : j \in S
               PROVE  G(scan[i]) = scan2[i]
    OBVIOUS
  <2>0. \A j \in (i + 1)..N : j \in 1..N /\ G(scan[j]) = scan2[j]
    BY <1>2
  <2> HIDE DEF S
  <2>1. CASE i = N
    <3> HIDE DEF N
    <3> QED BY <1>3, <1>4, <1>5, <2>1, ReplaceAllNone
  <2>2. ASSUME i # N, NEW f \in F, OccursAt(data, f, i)
        PROVE  G(scan[i]) = scan2[i]
    <3> DEFINE u == StaticReverse[f]
               e == i + Len(f)
               y == scan[e]
    <3>1. i \in 1..n
      BY <1>2, <2>2
    <3>2. f \in Identifiers /\ u \in Identifiers /\ Apart(g, u)
      BY StaticShape
    <3>3. e \in (i + 1)..N
      <4>1. Len(f) \in Nat \ {0} /\ i + Len(f) <= n + 1
        BY <2>2, <3>1, <3>2, OccursShape, IdentifierShape
      <4> QED BY <1>2, <3>1, <4>1
    <3>4. scan[i] = u \o y /\ scan2[i] = u \o scan2[e]
      BY <1>4, <1>5, <2>2, <3>1
    <3> HIDE DEF e, N, n
    <3>5. y \in Seq(Bytes) /\ G(y) = scan2[e]
      BY <1>4, <2>0, <3>3
    <3> HIDE DEF u, y, G
    <3>6. Appended(scan[i], u, y)
      BY <1>4, <3>2, <3>4, <3>5, IdentifierShape DEF Appended
    <3>7. \A s \in 1..Len(u) : ~OccursAt(scan[i], g, s)
      BY <1>3, <3>2, <3>6, NotInReplacement
    <3>8. G(scan[i]) = u \o G(y)
      BY <1>3, <3>6, <3>7, ReplaceAllBehind DEF G
    <3> QED BY <3>4, <3>5, <3>8
  <2>3. CASE i # N /\ Here(F, data, i) = {} /\ OccursAt(data, g, i)
    <3> DEFINE j == i + m - 1
               e == i + m
               y == scan[e]
    <3>1. i \in 1..n
      BY <1>2, <2>3
    <3>2. i + m <= n + 1 /\ SubSeq(data, i, j) = g
      <4>1. i + m <= n + 1
        BY <1>3, <2>3, <3>1, OccursShape
      <4> QED BY <2>3, <4>1 DEF OccursAt
    <3> HIDE DEF n, N, m
    <3>3. /\ e \in (i + 1)..N /\ e \in 1..N /\ j \in 0..n /\ i \in 1..(j + 1) /\ j + 1 = e
          /\ \A k \in i..j : k \in 1..n
      <4>1. i \in 1..n /\ i + m <= n + 1 /\ n \in Nat /\ m \in Nat \ {0}
        BY <1>2, <1>3, <3>1, <3>2
      <4> QED BY ONLY <4>1 DEF N
    <3>4. \A k \in i..j : k \notin hits
      <4> SUFFICES ASSUME NEW k \in i..j, k \in hits PROVE FALSE
        OBVIOUS
      <4>1. PICK f \in F : OccursAt(data, f, k)
        BY <1>7, <3>3 DEF Here
      <4>2. f \in Identifiers /\ Apart(g, f) /\ Len(f) \in Nat \ {0} /\ k \in 1..n
        BY <3>3, StaticShape, IdentifierShape
      <4>3. i + Len(g) <= k \/ k + Len(f) <= i
        BY <1>3, <2>3, <3>1, <4>1, <4>2, OccurrencesApart DEF n
      <4>4. i + m <= k \/ k + Len(f) <= i
        BY <4>3 DEF m
      <4>5. k <= j /\ i <= k
        BY <3>1, <1>2, <3>3
      <4> QED BY <1>2, <1>3, <3>1, <4>2, <4>4, <4>5
    <3>5. scan[i] = g \o y
      <4> HIDE DEF j, e
      <4>1. CopiedUpTo(data, hits, scan, j)
        BY <1>6, <3>3, CopiedThrough DEF n
      <4>2. scan[i] = SubSeq(data, i, j) \o scan[j + 1]
        BY <3>3, <3>4, <4>1 DEF CopiedUpTo
      <4> QED BY <3>2, <3>3, <4>2
    <3>6. scan2[i] = to \o scan2[e]
      BY <1>5, <2>3, <3>1 DEF m
    <3> HIDE DEF e, j
    <3>7. y \in Seq(Bytes) /\ G(y) = scan2[e]
      BY <1>4, <2>0, <3>3
    <3> HIDE DEF y, G
    <3>8. Appended(scan[i], g, y)
      BY <1>3, <1>4, <3>5, <3>7, IdentifierShape DEF Appended
    <3>9. G(scan[i]) = to \o G(y)
      BY <1>3, <3>8, ReplaceAllHere DEF G
    <3> QED BY <3>6, <3>7, <3>9
  <2>4. CASE i # N /\ Here(F, data, i) = {} /\ ~OccursAt(data, g, i)
    <3> DEFINE u == <<data[i]>>
               e == i + 1
               y == scan[e]
    <3>1. i \in 1..n /\ e \in (i + 1)..N
      BY <1>2, <2>4
    <3>2. u \in Seq(Bytes) /\ Len(u) = 1
      BY <3>1, OneByte
    <3>3. Here(F \cup {g}, data, i) = {}
      BY <2>4 DEF Here
    <3>4. scan[i] = u \o y /\ scan2[i] = u \o scan2[e]
      BY <1>4, <1>5, <2>4, <3>1, <3>3
    <3> HIDE DEF e, N
    <3>5. y \in Seq(Bytes) /\ G(y) = scan2[e]
      BY <1>4, <2>0, <3>1
    <3>6. ~OccursAt(scan[i], g, 1)
      BY <2>4, <3>1, NoneMadeUp
    <3> HIDE DEF u, y, G
    <3>7. Appended(scan[i], u, y)
      BY <1>4, <3>2, <3>4, <3>5 DEF Appended
    <3>8. \A s \in 1..Len(u) : ~OccursAt(scan[i], g, s)
      BY <3>2, <3>6
    <3>9. G(scan[i]) = u \o G(y)
      BY <1>3, <3>7, <3>8, ReplaceAllBehind DEF G
    <3> QED BY <3>4, <3>5, <3>9
  <2>5. Here(F, data, i) # {} => \E f \in F : OccursAt(data, f, i)
    BY DEF Here
  <2> HIDE DEF G
  <2> QED BY <2>1, <2>2, <2>3, <2>4, <2>5
<1>9. \A i \in 1..N : i \in S
  <2> HIDE DEF N, S
  <2> QED BY <1>2, <1>8, Backwards
<1>10. G(scan[1]) = scan2[1]
  BY <1>2, <1>9
<1> QED BY <1>10

(* NextStatic is that scan for the whole table.                            *)
LEMMA NextStaticAny ==
  ASSUME NEW data \in Seq(Bytes), NEW scan, ReplacingAny(DOMAIN StaticReverse, data, scan)
  PROVE  NextStatic(data) = scan[1]
<1> DEFINE n == Len(data)
           N == n + 1
           D == DOMAIN StaticReverse
           Body(f, i) == IF i > n THEN << >>
                         ELSE IF Here(D, data, i) = {} THEN <<data[i]>> \o f[i + 1]
                         ELSE StaticReverse[Chosen(D, data, i)] \o f[i + Len(Chosen(D, data, i))]
           next == CHOOSE f : f = [i \in 1..N |-> Body(f, i)]
           S == {i \in 1..N : next[i] = scan[i]}
<1>1. n \in Nat /\ N \in Nat /\ 1 \in 1..N
  BY LenProperties
<1>2. AnySteps(D, data, scan)
  BY AnyShape
<1>3. \A i \in 1..n : Here(D, data, i) # {} =>
        /\ Chosen(D, data, i) \in D /\ OccursAt(data, Chosen(D, data, i), i)
        /\ i + Len(Chosen(D, data, i)) \in (i + 1)..N
  <2> SUFFICES ASSUME NEW i \in 1..n, Here(D, data, i) # {}
               PROVE  /\ Chosen(D, data, i) \in D /\ OccursAt(data, Chosen(D, data, i), i)
                      /\ i + Len(Chosen(D, data, i)) \in (i + 1)..N
    OBVIOUS
  <2> DEFINE f == Chosen(D, data, i)
  <2>1. f \in Here(D, data, i)
    BY DEF Chosen
  <2> HIDE DEF f
  <2>2. f \in D /\ OccursAt(data, f, i)
    BY <2>1 DEF Here
  <2>3. f \in Identifiers /\ Len(f) \in Nat \ {0}
    BY <2>2, StaticShape, IdentifierShape
  <2>4. i + Len(f) <= n + 1
    BY <2>2, <2>3, OccursShape
  <2>5. i + Len(f) \in (i + 1)..N
    BY <1>1, <2>3, <2>4
  <2> QED BY <2>2, <2>5 DEF f
<1>4. \A i \in 1..N : scan[i] = Body(scan, i)
  <2> SUFFICES ASSUME NEW i \in 1..N PROVE scan[i] = Body(scan, i)
    OBVIOUS
  <2>1. CASE i = N
    <3>1. scan[N] = << >> /\ N > n
      BY <1>1, <1>2 DEF AnySteps
    <3> HIDE DEF N, n
    <3> QED BY <2>1, <3>1
  <2>2. CASE i # N
    <3>1. i \in 1..n /\ ~(i > n)
      BY <1>1, <2>2
    <3>2. CASE Here(D, data, i) = {}
      <4>1. scan[i] = <<data[i]>> \o scan[i + 1]
        BY <1>2, <3>1, <3>2 DEF AnySteps
      <4> HIDE DEF N, n, D
      <4> QED BY <3>1, <3>2, <4>1
    <3>3. CASE Here(D, data, i) # {}
      <4> DEFINE f == Chosen(D, data, i)
      <4>1. f \in D /\ OccursAt(data, f, i)
        BY <1>3, <3>1, <3>3
      <4> HIDE DEF f
      <4>2. scan[i] = StaticReverse[f] \o scan[i + Len(f)]
        BY <1>2, <3>1, <4>1 DEF AnySteps
      <4> HIDE DEF N, n, D
      <4> QED BY <3>1, <3>3, <4>2 DEF f
    <3> QED BY <3>2, <3>3
  <2> QED BY <2>1, <2>2
<1>5. next = [i \in 1..N |-> Body(next, i)]
  <2>1. scan = [i \in 1..N |-> scan[i]]
    BY <1>2 DEF AnySteps
  <2> HIDE DEF N, Body
  <2>2. scan = [i \in 1..N |-> Body(scan, i)]
    BY <1>4, <2>1
  <2> QED BY <2>2
<1>6. NextStatic(data) = next[1]
  BY DEF NextStatic, Here, Chosen
<1>7. \A i \in 1..N : next[i] = Body(next, i)
  <2> HIDE DEF N, Body, next
  <2> QED BY <1>5
<1> HIDE DEF next
<1>8. \A i \in 1..N : (\A j \in (i + 1)..N : j \in S) => i \in S
  <2> SUFFICES ASSUME NEW i \in 1..N, \A j \in (i + 1)..N : j \in S
               PROVE  next[i] = scan[i]
    OBVIOUS
  <2>0. \A j \in (i + 1)..N : next[j] = scan[j]
    OBVIOUS
  <2>1. Body(next, i) = Body(scan, i)
    <3>1. CASE i = N
      <4>1. i > n
        BY <1>1, <3>1
      <4> HIDE DEF N, n, D
      <4> QED BY <4>1
    <3>2. CASE i # N
      <4>1. i \in 1..n /\ i + 1 \in (i + 1)..N
        BY <1>1, <3>2
      <4> DEFINE e == i + 1
                 l == i + Len(Chosen(D, data, i))
      <4>2. next[e] = scan[e]
        <5> HIDE DEF N
        <5> QED BY <2>0, <4>1
      <4>3. Here(D, data, i) # {} => next[l] = scan[l]
        <5>1. Here(D, data, i) # {} => l \in (i + 1)..N
          <6> HIDE DEF N, n, D
          <6> QED BY <1>3, <4>1
        <5> HIDE DEF l, N, n, D
        <5> QED BY <2>0, <5>1
      <4> HIDE DEF N, n, D
      <4> QED BY <4>2, <4>3
    <3> QED BY <3>1, <3>2
  <2> HIDE DEF Body
  <2> QED BY <1>4, <1>7, <2>1
<1>9. \A i \in 1..N : i \in S
  <2> HIDE DEF N, S
  <2> QED BY <1>1, <1>8, Backwards
<1> HIDE DEF N
<1> QED BY <1>1, <1>6, <1>9

\* x is data with the aliases of F replaced, whichever comes next.
ReplacedAny(F, data, x) == \E scan : ReplacingAny(F, data, scan) /\ scan[1] = x

(* With no alias nothing is replaced.                                      *)
LEMMA ReplacedNone ==
  ASSUME NEW data \in Seq(Bytes)
  PROVE  ReplacedAny({}, data, data)
<1> DEFINE n == Len(data)
           hits == {i \in 1..n : Here({}, data, i) # {}}
           len == [i \in 1..n |-> Len(Chosen({}, data, i))]
           put == [i \in 1..n |-> StaticReverse[Chosen({}, data, i)]]
<1>1. PICK scan : ReplacingAny({}, data, scan)
  BY AnyExists
<1>2. Rewriting(data, hits, len, put, scan)
  BY <1>1 DEF ReplacingAny
<1>3. hits = {}
  BY DEF Here
<1>4. n \in Nat /\ n \in 0..Len(data) /\ 1 \in 1..(n + 1)
  BY LenProperties
<1> HIDE DEF hits, len, put, n
<1>5. CopiedUpTo(data, hits, scan, n)
  BY <1>2, <1>4, CopiedThrough
<1>6. scan[1] = SubSeq(data, 1, n) \o scan[n + 1]
  BY <1>3, <1>4, <1>5 DEF CopiedUpTo
<1>7. scan[n + 1] = << >>
  BY <1>2 DEF Rewriting, n
<1>8. SubSeq(data, 1, n) = data
  BY SubSeqFull DEF n
<1>9. scan[1] = data
  BY <1>6, <1>7, <1>8, SeqNone
<1> QED BY <1>1, <1>9 DEF ReplacedAny

(* One more pair replaced in a chunk in which those of F are.              *)
LEMMA ReplacedOneMore ==
  ASSUME NEW F \in SUBSET DOMAIN StaticReverse, NEW g \in DOMAIN StaticReverse \ F,
         NEW data \in Seq(Bytes), NEW x, ReplacedAny(F, data, x)
  PROVE  ReplacedAny(F \cup {g}, data, replaceAllBytes(x, g, StaticReverse[g]))
<1>1. PICK scan : ReplacingAny(F, data, scan) /\ scan[1] = x
  BY DEF ReplacedAny
<1>2. F \cup {g} \in SUBSET DOMAIN StaticReverse
  OBVIOUS
<1>3. PICK scan2 : ReplacingAny(F \cup {g}, data, scan2)
  BY <1>2, AnyExists
<1>4. replaceAllBytes(scan[1], g, StaticReverse[g]) = scan2[1]
  BY <1>1, <1>3, AnyOneMore
<1> QED BY <1>1, <1>3, <1>4 DEF ReplacedAny

-----------------------------------------------------------------------------
(***************************************************************************)
(* The inductive invariant for responses without a map that come as one    *)
(* chunk: it has the aliases replaced that are no longer ahead.            *)
(***************************************************************************)

\* The inductive invariant behind StaticOrderIrrelevant.
StaticInv ==
  /\ RestoredInv
  /\ cuts = {} => chunk = << >> /\ out = << >>
  /\ ~mapped /\ cuts = {Len(response)} =>
       /\ rest = << >>
       /\ chunk # << >> => out = << >> /\ ReplacedAny(DOMAIN StaticReverse \ ahead, response, chunk)
       /\ chunk = << >> => ReplacedAny(DOMAIN StaticReverse, response, out)

(* The chunks of a response end at passed, the last of them.               *)
LEMMA StaticPassChunk ==
  StaticInv /\ PassChunk => StaticInv'
<1> SUFFICES ASSUME StaticInv, PassChunk PROVE StaticInv'
  OBVIOUS
<1>1. RestoredInv /\ RestoredInv'
  BY RestoredPassChunk DEF StaticInv
<1>2. StreamTyped /\ passed \in cuts \cup {0}
  BY <1>1 DEF RestoredInv
<1>3. PICK n \in 1..Len(rest) :
        /\ chunk' = SubSeq(rest, 1, n)
        /\ rest' = SubSeq(rest, n + 1, Len(rest))
        /\ cuts' = cuts \cup {Len(response) - Len(rest) + n}
  BY DEF PassChunk
<1>4. /\ chunk = << >> /\ ahead' = DOMAIN pairs
      /\ mapped' = mapped /\ response' = response /\ out' = out
  BY DEF PassChunk
<1>5. /\ response \in Seq(Bytes) /\ Len(response) \in Nat \ {0}
      /\ passed \in 0..Len(response) /\ Len(rest) = Len(response) - passed
      /\ rest = SubSeq(response, passed + 1, Len(response))
      /\ rest \in Seq(Bytes) /\ (rest = << >> <=> passed = Len(response))
  BY <1>2, PassedShape
<1>6. cuts' # {}
  BY <1>3
<1>7. ASSUME ~mapped', cuts' = {Len(response')}
      PROVE  /\ rest' = << >>
             /\ chunk' # << >> => /\ out' = << >>
                                  /\ ReplacedAny(DOMAIN StaticReverse \ ahead', response', chunk')
             /\ chunk' = << >> => ReplacedAny(DOMAIN StaticReverse, response', out')
  <2>1. Len(response) - Len(rest) + n = Len(response) /\ cuts \subseteq {Len(response)}
    BY <1>3, <1>4, <1>7
  <2>2. n = Len(rest)
    BY <1>5, <2>1
  <2>3. passed # Len(response)
    BY <1>5, <2>2
  <2>4. passed = 0 /\ cuts = {}
    <3>1. passed = 0
      BY <1>2, <2>1, <2>3
    <3>2. Len(response) \notin cuts
      <4> SUFFICES ASSUME Len(response) \in cuts PROVE FALSE
        OBVIOUS
      <4>1. cuts = {Len(response)}
        BY <2>1
      <4> QED BY <1>4, <1>7, <1>5, <2>3, <4>1 DEF StaticInv
    <3> QED BY <2>1, <3>1, <3>2
  <2>5. rest = response /\ n = Len(response)
    BY <1>5, <2>2, <2>4, SubSeqFull
  <2>6. chunk' = response
    BY <1>3, <1>5, <2>5, SubSeqFull
  <2>7. rest' = << >>
    <3>1. n \in Int /\ n + 1 \in Int /\ n < n + 1
      BY <1>5, <2>5
    <3>2. SubSeq(response, n + 1, n) = << >>
      BY <3>1, SubSeqEmpty
    <3> QED BY <1>3, <2>5, <3>2
  <2>8. out' = << >>
    BY <1>4, <2>4 DEF StaticInv
  <2>9. DOMAIN StaticReverse \ ahead' = {}
    BY <1>4, <1>7 DEF pairs
  <2>10. ReplacedAny({}, response, response)
    BY <1>5, ReplacedNone
  <2>11. chunk' # << >>
    BY <1>5, <2>6, SeqNone
  <2> QED BY <1>4, <2>6, <2>7, <2>8, <2>9, <2>10, <2>11
<1> QED BY <1>1, <1>6, <1>7 DEF StaticInv

(* A pair of the table applied to the one chunk.                           *)
LEMMA StaticApplyPair ==
  StaticInv /\ ApplyPair => StaticInv'
<1> SUFFICES ASSUME StaticInv, ApplyPair PROVE StaticInv'
  OBVIOUS
<1>1. RestoredInv /\ RestoredInv'
  BY RestoredApplyPair DEF StaticInv
<1>2. StreamTyped /\ StreamTyped'
  BY <1>1 DEF RestoredInv
<1>3. PICK fake \in NextPairs : chunk' = ReplaceOne(chunk, fake) /\ ahead' = ahead \ {fake}
  BY DEF ApplyPair
<1>4. /\ mapped' = mapped /\ response' = response /\ rest' = rest
      /\ cuts' = cuts /\ out' = out
  BY DEF ApplyPair
<1>5. /\ fake \in ahead /\ fake \in DOMAIN pairs /\ ahead \subseteq DOMAIN pairs
      /\ chunk # << >> /\ chunk \in Seq(Bytes) /\ mapped \in BOOLEAN
  BY <1>2 DEF StreamTyped, NextPairs
<1>6. chunk' # << >>
  <2>1. Kept(chunk, fake, pairs[fake], mapped, chunk')
    BY <1>3, <1>5, PairApplied
  <2> QED BY <1>5, <2>1 DEF Kept, Alike
<1>7. cuts' # {}
  BY <1>4, <1>5 DEF StaticInv
<1>8. ASSUME ~mapped', cuts' = {Len(response')}
      PROVE  /\ rest' = << >>
             /\ out' = << >>
             /\ ReplacedAny(DOMAIN StaticReverse \ ahead', response', chunk')
  <2> DEFINE F == DOMAIN StaticReverse \ ahead
  <2>1. ~mapped /\ cuts = {Len(response)}
    BY <1>4, <1>8
  <2>2. rest = << >> /\ out = << >> /\ ReplacedAny(F, response, chunk)
    BY <1>5, <2>1 DEF StaticInv
  <2>3. pairs = StaticReverse
    BY <2>1 DEF pairs
  <2>4. fake \in DOMAIN StaticReverse \ F /\ F \in SUBSET DOMAIN StaticReverse
        /\ F \cup {fake} = DOMAIN StaticReverse \ ahead'
    BY <1>3, <1>5, <2>3
  <2>5. chunk' = replaceAllBytes(chunk, fake, StaticReverse[fake])
    BY <1>3, <2>1, <2>3 DEF ReplaceOne
  <2>6. response \in Seq(Bytes)
    BY <1>2, PassedShape
  <2> HIDE DEF F
  <2>7. ReplacedAny(F \cup {fake}, response, replaceAllBytes(chunk, fake, StaticReverse[fake]))
    BY <2>2, <2>4, <2>6, ReplacedOneMore
  <2> QED BY <1>4, <2>2, <2>4, <2>5, <2>7
<1> QED BY <1>1, <1>6, <1>7, <1>8 DEF StaticInv

(* The one chunk, all pairs applied, is what the client has.               *)
LEMMA StaticDeliverChunk ==
  StaticInv /\ DeliverChunk => StaticInv'
<1> SUFFICES ASSUME StaticInv, DeliverChunk PROVE StaticInv'
  OBVIOUS
<1>1. RestoredInv /\ RestoredInv'
  BY RestoredDeliverChunk DEF StaticInv
<1>2. StreamTyped
  BY <1>1 DEF RestoredInv
<1>3. /\ chunk # << >> /\ ahead = {} /\ out' = out \o chunk /\ chunk' = << >>
      /\ mapped' = mapped /\ response' = response /\ rest' = rest
      /\ cuts' = cuts /\ ahead' = ahead
  BY DEF DeliverChunk
<1>4. cuts' # {}
  BY <1>3 DEF StaticInv
<1>5. ASSUME ~mapped', cuts' = {Len(response')}
      PROVE  rest' = << >> /\ ReplacedAny(DOMAIN StaticReverse, response', out')
  <2>1. ~mapped /\ cuts = {Len(response)}
    BY <1>3, <1>5
  <2>2. rest = << >> /\ out = << >> /\ ReplacedAny(DOMAIN StaticReverse \ ahead, response, chunk)
    BY <1>3, <2>1 DEF StaticInv
  <2>3. DOMAIN StaticReverse \ ahead = DOMAIN StaticReverse
    BY <1>3
  <2>4. out' = chunk
    <3>1. chunk \in Seq(Bytes)
      BY <1>2 DEF StreamTyped
    <3> QED BY <1>3, <2>2, <3>1, SeqNone
  <2> QED BY <1>3, <2>2, <2>3, <2>4
<1> QED BY <1>1, <1>3, <1>4, <1>5 DEF StaticInv

(* Every step keeps the invariant.                                         *)
LEMMA StaticNext == StaticInv /\ [StreamNext]_streamVars => StaticInv'
<1> SUFFICES ASSUME StaticInv, [StreamNext]_streamVars PROVE StaticInv'
  OBVIOUS
<1>1. CASE PassChunk
  BY <1>1, StaticPassChunk
<1>2. CASE ApplyPair
  BY <1>2, StaticApplyPair
<1>3. CASE DeliverChunk
  BY <1>3, StaticDeliverChunk
<1>4. CASE UNCHANGED streamVars
  <2>1. RestoredInv'
    BY <1>4, RestoredNext DEF StaticInv
  <2>2. /\ mapped' = mapped /\ response' = response /\ rest' = rest /\ cuts' = cuts
        /\ chunk' = chunk /\ ahead' = ahead /\ out' = out
    BY <1>4 DEF streamVars
  <2> QED BY <2>1, <2>2 DEF StaticInv
<1> QED BY <1>1, <1>2, <1>3, <1>4 DEF StreamNext

(* The initial states have no chunk and a response that is not empty.      *)
LEMMA StaticInit == StreamInit => StaticInv
<1> SUFFICES ASSUME StreamInit PROVE StaticInv
  OBVIOUS
<1>1. RestoredInv
  BY RestoredInit
<1> QED BY <1>1 DEF StreamInit, StaticInv

(* So it holds always.                                                     *)
LEMMA StaticAlways == StreamSpec => []StaticInv
BY StaticInit, StaticNext, PTL DEF StreamSpec

(***************************************************************************)
(* Without a map, a response that comes as one chunk is the same whatever  *)
(* order Go ranges over staticToolNameRewrites in: that of one scan over   *)
(* it that replaces whichever alias comes next, for any table in which no  *)
(* alias overlaps another or what another is replaced by.                  *)
(***************************************************************************)
THEOREM StreamStaticOrderIrrelevant == StreamSpec => []StaticOrderIrrelevant
<1>1. StaticInv => StaticOrderIrrelevant
  <2> SUFFICES ASSUME StaticInv, Delivered, ~mapped, cuts = {Len(response)}
               PROVE  out = NextStatic(response)
    BY DEF StaticOrderIrrelevant
  <2>1. ReplacedAny(DOMAIN StaticReverse, response, out)
    BY DEF StaticInv, Delivered
  <2>2. response \in Seq(Bytes)
    BY PassedShape DEF StaticInv, RestoredInv
  <2>3. PICK scan : ReplacingAny(DOMAIN StaticReverse, response, scan) /\ scan[1] = out
    BY <2>1 DEF ReplacedAny
  <2> QED BY <2>2, <2>3, NextStaticAny
<1> QED BY <1>1, StaticAlways, PTL
=============================================================================
