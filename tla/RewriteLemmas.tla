---------------------------- MODULE RewriteLemmas ----------------------------
(***************************************************************************)
(* What the routes need to know of the two things they are built from.     *)
(*                                                                         *)
(* What a rewrite of internal/mimicry/toolrewrite.go does to the names of  *)
(* the list it was built from, for every list and every pair of alias      *)
(* rules that meets the assumptions of ToolNames.  What put and get of     *)
(* boundedRewriteStore do to a store whose list and map agree, for every   *)
(* capacity, every set of keys and every rewrite.                          *)
(***************************************************************************)
EXTENDS ToolNames, RewriteStore, FiniteSetTheorems, SequenceTheorems,
        WellFoundedInduction, TLAPS

(* A nonempty set of positions has a last one. *)
LEMMA LastExists ==
  ASSUME NEW N \in Nat, NEW S \in SUBSET (1..N), S # {}
  PROVE  \E i \in S : \A j \in S : j <= i
<1> DEFINE T == {k \in Nat : \E i \in S : k = N - i}
<1>1. T \subseteq Nat /\ T # {}
  <2>1. PICK i \in S : TRUE
    OBVIOUS
  <2>2. N - i \in Nat
    BY <2>1
  <2> QED BY <2>1, <2>2
<1>2. PICK k \in T : \A l \in T : ~(<<l, k>> \in OpToRel(<, Nat))
  <2> HIDE DEF T
  <2> QED BY <1>1, NatLessThanWellFounded, WFMin
<1>3. \A l \in T : ~(l < k)
  <2> SUFFICES ASSUME NEW l \in T, l < k PROVE FALSE
    OBVIOUS
  <2>1. <<l, k>> \in Nat \X Nat
    BY <1>1
  <2>2. <<l, k>> \in OpToRel(<, Nat)
    BY <2>1 DEF OpToRel
  <2> QED BY <1>2, <2>2
<1>4. PICK i \in S : k = N - i
  OBVIOUS
<1>5. \A j \in S : j <= i
  <2> SUFFICES ASSUME NEW j \in S PROVE j <= i
    OBVIOUS
  <2>1. N - j \in T
    OBVIOUS
  <2>2. ~(N - j < N - i)
    BY <1>3, <1>4, <2>1
  <2> QED BY <2>2
<1> QED BY <1>5

LEMMA FirstNumbers ==
  ASSUME NEW n \in Nat
  PROVE  IsFiniteSet(1..n) /\ Cardinality(1..n) = n
<1>1. 1 \in Int /\ n \in Int
  OBVIOUS
<1>2. IsFiniteSet(1..n)
  BY <1>1, FS_Interval
<1>3. Cardinality(1..n) = IF 1 > n THEN 0 ELSE n - 1 + 1
  BY <1>1, FS_Interval
<1> QED BY <1>2, <1>3

(* A finite set of positions has a k-th one for each k up to its size,     *)
(* each position is one of them, and they are in order.                    *)
LEMMA PlaceShape ==
  ASSUME NEW N \in Nat, NEW places \in SUBSET (1..N)
  PROVE  /\ Cardinality(places) \in 0..N
         /\ \A k \in 1..Cardinality(places) : Place(places, k) \in places
         /\ \A i \in places : \E k \in 1..Cardinality(places) : Place(places, k) = i
         /\ \A k \in 1..Cardinality(places) :
              Cardinality({j \in places : j <= Place(places, k)}) = k
         /\ \A i \in places : Place(places, Cardinality({j \in places : j <= i})) = i
         /\ \A k, l \in 1..Cardinality(places) :
              k < l => Place(places, k) < Place(places, l)
<1> DEFINE upTo(i) == {j \in places : j <= i}
           c       == Cardinality(places)
           rank    == [i \in places |-> Cardinality(upTo(i))]
<1>0. \A i \in places : i \in Int
  <2>1. \A i \in 1..N : i \in Int
    OBVIOUS
  <2> QED BY <2>1
<1>1. IsFiniteSet(places) /\ c \in Nat /\ c <= N
  <2>1. IsFiniteSet(1..N) /\ Cardinality(1..N) = N
    BY FirstNumbers
  <2>2. IsFiniteSet(places) /\ Cardinality(places) <= N
    BY <2>1, FS_Subset
  <2> QED BY <2>2, FS_CardinalityType
<1>2. \A i \in places : /\ IsFiniteSet(upTo(i))
                        /\ Cardinality(upTo(i)) \in 1..c
  <2> SUFFICES ASSUME NEW i \in places
               PROVE  IsFiniteSet(upTo(i)) /\ Cardinality(upTo(i)) \in 1..c
    OBVIOUS
  <2>1. upTo(i) \in SUBSET places /\ upTo(i) # {}
    OBVIOUS
  <2> HIDE DEF upTo
  <2>2. IsFiniteSet(upTo(i)) /\ Cardinality(upTo(i)) <= c
    BY <1>1, <2>1, FS_Subset
  <2>3. Cardinality(upTo(i)) \in Nat
    BY <2>2, FS_CardinalityType
  <2>4. Cardinality(upTo(i)) # 0
    BY <2>1, <2>2, FS_EmptySet
  <2> HIDE DEF c
  <2> QED BY <1>1, <2>2, <2>3, <2>4
<1>3. \A i, j \in places : i < j => Cardinality(upTo(i)) # Cardinality(upTo(j))
  <2> SUFFICES ASSUME NEW i \in places, NEW j \in places, i < j,
                      Cardinality(upTo(i)) = Cardinality(upTo(j))
               PROVE  FALSE
    OBVIOUS
  <2>1. upTo(i) \in SUBSET upTo(j)
    <3>1. \A k \in places : k <= i => k <= j
      <4>1. \A k, l, m \in Int : k <= l /\ l < m => k <= m
        OBVIOUS
      <4> QED BY <1>0, <4>1
    <3> QED BY <3>1
  <2>2. j \in upTo(j) /\ j \notin upTo(i)
    OBVIOUS
  <2>3. IsFiniteSet(upTo(j))
    BY <1>2
  <2> HIDE DEF upTo
  <2>4. upTo(j) = upTo(i)
    BY <2>1, <2>3, FS_Subset
  <2> QED BY <2>2, <2>4
<1>4. rank \in Injection(places, 1..c)
  <2>1. rank \in [places -> 1..c]
    BY <1>2
  <2>2. \A i, j \in places : rank[i] = rank[j] => i = j
    <3> SUFFICES ASSUME NEW i \in places, NEW j \in places, rank[i] = rank[j]
                 PROVE  i = j
      OBVIOUS
    <3>1. i \in Int /\ j \in Int
      BY <1>0
    <3>2. ~(i < j) /\ ~(j < i)
      BY <1>3
    <3> QED BY <3>1, <3>2
  <2> HIDE DEF rank
  <2> QED BY <2>1, <2>2 DEF Injection, IsInjective
<1>5. rank \in Surjection(places, 1..c)
  <2>1. IsFiniteSet(1..c) /\ Cardinality(1..c) = c
    <3> HIDE DEF c
    <3> QED BY <1>1, FirstNumbers
  <2> HIDE DEF rank
  <2> QED BY <1>4, <2>1, FS_Injection
<1>6. \A k \in 1..c : \E i \in places : Cardinality(upTo(i)) = k
  BY <1>5 DEF Surjection
<1>7. \A k \in 1..c : /\ Place(places, k) \in places
                      /\ Cardinality(upTo(Place(places, k))) = k
  BY <1>6 DEF Place
<1>8. \A i \in places : Place(places, Cardinality(upTo(i))) = i
  <2> SUFFICES ASSUME NEW i \in places
               PROVE  Place(places, Cardinality(upTo(i))) = i
    OBVIOUS
  <2>1. Cardinality(upTo(i)) \in 1..c
    BY <1>2
  <2> DEFINE p == Place(places, Cardinality(upTo(i)))
  <2>2. p \in places /\ Cardinality(upTo(p)) = Cardinality(upTo(i))
    BY <1>7, <2>1
  <2>3. i \in Int /\ p \in Int
    <3> HIDE DEF p
    <3> QED BY <1>0, <2>2
  <2>4. ~(i < p) /\ ~(p < i)
    BY <1>3, <2>2
  <2> QED BY <2>3, <2>4
<1>9. c \in 0..N
  BY <1>1
<1>10. \A k, l \in 1..c : k < l => Place(places, k) < Place(places, l)
  <2> SUFFICES ASSUME NEW k \in 1..c, NEW l \in 1..c, k < l,
                      ~(Place(places, k) < Place(places, l))
               PROVE  FALSE
    OBVIOUS
  <2> DEFINE p == Place(places, k)
             q == Place(places, l)
  <2>1. p \in places /\ q \in places /\ Cardinality(upTo(p)) = k /\ Cardinality(upTo(q)) = l
    BY <1>7
  <2>2. upTo(q) \in SUBSET upTo(p)
    <3>1. ~(p < q)
      OBVIOUS
    <3> HIDE DEF p, q
    <3>2. p \in Int /\ q \in Int
      BY <1>0, <2>1
    <3>3. q <= p
      BY <3>1, <3>2
    <3>4. \A i \in places : i <= q => i <= p
      <4>1. \A a, b, d \in Int : a <= b /\ b <= d => a <= d
        OBVIOUS
      <4> QED BY <1>0, <3>2, <3>3, <4>1
    <3> QED BY <3>4
  <2>3. IsFiniteSet(upTo(p))
    BY <1>2, <2>1
  <2> HIDE DEF p, q, upTo
  <2>4. Cardinality(upTo(q)) <= Cardinality(upTo(p))
    BY <2>2, <2>3, FS_Subset
  <2> QED BY <2>1, <2>4
<1>11. \A k \in 1..c : Cardinality({j \in places : j <= Place(places, k)}) = k
  BY <1>7
<1>12. \A i \in places : Place(places, Cardinality({j \in places : j <= i})) = i
  BY <1>8
<1>13. \A i \in places : \E k \in 1..c : Place(places, k) = i
  BY <1>2, <1>8
<1> HIDE DEF upTo, rank
<1> QED
  BY <1>7, <1>9, <1>10, <1>11, <1>12, <1>13

(* The members picked from a sequence are those at the given positions.    *)
LEMMA PickedShape ==
  ASSUME NEW N \in Nat, NEW places \in SUBSET (1..N), NEW s
  PROVE  /\ Cardinality(places) \in 0..N
         /\ DOMAIN Picked(s, places) = 1..Cardinality(places)
         /\ \A k \in 1..Cardinality(places) :
              /\ Place(places, k) \in places
              /\ Picked(s, places)[k] = s[Place(places, k)]
         /\ \A i \in places : \E k \in 1..Cardinality(places) : Place(places, k) = i
BY PlaceShape DEF Picked

\* g takes the positions P of s to the positions Q of t, in order.
Along(g, s, P, t, Q) ==
  /\ \E N, M \in Nat : P \in SUBSET (1..N) /\ Q \in SUBSET (1..M)
  /\ g \in [P -> Q]
  /\ \A q \in Q : \E p \in P : g[p] = q
  /\ \A p, r \in P : p < r => g[p] < g[r]
  /\ \A p \in P : t[g[p]] = s[p]

(* Two sequences that agree along an order-preserving map between the      *)
(* positions picked from them have the same members picked.                *)
LEMMA PickedAlong ==
  ASSUME NEW P, NEW Q, NEW s, NEW t, NEW g, Along(g, s, P, t, Q)
  PROVE  Picked(t, Q) = Picked(s, P)
<1> PICK N \in Nat, M \in Nat : P \in SUBSET (1..N) /\ Q \in SUBSET (1..M)
  BY DEF Along
<1> /\ g \in [P -> Q]
    /\ \A q \in Q : \E p \in P : g[p] = q
    /\ \A p, r \in P : p < r => g[p] < g[r]
    /\ \A p \in P : t[g[p]] = s[p]
  BY DEF Along
<1> DEFINE upToP(i) == {j \in P : j <= i}
           upToQ(i) == {j \in Q : j <= i}
<1>0. (\A i \in P : i \in Int) /\ (\A i \in Q : i \in Int)
  <2>1. (\A i \in 1..N : i \in Int) /\ (\A i \in 1..M : i \in Int)
    OBVIOUS
  <2> QED BY <2>1
<1>1. \A p, r \in P : /\ p \in Int /\ r \in Int /\ g[p] \in Int /\ g[r] \in Int
                      /\ (g[p] = g[r] => p = r)
                      /\ (g[r] <= g[p] <=> r <= p)
  <2> SUFFICES ASSUME NEW p \in P, NEW r \in P
               PROVE  /\ p \in Int /\ r \in Int /\ g[p] \in Int /\ g[r] \in Int
                      /\ (g[p] = g[r] => p = r)
                      /\ (g[r] <= g[p] <=> r <= p)
    OBVIOUS
  <2>1. g[p] \in Q /\ g[r] \in Q
    OBVIOUS
  <2>2. p \in Int /\ r \in Int /\ g[p] \in Int /\ g[r] \in Int
    BY <1>0, <2>1
  <2>3. (p < r => g[p] < g[r]) /\ (r < p => g[r] < g[p])
    OBVIOUS
  <2> QED BY <2>2, <2>3
<1>2. IsFiniteSet(P) /\ IsFiniteSet(Q)
  <2>1. IsFiniteSet(1..N) /\ IsFiniteSet(1..M)
    BY FirstNumbers
  <2> QED BY <2>1, FS_Subset
<1>3. Cardinality(P) = Cardinality(Q)
  <2>1. \A p, r \in P : g[p] = g[r] => p = r
    BY <1>1
  <2>2. g \in Bijection(P, Q)
    BY <2>1 DEF Bijection, Injection, Surjection, IsInjective
  <2>3. ExistsBijection(P, Q)
    BY <2>2 DEF ExistsBijection
  <2> QED BY <1>2, <2>3, FS_Bijection
<1>4. \A i \in P : Cardinality(upToQ(g[i])) = Cardinality(upToP(i))
  <2> SUFFICES ASSUME NEW i \in P
               PROVE  Cardinality(upToQ(g[i])) = Cardinality(upToP(i))
    OBVIOUS
  <2> DEFINE A == upToP(i)
             B == upToQ(g[i])
             h == [j \in A |-> g[j]]
  <2>1. h \in [A -> B]
    <3>1. \A j \in A : j \in P /\ g[j] \in Q /\ j <= i
      OBVIOUS
    <3>2. \A j \in A : g[j] <= g[i]
      <4> HIDE DEF A, B
      <4> QED BY <1>1, <3>1
    <3>3. \A j \in A : g[j] \in B
      <4> HIDE DEF A
      <4> QED BY <3>1, <3>2
    <3> HIDE DEF A, B
    <3> QED BY <3>3
  <2>2. \A j, k \in A : h[j] = h[k] => j = k
    <3>1. \A j \in A : j \in P /\ h[j] = g[j]
      OBVIOUS
    <3> HIDE DEF A, h
    <3> QED BY <1>1, <3>1
  <2>3. \A q \in B : \E j \in A : h[j] = q
    <3> SUFFICES ASSUME NEW q \in B PROVE \E j \in A : h[j] = q
      OBVIOUS
    <3>1. PICK j \in P : g[j] = q
      OBVIOUS
    <3>2. g[j] <= g[i]
      BY <3>1
    <3>3. j <= i
      BY <1>1, <3>2
    <3>4. j \in A
      BY <3>3
    <3> QED BY <3>1, <3>4
  <2>4. IsFiniteSet(A) /\ IsFiniteSet(B)
    <3>1. A \in SUBSET P /\ B \in SUBSET Q
      OBVIOUS
    <3> HIDE DEF A, B
    <3> QED BY <1>2, <3>1, FS_Subset
  <2> HIDE DEF A, B, h
  <2>5. h \in Bijection(A, B)
    BY <2>1, <2>2, <2>3 DEF Bijection, Injection, Surjection, IsInjective
  <2>6. ExistsBijection(A, B)
    BY <2>5 DEF ExistsBijection
  <2>7. Cardinality(A) = Cardinality(B)
    BY <2>4, <2>6, FS_Bijection
  <2> QED BY <2>7 DEF A, B
<1>5. \A k \in 1..Cardinality(P) : t[Place(Q, k)] = s[Place(P, k)]
  <2> SUFFICES ASSUME NEW k \in 1..Cardinality(P)
               PROVE  t[Place(Q, k)] = s[Place(P, k)]
    OBVIOUS
  <2> DEFINE i == Place(P, k)
  <2>1. i \in P /\ Cardinality(upToP(i)) = k
    BY PlaceShape
  <2>2. \A q \in Q : Place(Q, Cardinality(upToQ(q))) = q
    BY PlaceShape
  <2> HIDE DEF i, upToP, upToQ
  <2>3. g[i] \in Q
    BY <2>1
  <2>4. Cardinality(upToQ(g[i])) = k
    BY <1>4, <2>1
  <2>5. Place(Q, k) = g[i]
    BY <2>2, <2>3, <2>4
  <2> QED BY <2>1, <2>5 DEF i
<1>6. Picked(t, Q) = [k \in 1..Cardinality(P) |-> t[Place(Q, k)]]
  BY <1>3 DEF Picked
<1> HIDE DEF upToP, upToQ
<1> QED BY <1>5, <1>6 DEF Picked

(* The last position of a declared name holds that name. *)
LEMMA LastIndexHolds ==
  ASSUME NEW list \in ToolLists, NEW n \in Range(list)
  PROVE  LastIndex(list, n) \in 1..Len(list) /\ list[LastIndex(list, n)] = n
<1> DEFINE S == {i \in 1..Len(list) : list[i] = n}
<1>1. Len(list) \in Nat /\ DOMAIN list = 1..Len(list)
  BY ListsAssumption, LenProperties
<1>2. S # {}
  BY <1>1 DEF Range
<1>3. PICK i \in S : \A j \in S : j <= i
  BY <1>1, <1>2, LastExists
<1>4. /\ i \in 1..Len(list)
      /\ list[i] = n /\ \A j \in 1..Len(list) : list[j] = n => j <= i
  BY <1>3
<1> QED BY <1>4 DEF LastIndex

(* Two declared names that are renamed get different aliases. *)
LEMMA AliasesDiffer ==
  ASSUME NEW list \in ToolLists, NEW dynamicAliases \in BOOLEAN,
         NEW n \in Renamed(list, dynamicAliases),
         NEW m \in Renamed(list, dynamicAliases),
         sanitizeToolName(n, list, dynamicAliases)
           = sanitizeToolName(m, list, dynamicAliases)
  PROVE  n = m
<1>1. n \in Range(list) /\ m \in Range(list)
  BY DEF Renamed
<1>2. CASE dynamicAliases /\ Len(list) > Threshold
  <2>1. LastIndex(list, n) = LastIndex(list, m)
    BY <1>1, <1>2, LastIndexHolds, DynamicAssumption DEF sanitizeToolName
  <2> QED BY <1>1, <2>1, LastIndexHolds
<1>3. CASE ~(dynamicAliases /\ Len(list) > Threshold)
  <2>1. n \in DOMAIN StaticAlias /\ m \in DOMAIN StaticAlias
    BY <1>3 DEF Renamed, sanitizeToolName
  <2>2. StaticAlias[n] = StaticAlias[m]
    BY <1>3, <2>1 DEF sanitizeToolName
  <2> QED BY <2>1, <2>2, StaticAssumption DEF IsInjective
<1> QED BY <1>2, <1>3

(* Every alias is a name. *)
LEMMA AliasIsName ==
  ASSUME NEW list \in ToolLists, NEW dynamicAliases \in BOOLEAN,
         NEW n \in Range(list)
  PROVE  n \in Names /\ sanitizeToolName(n, list, dynamicAliases) \in Names
<1>1. n \in Names
  BY ListsAssumption, ElementOfSeq, LenProperties DEF Range
<1>2. CASE dynamicAliases /\ Len(list) > Threshold
  BY <1>1, <1>2, LastIndexHolds, DynamicAssumption DEF sanitizeToolName
<1>3. CASE ~(dynamicAliases /\ Len(list) > Threshold)
  BY <1>1, <1>3, StaticAssumption DEF sanitizeToolName
<1> QED BY <1>1, <1>2, <1>3

(* The maps of a rewrite: forward takes the renamed names to their         *)
(* aliases, and reverse takes exactly the aliases back.                    *)
LEMMA RewriteMaps ==
  ASSUME NEW list \in ToolLists, NEW dynamicAliases \in BOOLEAN
  PROVE  LET rw == buildToolNameRewrite(list, dynamicAliases) IN
         /\ DOMAIN rw.forward = Renamed(list, dynamicAliases)
         /\ \A n \in Renamed(list, dynamicAliases) :
              /\ rw.forward[n] = sanitizeToolName(n, list, dynamicAliases)
              /\ rw.forward[n] \in DOMAIN rw.reverse
              /\ rw.reverse[rw.forward[n]] = n
         /\ DOMAIN rw.reverse \cap Range(list) = {}
         /\ DOMAIN rw.reverse \subseteq Names
         /\ \A w \in DOMAIN rw.reverse : rw.reverse[w] \in Range(list)
<1> DEFINE rw  == buildToolNameRewrite(list, dynamicAliases)
           fwd == ForwardMap(list, dynamicAliases)
           san(n) == sanitizeToolName(n, list, dynamicAliases)
<1>1. /\ DOMAIN fwd = Renamed(list, dynamicAliases)
      /\ \A n \in DOMAIN fwd : fwd[n] = san(n)
  BY DEF ForwardMap
<1>2. CASE DOMAIN fwd = {}
  <2>1. rw = EmptyRewrite
    BY <1>2 DEF buildToolNameRewrite
  <2>2. DOMAIN << >> = {}
    OBVIOUS
  <2>3. DOMAIN rw.forward = {} /\ DOMAIN rw.reverse = {}
    BY <2>1, <2>2 DEF EmptyRewrite
  <2> HIDE DEF rw, fwd
  <2> QED BY <1>1, <1>2, <2>3 DEF rw
<1>3. CASE DOMAIN fwd # {}
  <2>1. rw.forward = fwd /\ rw.reverse = ReverseMap(list, fwd)
    BY <1>3 DEF buildToolNameRewrite
  <2>2. DOMAIN rw.reverse = Range(fwd)
    BY <2>1 DEF ReverseMap
  <2>3. Range(fwd) = {san(n) : n \in DOMAIN fwd}
    BY <1>1 DEF Range
  <2>4. \A n \in DOMAIN fwd : n \in Range(list) /\ san(n) \notin Range(list)
    BY <1>1 DEF Renamed
  <2>5. Len(list) \in Nat /\ DOMAIN list = 1..Len(list)
    BY ListsAssumption, LenProperties
  <2>6. \A n \in DOMAIN fwd : rw.reverse[fwd[n]] = n
    <3> SUFFICES ASSUME NEW n \in DOMAIN fwd PROVE rw.reverse[fwd[n]] = n
      OBVIOUS
    <3> DEFINE hits == {i \in 1..Len(list) :
                          list[i] \in DOMAIN fwd /\ fwd[list[i]] = fwd[n]}
               last == CHOOSE i \in hits : \A j \in hits : j <= i
    <3>1. fwd[n] \in Range(fwd)
      BY DEF Range
    <3>2. rw.reverse[fwd[n]] = list[last]
      BY <2>1, <3>1 DEF ReverseMap
    <3>3. hits \in SUBSET (1..Len(list)) /\ hits # {}
      <4>1. PICK i \in 1..Len(list) : list[i] = n
        BY <2>4, <2>5 DEF Range
      <4> QED BY <4>1
    <3>4. \E i \in hits : \A j \in hits : j <= i
      <4> HIDE DEF hits
      <4> QED BY <2>5, <3>3, LastExists
    <3>5. last \in hits
      <4> HIDE DEF hits
      <4> QED BY <3>4
    <3>6. list[last] \in DOMAIN fwd /\ fwd[list[last]] = fwd[n]
      <4> HIDE DEF last
      <4> QED BY <3>5
    <3>7. san(list[last]) = san(n)
      BY <1>1, <3>6
    <3>8. list[last] = n
      <4> HIDE DEF last
      <4> QED BY <1>1, <3>6, <3>7, AliasesDiffer
    <3> QED BY <3>2, <3>8
  <2>7. \A n \in DOMAIN fwd : fwd[n] \in Names
    BY <1>1, <2>4, AliasIsName
  <2> HIDE DEF rw, fwd, san
  <2>8. \A w \in DOMAIN rw.reverse : \E n \in DOMAIN fwd : w = fwd[n]
    BY <2>2 DEF Range
  <2>9. \A n \in DOMAIN fwd : fwd[n] \in DOMAIN rw.reverse
    BY <2>2 DEF Range
  <2>10. \A n \in Renamed(list, dynamicAliases) : rw.forward[n] = san(n)
    BY <1>1, <2>1
  <2> QED BY <1>1, <2>1, <2>4, <2>6, <2>7, <2>8, <2>9, <2>10 DEF san, rw
<1> QED BY <1>2, <1>3

(* The round trip of a name: what goes upstream for a declared name comes  *)
(* back as that name, whichever of the client's names get an alias.        *)
LEMMA RoundTrip ==
  ASSUME NEW list \in ToolLists, NEW dynamicAliases \in BOOLEAN,
         NEW n \in Range(list)
  PROVE  LET rw == buildToolNameRewrite(list, dynamicAliases) IN
         /\ Alias(rw, n) \in Names
         /\ Unalias(rw, Alias(rw, n)) = n
<1> DEFINE rw == buildToolNameRewrite(list, dynamicAliases)
<1>1. CASE n \in DOMAIN rw.forward
  <2>1. Alias(rw, n) = rw.forward[n]
    BY <1>1 DEF Alias
  <2> QED BY <1>1, <2>1, RewriteMaps DEF Unalias
<1>2. CASE n \notin DOMAIN rw.forward
  <2>1. Alias(rw, n) = n
    BY <1>2 DEF Alias
  <2>2. n \notin DOMAIN rw.reverse
    BY RewriteMaps
  <2> QED BY <2>1, <2>2, AliasIsName DEF Unalias
<1> QED BY <1>1, <1>2

(* The lists on the wire are as long as the client's. *)
LEMMA AliasedListShape ==
  ASSUME NEW list \in ToolLists
  PROVE  LET body == AliasedList(buildToolNameRewrite(list, TRUE), list) IN
         /\ body \in Seq(Names)
         /\ Len(body) = Len(list)
         /\ \A i \in 1..Len(list) :
              body[i] = Alias(buildToolNameRewrite(list, TRUE), list[i])
<1> DEFINE rw   == buildToolNameRewrite(list, TRUE)
           body == AliasedList(rw, list)
<1>1. Len(list) \in Nat /\ DOMAIN list = 1..Len(list)
  BY ListsAssumption, LenProperties
<1>2. body = [i \in 1..Len(list) |-> Alias(rw, list[i])]
  BY <1>1 DEF AliasedList
<1>3. \A i \in 1..Len(list) : Alias(rw, list[i]) \in Names
  BY <1>1, RoundTrip DEF Range
<1> HIDE DEF rw
<1>4. body \in [1..Len(list) -> Names]
  BY <1>2, <1>3
<1>5. body \in Seq(Names)
  BY <1>1, <1>4, IsASeq
<1>6. Len(body) = Len(list)
  BY <1>1, <1>4, <1>5, LenProperties
<1> QED BY <1>2, <1>5, <1>6 DEF rw, body

(* An empty rewrite leaves every list of names as it is. *)
LEMMA EmptyLeaves ==
  ASSUME NEW list \in Seq(Names)
  PROVE  /\ AliasedList(EmptyRewrite, list) = list
         /\ \A n : Alias(EmptyRewrite, n) = n /\ Unalias(EmptyRewrite, n) = n
<1>1. DOMAIN EmptyRewrite.forward = {} /\ DOMAIN EmptyRewrite.reverse = {}
  <2>1. DOMAIN << >> = {}
    OBVIOUS
  <2> QED BY <2>1 DEF EmptyRewrite
<1>2. \A n : Alias(EmptyRewrite, n) = n /\ Unalias(EmptyRewrite, n) = n
  BY <1>1 DEF Alias, Unalias
<1>3. Len(list) \in Nat /\ list \in [1..Len(list) -> Names] /\ DOMAIN list = 1..Len(list)
  BY LenProperties
<1>4. AliasedList(EmptyRewrite, list) = [i \in 1..Len(list) |-> list[i]]
  BY <1>2, <1>3 DEF AliasedList
<1> QED BY <1>2, <1>3, <1>4

LEMMA EmptyRewriteIsIdentity ==
  ASSUME NEW list \in ToolLists
  PROVE  AliasedList(EmptyRewrite, list) = list
BY EmptyLeaves, ListsAssumption

(* What reverse takes back is the alias of what it is taken back to. *)
LEMMA ReverseFrom ==
  ASSUME NEW list \in ToolLists, NEW dynamicAliases \in BOOLEAN,
         NEW w \in DOMAIN buildToolNameRewrite(list, dynamicAliases).reverse
  PROVE  \E n \in Renamed(list, dynamicAliases) :
           /\ w = sanitizeToolName(n, list, dynamicAliases)
           /\ buildToolNameRewrite(list, dynamicAliases).reverse[w] = n
<1> DEFINE rw  == buildToolNameRewrite(list, dynamicAliases)
           fwd == ForwardMap(list, dynamicAliases)
<1>1. DOMAIN fwd # {}
  <2> SUFFICES ASSUME DOMAIN fwd = {} PROVE FALSE
    OBVIOUS
  <2>1. rw = EmptyRewrite
    BY DEF buildToolNameRewrite
  <2>2. DOMAIN << >> = {}
    OBVIOUS
  <2> QED BY <2>1, <2>2 DEF EmptyRewrite
<1>2. DOMAIN rw.reverse = Range(fwd)
  BY <1>1 DEF buildToolNameRewrite, ReverseMap
<1>3. PICK n \in DOMAIN fwd : w = fwd[n]
  BY <1>2 DEF Range
<1>4. n \in Renamed(list, dynamicAliases) /\ w = sanitizeToolName(n, list, dynamicAliases)
  BY <1>3 DEF ForwardMap
<1> QED BY <1>4, RewriteMaps

-----------------------------------------------------------------------------
\* The rewrite of a list, and the list it makes of it.
Own(list)     == buildToolNameRewrite(list, TRUE)
Aliases(list) == AliasedList(Own(list), list)

(* A name in a wire list that is not a declared name is the alias of the   *)
(* name in its place.                                                      *)
LEMMA AliasInPlace ==
  ASSUME NEW list \in ToolLists, NEW i \in 1..Len(list),
         Aliases(list)[i] \notin Range(list)
  PROVE  /\ list[i] \in Renamed(list, TRUE)
         /\ Aliases(list)[i] = sanitizeToolName(list[i], list, TRUE)
<1>1. list[i] \in Range(list)
  BY ListsAssumption, LenProperties DEF Range
<1>2. Aliases(list)[i] = Alias(Own(list), list[i])
  BY AliasedListShape DEF Aliases, Own
<1>3. list[i] \in DOMAIN Own(list).forward
  BY <1>1, <1>2 DEF Alias
<1>4. /\ DOMAIN Own(list).forward = Renamed(list, TRUE)
      /\ \A n \in Renamed(list, TRUE) :
           Own(list).forward[n] = sanitizeToolName(n, list, TRUE)
  BY RewriteMaps DEF Own
<1> QED BY <1>2, <1>3, <1>4 DEF Alias

\* No readable alias is also an alias of the prefix table.  The routes have it
\* from what they assume of their fallback.
ApartFromStatic ==
  \A list \in ToolLists : \A i \in 1..Len(list) :
    DynamicAlias(list, i) \notin Range(StaticAlias)

(* The alias of a name in a list above the threshold is no static alias.   *)
LEMMA DynamicOrStatic ==
  ASSUME ApartFromStatic, NEW list \in ToolLists, NEW n \in Renamed(list, TRUE)
  PROVE  \/ /\ Len(list) > Threshold
            /\ sanitizeToolName(n, list, TRUE) \notin Range(StaticAlias)
         \/ /\ ~(Len(list) > Threshold)
            /\ n \in DOMAIN StaticAlias
            /\ sanitizeToolName(n, list, TRUE) = StaticAlias[n]
<1>1. n \in Range(list) /\ sanitizeToolName(n, list, TRUE) # n
  BY DEF Renamed
<1>2. CASE Len(list) > Threshold
  BY <1>1, <1>2, LastIndexHolds DEF ApartFromStatic, sanitizeToolName
<1>3. CASE ~(Len(list) > Threshold)
  BY <1>1, <1>3 DEF sanitizeToolName
<1> QED BY <1>2, <1>3

(* The map of any list with the same aliases brings an undeclared alias    *)
(* back, or leaves it.                                                     *)
LEMMA BackThroughShared ==
  ASSUME ApartFromStatic, AliasesIdentify, NEW list \in ToolLists, NEW i \in 1..Len(list),
         Aliases(list)[i] \notin Range(list),
         NEW other \in ToolLists, Aliases(other) = Aliases(list)
  PROVE  Unalias(Own(other), Aliases(list)[i]) \in {list[i], Aliases(list)[i]}
<1> DEFINE w == Aliases(list)[i]
<1>1. /\ list[i] \in Renamed(list, TRUE)
      /\ w = sanitizeToolName(list[i], list, TRUE)
  BY AliasInPlace
<1>2. Len(other) = Len(list)
  BY AliasedListShape DEF Aliases, Own
<1>3. CASE w \notin DOMAIN Own(other).reverse
  BY <1>3 DEF Unalias
<1>4. CASE w \in DOMAIN Own(other).reverse /\ Len(list) > Threshold
  <2>1. other = list
    BY <1>4 DEF AliasesIdentify, Aliases, Own
  <2>2. list[i] \in Range(list)
    BY <1>1 DEF Renamed
  <2>3. w = Alias(Own(list), list[i])
    BY AliasedListShape DEF Aliases, Own
  <2> QED BY <2>1, <2>2, <2>3, RoundTrip DEF Own
<1>5. CASE w \in DOMAIN Own(other).reverse /\ ~(Len(list) > Threshold)
  <2>1. PICK m \in Renamed(other, TRUE) :
          w = sanitizeToolName(m, other, TRUE) /\ Own(other).reverse[w] = m
    BY <1>5, ReverseFrom DEF Own
  <2>2. /\ m \in DOMAIN StaticAlias /\ w = StaticAlias[m]
        /\ list[i] \in DOMAIN StaticAlias /\ w = StaticAlias[list[i]]
    BY <1>1, <1>2, <1>5, <2>1, DynamicOrStatic
  <2>3. m = list[i]
    BY <2>2, StaticAssumption DEF IsInjective
  <2> QED BY <1>5, <2>1, <2>3 DEF Unalias
<1> QED BY <1>3, <1>4, <1>5

-----------------------------------------------------------------------------
\* The list and the map of s agree, and it holds at most Capacity entries.
Sound(s, K, R) ==
  /\ s.items \in [DOMAIN s.items -> R]
  /\ s.order \in Seq(K)
  /\ IsInjective(s.order)
  /\ Range(s.order) = DOMAIN s.items
  /\ Len(s.order) <= Capacity

\* How many entries the put of an absent key drops.
Dropped(s) == IF Len(s.order) = Capacity THEN 1 ELSE 0

-----------------------------------------------------------------------------
(* The empty store is sound (newBoundedRewriteStore). *)
LEMMA EmptyStoreSound ==
  ASSUME NEW K, NEW R
  PROVE  /\ Sound(EmptyStore, K, R)
         /\ DOMAIN EmptyStore.items = {}
         /\ Len(EmptyStore.order) = 0
<1>1. EmptyStore.order \in Seq(K) /\ Len(EmptyStore.order) = 0
  BY EmptySeq DEF EmptyStore
<1>2. DOMAIN EmptyStore.order = {} /\ DOMAIN EmptyStore.items = {}
  BY <1>1, LenProperties DEF EmptyStore
<1>3. EmptyStore.items \in [DOMAIN EmptyStore.items -> R]
  <2>1. EmptyStore.items = [x \in {} |-> x]
    BY DEF EmptyStore
  <2> QED BY <1>2, <2>1
<1> QED
  BY <1>1, <1>2, <1>3, CapacityAssumption DEF Sound, IsInjective, Range

(* The put of a key that is stored replaces its rewrite and nothing else:  *)
(* the eviction order is the same and no entry is dropped.                 *)
LEMMA PutStored ==
  ASSUME NEW K, NEW R, NEW s, Sound(s, K, R),
         NEW key \in DOMAIN s.items, key # NoKey,
         NEW rw \in R, rw # NoRewrite
  PROVE  /\ Put(s, key, rw).order = s.order
         /\ DOMAIN Put(s, key, rw).items = DOMAIN s.items
         /\ \A k \in DOMAIN s.items :
              Put(s, key, rw).items[k] = IF k = key THEN rw ELSE s.items[k]
         /\ Sound(Put(s, key, rw), K, R)
<1> DEFINE ins == Insert(s, key, rw)
<1>1. ins.order = s.order /\ DOMAIN ins.items = DOMAIN s.items
  BY DEF Insert
<1>2. \A k \in DOMAIN s.items : ins.items[k] = IF k = key THEN rw ELSE s.items[k]
  BY DEF Insert
<1>3. Len(s.order) \in Nat /\ Overflow(ins.order) = 0
  BY <1>1, LenProperties, CapacityAssumption DEF Overflow, Sound
<1>4. Evict(ins).order = s.order
  BY <1>1, <1>3, SubSeqFull DEF Evict, Sound
<1>5. {ins.order[i] : i \in 1..Overflow(ins.order)} = {}
  BY <1>3
<1>6. Evict(ins).items = [k \in DOMAIN ins.items |-> ins.items[k]]
  BY <1>5 DEF Evict, Restrict
<1>7. Put(s, key, rw) = Evict(ins)
  BY DEF Put
<1>8. /\ Put(s, key, rw).order = s.order
      /\ DOMAIN Put(s, key, rw).items = DOMAIN s.items
      /\ \A k \in DOMAIN s.items :
           Put(s, key, rw).items[k] = IF k = key THEN rw ELSE s.items[k]
  BY <1>1, <1>2, <1>4, <1>6, <1>7
<1>9. Put(s, key, rw).items \in [DOMAIN Put(s, key, rw).items -> R]
  BY <1>6, <1>7, <1>8 DEF Sound
<1> QED
  BY <1>8, <1>9 DEF Sound

(* The put of an absent key appends it to the eviction order and, when the *)
(* store is full, drops the head of that order and only it.                *)
LEMMA PutNew ==
  ASSUME NEW K, NEW R, NEW s, Sound(s, K, R),
         NEW key \in K, key \notin DOMAIN s.items, key # NoKey,
         NEW rw \in R, rw # NoRewrite
  PROVE  LET new == Put(s, key, rw) IN
         /\ Len(new.order) = Len(s.order) + 1 - Dropped(s)
         /\ \A i \in 1..Len(new.order) :
              new.order[i] = IF i = Len(new.order) THEN key
                             ELSE s.order[i + Dropped(s)]
         /\ DOMAIN new.items = {key} \cup
              (DOMAIN s.items \ {s.order[i] : i \in 1..Dropped(s)})
         /\ \A k \in DOMAIN new.items :
              new.items[k] = IF k = key THEN rw ELSE s.items[k]
         /\ Sound(new, K, R)
<1> DEFINE ins == Insert(s, key, rw)
           new == Put(s, key, rw)
           n   == Dropped(s)
           L   == Len(s.order)
<1>1. L \in Nat /\ L <= Capacity /\ Capacity \in Nat /\ Capacity > 0
  BY LenProperties, CapacityAssumption DEF Sound
<1>2. /\ ins.order = Append(s.order, key)
      /\ ins.order \in Seq(K)
      /\ Len(ins.order) = L + 1
      /\ \A i \in 1..L : ins.order[i] = s.order[i]
      /\ ins.order[L + 1] = key
  BY AppendProperties DEF Insert, Sound
<1>3. n \in 0..1 /\ n <= L /\ Overflow(ins.order) = n
  BY <1>1, <1>2 DEF Overflow, Dropped
<1>4. /\ new.order = SubSeq(ins.order, n + 1, L + 1)
      /\ new.items = Restrict(ins.items,
                       DOMAIN ins.items \ {ins.order[i] : i \in 1..n})
  BY <1>2, <1>3 DEF Put, Evict
<1>5. /\ new.order \in Seq(K)
      /\ Len(new.order) = L + 1 - n
      /\ \A i \in 1..(L + 1 - n) : new.order[i] = ins.order[i + n]
  <2>1. \A i \in (n + 1)..(L + 1) : ins.order[i] \in K
    BY <1>1, <1>2, <1>3, ElementOfSeq
  <2>2. n + 1 \in Int /\ L + 1 \in Int /\ n + 1 <= L + 1
    BY <1>1, <1>3
  <2> HIDE DEF n, L, ins, new
  <2>3. /\ new.order \in Seq(K)
        /\ Len(new.order) = (L + 1) - (n + 1) + 1
        /\ \A i \in 1..((L + 1) - (n + 1) + 1) : new.order[i] = ins.order[(n + 1) + i - 1]
    BY <1>4, <2>1, <2>2, SubSeqProperties
  <2>4. /\ (L + 1) - (n + 1) + 1 = L + 1 - n
        /\ \A i \in 1..(L + 1 - n) : (n + 1) + i - 1 = i + n
    BY <1>1, <1>3
  <2> QED BY <2>3, <2>4
<1>6. \A i \in 1..Len(new.order) :
        new.order[i] = IF i = Len(new.order) THEN key ELSE s.order[i + n]
  <2> SUFFICES ASSUME NEW i \in 1..(L + 1 - n)
               PROVE  new.order[i] = IF i = L + 1 - n THEN key ELSE s.order[i + n]
    BY <1>5
  <2>1. CASE i = L + 1 - n
    <3>1. i + n = L + 1
      BY <1>1, <1>3, <2>1
    <3> HIDE DEF new, ins, n, L
    <3> QED BY <1>2, <1>5, <2>1, <3>1
  <2>2. CASE i # L + 1 - n
    <3>1. i + n \in 1..L
      BY <1>1, <1>3, <2>2
    <3> QED BY <1>2, <1>5, <2>2, <3>1
  <2> QED BY <2>1, <2>2
<1>7. DOMAIN s.order = 1..L
  BY LenProperties DEF Sound
<1>8. {ins.order[i] : i \in 1..n} = {s.order[i] : i \in 1..n}
  BY <1>1, <1>2, <1>3
<1>9. key \notin {s.order[i] : i \in 1..n}
  BY <1>1, <1>3, <1>7 DEF Sound, Range
<1>10. /\ DOMAIN new.items = {key} \cup (DOMAIN s.items \ {s.order[i] : i \in 1..n})
       /\ \A k \in DOMAIN new.items :
            new.items[k] = IF k = key THEN rw ELSE s.items[k]
  <2>1. /\ DOMAIN ins.items = DOMAIN s.items \cup {key}
        /\ \A k \in DOMAIN ins.items :
             ins.items[k] = IF k = key THEN rw ELSE s.items[k]
    BY DEF Insert
  <2> HIDE DEF ins, new, n
  <2> QED BY <1>4, <1>8, <1>9, <2>1 DEF Restrict
<1>11. new.items \in [DOMAIN new.items -> R]
  <2>1. new.items = [k \in DOMAIN new.items |-> new.items[k]]
    BY <1>4 DEF Restrict
  <2>2. \A k \in DOMAIN new.items : new.items[k] \in R
    BY <1>10 DEF Sound
  <2> HIDE DEF new
  <2> QED BY <2>1, <2>2
<1>12. DOMAIN new.order = 1..(L + 1 - n)
  BY <1>5, LenProperties
<1>13. IsInjective(new.order)
  <2> SUFFICES ASSUME NEW a \in 1..(L + 1 - n), NEW b \in 1..(L + 1 - n),
                      new.order[a] = new.order[b]
               PROVE  a = b
    BY <1>12 DEF IsInjective
  <2>1. \A i \in 1..(L + 1 - n) : i # L + 1 - n => i + n \in 1..L
    BY <1>1, <1>3
  <2>2. \A i \in 1..L : s.order[i] # key
    BY <1>7 DEF Sound, Range
  <2>3. \A i, j \in 1..L : s.order[i] = s.order[j] => i = j
    BY <1>7 DEF Sound, IsInjective
  <2>4. \A i, j \in 1..(L + 1 - n) : i + n = j + n => i = j
    BY <1>1, <1>3
  <2> HIDE DEF new, n, L
  <2> QED BY <1>5, <1>6, <2>1, <2>2, <2>3, <2>4
<1>14. Range(new.order) = DOMAIN new.items
  <2>1. ASSUME NEW i \in 1..(L + 1 - n) PROVE new.order[i] \in DOMAIN new.items
    <3>1. CASE i = L + 1 - n
      BY <1>5, <1>6, <1>10, <3>1
    <3>2. CASE i # L + 1 - n
      <4>1. i + n \in 1..L /\ new.order[i] = s.order[i + n]
        BY <1>1, <1>3, <1>5, <1>6, <3>2
      <4>2. s.order[i + n] \in DOMAIN s.items
        BY <1>7, <4>1 DEF Sound, Range
      <4>3. s.order[i + n] \notin {s.order[j] : j \in 1..n}
        <5>1. \A j \in 1..n : j \in 1..L /\ j # i + n
          BY <1>1, <1>3, <4>1
        <5>2. \A j \in 1..L : s.order[j] = s.order[i + n] => j = i + n
          BY <1>7, <4>1 DEF Sound, IsInjective
        <5> HIDE DEF n, L
        <5> QED BY <5>1, <5>2
      <4> QED BY <1>10, <4>1, <4>2, <4>3
    <3> QED BY <3>1, <3>2
  <2>2. ASSUME NEW k \in DOMAIN new.items
        PROVE  \E i \in 1..(L + 1 - n) : new.order[i] = k
    <3>1. CASE k = key
      <4>1. L + 1 - n \in 1..(L + 1 - n)
        BY <1>1, <1>3
      <4> QED BY <1>5, <1>6, <3>1, <4>1
    <3>2. CASE k # key
      <4>1. k \in DOMAIN s.items \ {s.order[j] : j \in 1..n}
        BY <1>10, <3>2
      <4>2. PICK j \in 1..L : s.order[j] = k
        BY <1>7, <4>1 DEF Sound, Range
      <4>3. j > n
        BY <1>1, <1>3, <4>1, <4>2
      <4>4. /\ j - n \in 1..(L + 1 - n)
            /\ j - n # L + 1 - n
            /\ (j - n) + n = j
        BY <1>1, <1>3, <4>3
      <4>5. new.order[j - n] = k
        BY <1>5, <1>6, <4>2, <4>4
      <4> QED BY <4>4, <4>5
    <3> QED BY <3>1, <3>2
  <2> HIDE DEF new, n, L
  <2> QED BY <1>12, <2>1, <2>2 DEF Range
<1>15. Len(new.order) <= Capacity
  <2>1. n = IF L = Capacity THEN 1 ELSE 0
    BY DEF Dropped
  <2> HIDE DEF new, n, L
  <2> QED BY <1>1, <1>5, <2>1
<1> QED
  BY <1>5, <1>6, <1>10, <1>11, <1>13, <1>14, <1>15 DEF Sound

(* A sound store whose keys are among T holds at most as many entries.     *)
LEMMA OrderBound ==
  ASSUME NEW K, NEW R, NEW s, Sound(s, K, R),
         NEW T, IsFiniteSet(T), DOMAIN s.items \subseteq T
  PROVE  Len(s.order) <= Cardinality(T)
<1>1. Len(s.order) \in Nat /\ DOMAIN s.order = 1..Len(s.order)
  BY LenProperties DEF Sound
<1>2. \A i \in 1..Len(s.order) : s.order[i] \in T
  BY <1>1 DEF Sound, Range
<1>3. \A i, j \in 1..Len(s.order) : s.order[i] = s.order[j] => i = j
  BY <1>1 DEF Sound, IsInjective
<1> DEFINE f == [i \in 1..Len(s.order) |-> s.order[i]]
<1>4. f \in Injection(1..Len(s.order), T)
  <2>1. f \in [1..Len(s.order) -> T]
    BY <1>2
  <2>2. \A i, j \in 1..Len(s.order) : f[i] = f[j] => i = j
    BY <1>3
  <2> HIDE DEF f
  <2> QED BY <2>1, <2>2 DEF Injection, IsInjective
<1>5. Cardinality(1..Len(s.order)) <= Cardinality(T)
  <2> HIDE DEF f
  <2> QED BY <1>4, FS_Injection
<1>6. Cardinality(1..Len(s.order)) = Len(s.order)
  <2> DEFINE n == Len(s.order)
  <2>1. 1 \in Int /\ n \in Int
    BY <1>1
  <2>2. Cardinality(1..n) = IF 1 > n THEN 0 ELSE n - 1 + 1
    <3> HIDE DEF n
    <3> QED BY <2>1, FS_Interval
  <2> QED BY <1>1, <2>2
<1> QED BY <1>5, <1>6

(* A put into a store that has room loses nothing.                         *)
LEMMA PutWithRoom ==
  ASSUME NEW K, NEW R, NEW s, Sound(s, K, R), Len(s.order) < Capacity,
         NEW key \in K, key # NoKey, NEW rw \in R, rw # NoRewrite
  PROVE  /\ DOMAIN Put(s, key, rw).items = {key} \cup DOMAIN s.items
         /\ \A k \in {key} \cup DOMAIN s.items :
              Put(s, key, rw).items[k] = IF k = key THEN rw ELSE s.items[k]
         /\ Sound(Put(s, key, rw), K, R)
<1>1. CASE key \in DOMAIN s.items
  BY <1>1, PutStored
<1>2. CASE key \notin DOMAIN s.items
  <2>1. Dropped(s) = 0
    BY DEF Dropped
  <2>2. {s.order[i] : i \in 1..Dropped(s)} = {}
    BY <2>1
  <2>3. DOMAIN Put(s, key, rw).items = {key} \cup DOMAIN s.items
    <3>1. DOMAIN Put(s, key, rw).items =
            {key} \cup (DOMAIN s.items \ {s.order[i] : i \in 1..Dropped(s)})
      BY <1>2, PutNew
    <3> QED BY <2>2, <3>1
  <2> QED BY <1>2, <2>3, PutNew
<1> QED BY <1>1, <1>2
=============================================================================
