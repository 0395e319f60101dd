----------------------------- MODULE PartsProofs -----------------------------
(***************************************************************************)
(* The parts the routes are built from, each as a machine of its own: the  *)
(* store of rewrites over any puts, the readable aliases of a list of any  *)
(* names, the round trip of the names of one request for every list of     *)
(* tools and every choice of aliases, and the config with the surface it   *)
(* claims in a body and in its headers.                                    *)
(***************************************************************************)
EXTENDS RewriteStoreLife, AliasNames, NameRoundTrip, SurfaceCoherence,
        RewriteLemmas

-----------------------------------------------------------------------------
(***************************************************************************)
(* The store.  Retention and PositionIsAge are proved together: the age of *)
(* a stored key is bounded because its place in the list is its age, and a *)
(* key whose age reaches Capacity is the one at the head of a full list.   *)
(***************************************************************************)

\* The rewrite that Get returns for an absent key is not a member of Rewrites.
StoreIInv ==
  /\ StoreTyped
  /\ Consistent
  /\ \A k \in DOMAIN store.items : store.items[k] = lastPut[k]
  /\ Retention
  /\ PositionIsAge

LEMMA StoreIInvIsSound ==
  ASSUME StoreTyped, Consistent
  PROVE  Sound(store, Keys, Rewrites)
BY DEF StoreTyped, Consistent, Sound

(* The store starts empty and every key at the age of an evicted one.      *)
LEMMA StoreInitIInv == StoreInit => StoreIInv
<1> SUFFICES ASSUME StoreInit PROVE StoreIInv
  OBVIOUS
<1>1. Sound(store, Keys, Rewrites) /\ DOMAIN store.items = {} /\ Len(store.order) = 0
  BY EmptyStoreSound DEF StoreInit
<1>2. StoreTyped /\ Consistent
  BY <1>1, CapacityAssumption DEF StoreInit, StoreTyped, Consistent, Sound
<1>3. Retention
  BY <1>1, CapacityAssumption DEF StoreInit, Retention
<1>4. PositionIsAge
  BY <1>1 DEF PositionIsAge
<1> QED
  BY <1>1, <1>2, <1>3, <1>4 DEF StoreIInv

(* A put of the empty key or of an empty rewrite leaves everything as is.  *)
LEMMA PutNothingIInv ==
  ASSUME StoreIInv, NEW key, NEW rewrite, PutNothing(key, rewrite)
  PROVE  StoreIInv'
<1>1. UNCHANGED storeVars
  BY DEF PutNothing, Put, storeVars
<1> QED
  BY <1>1 DEF StoreIInv, StoreTyped, Consistent, Retention, PositionIsAge, Get, storeVars

(* A put of a stored key replaces its rewrite; ages and places stay.       *)
LEMMA PutAgainIInv ==
  ASSUME StoreIInv, NEW key \in Keys, NEW rewrite \in Rewrites, PutEntry(key, rewrite),
         key \in DOMAIN store.items
  PROVE  StoreIInv'
<1>1. key # NoKey /\ rewrite # NoRewrite
  BY KeysAssumption, RewritesAssumption
<1>2. Sound(store, Keys, Rewrites)
  BY StoreIInvIsSound DEF StoreIInv
<1>3. /\ store'.order = store.order
      /\ DOMAIN store'.items = DOMAIN store.items
      /\ \A k \in DOMAIN store.items :
           store'.items[k] = IF k = key THEN rewrite ELSE store.items[k]
      /\ Sound(store', Keys, Rewrites)
  BY <1>1, <1>2, PutStored DEF PutEntry
<1>4. behind' = behind /\ lastPut' = [lastPut EXCEPT ![key] = rewrite]
  BY DEF PutEntry
<1>5. StoreTyped' /\ Consistent'
  BY <1>3, <1>4 DEF StoreIInv, StoreTyped, Consistent, Sound
<1>6. \A k \in DOMAIN store'.items : store'.items[k] = lastPut'[k]
  BY <1>3, <1>4 DEF StoreIInv, StoreTyped
<1>7. Retention' /\ PositionIsAge'
  BY <1>3, <1>4 DEF StoreIInv, Retention, PositionIsAge
<1> QED
  BY <1>5, <1>6, <1>7 DEF StoreIInv

(* A put of an absent key enters it at age 0, makes every other key one    *)
(* older, and drops the head of a full list, whose age thereby reaches     *)
(* Capacity.                                                               *)
LEMMA PutFreshIInv ==
  ASSUME StoreIInv, NEW key \in Keys, NEW rewrite \in Rewrites, PutEntry(key, rewrite),
         key \notin DOMAIN store.items
  PROVE  StoreIInv'
<1> DEFINE n == Dropped(store)
           L == Len(store.order)
<1>1. key # NoKey /\ rewrite # NoRewrite
  BY KeysAssumption, RewritesAssumption
<1>2. Sound(store, Keys, Rewrites)
  BY StoreIInvIsSound DEF StoreIInv
<1>3. /\ Len(store'.order) = L + 1 - n
      /\ \A i \in 1..Len(store'.order) :
           store'.order[i] = IF i = Len(store'.order) THEN key
                             ELSE store.order[i + n]
      /\ DOMAIN store'.items = {key} \cup
           (DOMAIN store.items \ {store.order[i] : i \in 1..n})
      /\ \A k \in DOMAIN store'.items :
           store'.items[k] = IF k = key THEN rewrite ELSE store.items[k]
      /\ Sound(store', Keys, Rewrites)
  BY <1>1, <1>2, PutNew DEF PutEntry
<1>4. /\ lastPut' = [lastPut EXCEPT ![key] = rewrite]
      /\ behind' = [k \in Keys |-> IF k = key THEN 0 ELSE OneMore(behind[k])]
  BY DEF PutEntry
<1>5. /\ Capacity \in Nat /\ Capacity > 0
      /\ L \in Nat /\ L <= Capacity
      /\ n \in 0..1 /\ (n = 1 <=> L = Capacity)
      /\ DOMAIN store.order = 1..L
  BY <1>2, CapacityAssumption, LenProperties DEF Sound, Dropped
<1>6. behind \in [Keys -> 0..Capacity] /\ DOMAIN store.items \subseteq Keys
  BY DEF StoreIInv, StoreTyped
<1>7. /\ behind' \in [Keys -> 0..Capacity]
      /\ behind'[key] = 0
      /\ \A k \in Keys \ {key} :
           behind'[k] = IF behind[k] < Capacity THEN behind[k] + 1 ELSE behind[k]
  BY <1>4, <1>5, <1>6 DEF OneMore
<1>8. StoreTyped'
  <2>1. DOMAIN store'.items \subseteq Keys
    BY <1>3, <1>6
  <2>2. lastPut' \in [Keys -> Rewrites \cup {NoRewrite}]
    BY <1>4 DEF StoreIInv, StoreTyped
  <2> QED BY <1>3, <1>7, <2>1, <2>2 DEF StoreTyped, Sound
<1>9. Consistent'
  BY <1>3 DEF Consistent, Sound
<1>10. \A k \in DOMAIN store'.items : store'.items[k] = lastPut'[k]
  BY <1>3, <1>4, <1>6 DEF StoreIInv, StoreTyped
<1>11. \A i \in 1..L : behind[store.order[i]] = L - i
  BY DEF StoreIInv, PositionIsAge
<1> HIDE DEF n, L
<1>12. PositionIsAge'
  <2>0. SUFFICES \A i \in 1..(L + 1 - n) :
                   behind'[store'.order[i]] = L + 1 - n - i
    <3>1. Len(store'.order) = L + 1 - n
      BY <1>3
    <3> QED BY <1>5, <2>0, <3>1 DEF PositionIsAge
  <2> SUFFICES ASSUME NEW i \in 1..(L + 1 - n)
               PROVE  behind'[store'.order[i]] = L + 1 - n - i
    OBVIOUS
  <2>1. CASE i = L + 1 - n
    <3>1. store'.order[i] = key /\ L + 1 - n - i = 0
      BY <1>3, <1>5, <2>1
    <3> QED BY <1>7, <3>1
  <2>2. CASE i # L + 1 - n
    <3>1. i + n \in 1..L /\ store'.order[i] = store.order[i + n]
      BY <1>3, <1>5, <2>2
    <3>2. store.order[i + n] \in Keys \ {key}
      BY <1>2, <1>5, <1>6, <3>1 DEF Sound, Range
    <3>3. behind[store.order[i + n]] = L - (i + n)
      BY <1>11, <3>1
    <3>4. L - (i + n) < Capacity /\ L - (i + n) + 1 = L + 1 - n - i
      BY <1>5, <3>1
    <3> QED BY <1>7, <3>1, <3>2, <3>3, <3>4
  <2> QED BY <2>1, <2>2
<1>13. Retention'
  <2> SUFFICES ASSUME NEW k \in Keys
               PROVE  k \in DOMAIN store'.items <=> behind'[k] < Capacity
    BY DEF Retention
  <2>1. CASE k = key
    BY <1>3, <1>5, <1>7, <2>1
  <2>2. CASE k # key /\ k \notin DOMAIN store.items
    <3>1. behind[k] = Capacity
      BY <1>5, <1>6, <2>2 DEF StoreIInv, Retention
    <3>2. ~(behind'[k] < Capacity)
      BY <1>5, <1>7, <2>2, <3>1
    <3> QED BY <1>3, <2>2, <3>2
  <2>3. CASE k # key /\ k \in DOMAIN store.items
    <3>1. PICK j \in 1..L : store.order[j] = k
      BY <1>2, <1>5, <2>3 DEF Sound, Range
    <3>2. behind[k] = L - j /\ behind[k] < Capacity /\ behind'[k] = L - j + 1
      BY <1>5, <1>7, <1>11, <2>3, <3>1
    <3>3. k \in {store.order[i] : i \in 1..n} <=> n = 1 /\ j = 1
      <4>1. \A i \in 1..n : i = 1 /\ n = 1 /\ i \in 1..L
        BY <1>5
      <4>2. \A i \in 1..L : store.order[i] = k => i = j
        BY <1>2, <1>5, <3>1 DEF Sound, IsInjective
      <4>3. n = 1 => 1 \in 1..n
        BY <1>5
      <4> QED BY <3>1, <4>1, <4>2, <4>3
    <3>4. n = 1 /\ j = 1 <=> ~(L - j + 1 < Capacity)
      BY <1>5
    <3>5. k \in DOMAIN store'.items <=> ~(n = 1 /\ j = 1)
      BY <1>3, <2>3, <3>3
    <3>6. behind'[k] = L - j + 1
      BY <3>2
    <3> QED BY <3>4, <3>5, <3>6
  <2> QED BY <2>1, <2>2, <2>3
<1> QED
  BY <1>8, <1>9, <1>10, <1>12, <1>13 DEF StoreIInv

LEMMA StoreNextIInv == StoreIInv /\ [StoreNext]_storeVars => StoreIInv'
<1> SUFFICES ASSUME StoreIInv, [StoreNext]_storeVars PROVE StoreIInv'
  OBVIOUS
<1>1. CASE UNCHANGED storeVars
  BY <1>1 DEF StoreIInv, StoreTyped, Consistent, Retention, PositionIsAge, storeVars
<1>2. ASSUME NEW key, NEW rewrite, PutNothing(key, rewrite) PROVE StoreIInv'
  BY <1>2, PutNothingIInv
<1>3. ASSUME NEW key \in Keys, NEW rewrite \in Rewrites, PutEntry(key, rewrite) PROVE StoreIInv'
  BY <1>3, PutAgainIInv, PutFreshIInv
<1> QED
  BY <1>1, <1>2, <1>3 DEF StoreNext

LEMMA StoreAlways == StoreSpec => []StoreIInv
BY StoreInitIInv, StoreNextIInv, PTL DEF StoreSpec

-----------------------------------------------------------------------------
(* Every state of the store is well typed. *)
THEOREM StoreTypeOK == StoreSpec => []StoreTyped
<1>1. StoreIInv => StoreTyped
  BY DEF StoreIInv
<1> QED BY <1>1, StoreAlways, PTL

(* The eviction list and the map of boundedRewriteStore never disagree,    *)
(* and the store never holds more than Capacity entries.                   *)
THEOREM StoreConsistent == StoreSpec => []Consistent
<1>1. StoreIInv => Consistent
  BY DEF StoreIInv
<1> QED BY <1>1, StoreAlways, PTL

(* get returns the last rewrite put under its key, or none. *)
THEOREM StoreNeverStale == StoreSpec => []NeverStale
<1>1. StoreIInv => NeverStale
  BY DEF StoreIInv, NeverStale, Get
<1> QED BY <1>1, StoreAlways, PTL

(* An entry is there exactly until Capacity further keys have entered. *)
THEOREM StoreRetention == StoreSpec => []Retention
<1>1. StoreIInv => Retention
  BY DEF StoreIInv
<1> QED BY <1>1, StoreAlways, PTL

(* The place of a key in the eviction list is the number of keys that      *)
(* entered after it, through any puts of stored keys.                      *)
THEOREM StorePositionIsAge == StoreSpec => []PositionIsAge
<1>1. StoreIInv => PositionIsAge
  BY DEF StoreIInv
<1> QED BY <1>1, StoreAlways, PTL

(* A put drops only the oldest entry of a full store, for a new key. *)
THEOREM StoreEvictsOldestOnly == StoreSpec => EvictsOldestOnly
<1>1. ASSUME StoreIInv, [StoreNext]_storeVars
      PROVE  [\A k \in DOMAIN store.items \ DOMAIN store'.items :
                /\ Len(store.order) = Capacity
                /\ k = Head(store.order)
                /\ DOMAIN store'.items \ DOMAIN store.items # {}]_storeVars
  <2>1. ASSUME NEW key, NEW rewrite, PutNothing(key, rewrite) PROVE store' = store
    BY <2>1 DEF PutNothing, Put
  <2>2. ASSUME NEW key \in Keys, NEW rewrite \in Rewrites, PutEntry(key, rewrite),
               NEW k \in DOMAIN store.items, k \notin DOMAIN store'.items
        PROVE  /\ Len(store.order) = Capacity
               /\ k = Head(store.order)
               /\ DOMAIN store'.items \ DOMAIN store.items # {}
    <3>1. Sound(store, Keys, Rewrites) /\ key # NoKey /\ rewrite # NoRewrite
      BY <1>1, StoreIInvIsSound, KeysAssumption, RewritesAssumption DEF StoreIInv
    <3>2. key \notin DOMAIN store.items
      BY <2>2, <3>1, PutStored DEF PutEntry
    <3>3. DOMAIN store'.items = {key} \cup
            (DOMAIN store.items \ {store.order[i] : i \in 1..Dropped(store)})
      BY <2>2, <3>1, <3>2, PutNew DEF PutEntry
    <3>4. k \in {store.order[i] : i \in 1..Dropped(store)}
      BY <2>2, <3>3
    <3>5. Len(store.order) = Capacity /\ k = store.order[1]
      BY <3>4 DEF Dropped
    <3>6. Head(store.order) = store.order[1]
      BY <3>1, <3>5, CapacityAssumption DEF Sound
    <3> QED BY <3>2, <3>3, <3>5, <3>6
  <2> QED BY <1>1, <2>1, <2>2 DEF StoreNext, storeVars
<1> QED BY <1>1, StoreAlways, PTL DEF StoreSpec, EvictsOldestOnly

-----------------------------------------------------------------------------
(***************************************************************************)
(* The readable aliases: those of one list differ, for every list of up to *)
(* 600 tools, which is the arithmetic behind DynamicAssumption.            *)
(***************************************************************************)

(***************************************************************************)
(* The index ends with its last two decimal digits, whatever its length.   *)
(***************************************************************************)
LEMMA DigitsShape ==
  ASSUME NEW i \in 0..999
  PROVE  /\ TwoDigits(i) \in Seq(Nat)
         /\ Len(TwoDigits(i)) \in {2, 3}
         /\ TwoDigits(i)[Len(TwoDigits(i)) - 1] = (i \div 10) % 10
         /\ TwoDigits(i)[Len(TwoDigits(i))] = i % 10
  <1>1. CASE i < 100
    <2>1. TwoDigits(i) = <<i \div 10, i % 10>>  BY <1>1 DEF TwoDigits
    <2>2. i \div 10 \in 0..9 /\ i % 10 \in 0..9  BY <1>1
    <2>3. (i \div 10) % 10 = i \div 10  BY <2>2
    <2> QED  BY <2>1, <2>2, <2>3
  <1>2. CASE i >= 100
    <2>1. TwoDigits(i) = <<i \div 100, (i \div 10) % 10, i % 10>>
      BY <1>2 DEF TwoDigits
    <2>2. i \div 100 \in 0..9 /\ (i \div 10) % 10 \in 0..9 /\ i % 10 \in 0..9
      OBVIOUS
    <2> QED  BY <2>1, <2>2
  <1> QED  BY <1>1, <1>2

(***************************************************************************)
(* The end of a concatenation is the end of its second part.               *)
(***************************************************************************)
LEMMA EndOfConcat ==
  ASSUME NEW s \in Seq(Nat), NEW t \in Seq(Nat), Len(t) \in {2, 3}
  PROVE  /\ Len(s \o t) \in Nat /\ Len(s \o t) = Len(s) + Len(t)
         /\ (s \o t)[Len(s \o t) - 1] = t[Len(t) - 1]
         /\ (s \o t)[Len(s \o t)] = t[Len(t)]
  <1>1. /\ Len(s \o t) = Len(s) + Len(t)
        /\ \A k \in 1..(Len(s) + Len(t)) :
             (s \o t)[k] = IF k <= Len(s) THEN s[k] ELSE t[k - Len(s)]
    BY ConcatProperties, Zenon
  <1> DEFINE a == Len(s)
             b == Len(t)
  <1>2. a \in Nat /\ b \in {2, 3}  BY LenProperties
  <1>3. /\ (s \o t)[a + b - 1] = t[(a + b - 1) - a]
        /\ (s \o t)[a + b] = t[(a + b) - a]
    <2>1. /\ a + b - 1 \in 1..(a + b) /\ a + b \in 1..(a + b)
          /\ ~ (a + b - 1 <= a) /\ ~ (a + b <= a)
      <3> HIDE DEF a, b
      <3> QED  BY <1>2
    <2> QED  BY <1>1, <2>1
  <1>4. (a + b - 1) - a = b - 1 /\ (a + b) - a = b /\ a + b \in Nat
    <2> HIDE DEF a, b
    <2> QED  BY <1>2
  <1> QED  BY <1>1, <1>3, <1>4

LEMMA NameHeadType ==
  ASSUME NEW n \in Seq(Nat)
  PROVE  NameHead(n) \in Seq(Nat)
  <1>1. CASE Len(n) < 3
    <2>1. NameHead(n) = SubSeq(n, 1, Len(n))  BY <1>1 DEF NameHead
    <2> QED  BY <2>1
  <1>2. CASE ~ (Len(n) < 3)
    <2>1. NameHead(n) = SubSeq(n, 1, 3)  BY <1>2 DEF NameHead
    <2>2. \A k \in 1..3 : n[k] \in Nat  BY <1>2
    <2> QED  BY <2>1, <2>2, SubSeqProperties
  <1> QED  BY <1>1, <1>2

\* The places at which two aliases may be equal.
SameOrFar(i, j) == i - j \in {-600, 0, 600}

\* What equal aliases say of their indices.
SameResidues(i, j) ==
  i % 24 = j % 24 /\ i % 10 = j % 10 /\ (i \div 10) % 10 = (j \div 10) % 10

(***************************************************************************)
(* Indices with one residue modulo the pool and the same last two digits   *)
(* are a multiple of 600 apart.                                            *)
(***************************************************************************)
LEMMA ResiduesDecide ==
  ASSUME NEW i, NEW j, i \in 0..999, j \in 0..999, SameResidues(i, j)
  PROVE  SameOrFar(i, j)
  <1> DEFINE a == i \div 24 - j \div 24
             p == (i \div 10) \div 10 - (j \div 10) \div 10
  <1>0. /\ i % 24 = j % 24 /\ i % 10 = j % 10
        /\ (i \div 10) % 10 = (j \div 10) % 10
    BY DEF SameResidues
  <1>1. a \in Int /\ i - j = 24 * a
    <2>1. /\ i % 24 = i - 24 * (i \div 24) /\ i \div 24 \in Int
          /\ j % 24 = j - 24 * (j \div 24) /\ j \div 24 \in Int
      OBVIOUS
    <2> QED  BY <1>0, <2>1
  <1>2. p \in -9..9 /\ i - j = 100 * p
    <2>1. /\ i % 10 = i - 10 * (i \div 10) /\ i \div 10 \in 0..99
          /\ j % 10 = j - 10 * (j \div 10) /\ j \div 10 \in 0..99
      OBVIOUS
    <2> DEFINE k == i \div 10
               l == j \div 10
    <2> HIDE DEF k, l
    <2>2. /\ k \in 0..99 /\ l \in 0..99
          /\ i - j = 10 * k - 10 * l /\ k % 10 = l % 10
          /\ p = k \div 10 - l \div 10
      BY <1>0, <2>1 DEF k, l
    <2>3. /\ k % 10 = k - 10 * (k \div 10) /\ k \div 10 \in 0..9
          /\ l % 10 = l - 10 * (l \div 10) /\ l \div 10 \in 0..9
      BY <2>2
    <2> QED  BY <2>2, <2>3
  <1> HIDE DEF a, p
  <1>3. 6 * a = 25 * p  BY <1>1, <1>2
  <1>4. p \in {-6, 0, 6}
    <2> DEFINE q == a - 4 * p
    <2>1. q \in Int /\ p = 6 * q  BY <1>1, <1>2, <1>3
    <2> HIDE DEF q
    <2>2. q \in {-1, 0, 1}  BY <1>2, <2>1
    <2> QED  BY <2>1, <2>2
  <1> QED  BY <1>2, <1>4 DEF SameOrFar

LEMMA NotFar ==
  ASSUME NEW i \in 0..599, NEW j \in 0..599, SameOrFar(i, j)
  PROVE  i = j
  BY DEF SameOrFar

(***************************************************************************)
(* Two tools with one alias stand a multiple of 600 places apart in the    *)
(* list (buildDynamicToolMap), whatever their names.                       *)
(***************************************************************************)
LEMMA EqualAliases ==
  ASSUME NEW i, NEW j, NEW m, NEW n,
         i \in 0..999, j \in 0..999, m \in Seq(Nat), n \in Seq(Nat),
         ReadableAlias(m, i) = ReadableAlias(n, j)
  PROVE  SameOrFar(i, j)
  <1> DEFINE s == NameHead(m)
             t == NameHead(n)
             d == TwoDigits(i)
             e == TwoDigits(j)
  <1>1. s \in Seq(Nat) /\ t \in Seq(Nat)  BY NameHeadType
  <1>2. /\ d \in Seq(Nat) /\ Len(d) \in {2, 3}
        /\ d[Len(d) - 1] = (i \div 10) % 10 /\ d[Len(d)] = i % 10
    BY DigitsShape, Zenon
  <1>3. /\ e \in Seq(Nat) /\ Len(e) \in {2, 3}
        /\ e[Len(e) - 1] = (j \div 10) % 10 /\ e[Len(e)] = j % 10
    BY DigitsShape, Zenon
  <1>4. s \o d = t \o e /\ i % 24 = j % 24
    BY PoolAssumption DEF ReadableAlias
  <1> HIDE DEF s, t, d, e
  <1>5. /\ (s \o d)[Len(s \o d) - 1] = (i \div 10) % 10
        /\ (s \o d)[Len(s \o d)] = i % 10
    BY <1>1, <1>2, EndOfConcat
  <1>6. /\ (t \o e)[Len(t \o e) - 1] = (j \div 10) % 10
        /\ (t \o e)[Len(t \o e)] = j % 10
    BY <1>1, <1>3, EndOfConcat
  <1>7. i % 10 = j % 10 /\ (i \div 10) % 10 = (j \div 10) % 10
    BY <1>4, <1>5, <1>6
  <1>8. SameResidues(i, j)  BY <1>4, <1>7 DEF SameResidues
  <1> QED  BY <1>8, ResiduesDecide, Zenon

(***************************************************************************)
(* Two tools at different places of a list of up to 600 tools have         *)
(* different aliases, whatever their names: DynamicAssumption of ToolNames *)
(* holds of buildDynamicToolMap for these lists.                           *)
(***************************************************************************)
THEOREM ReadableAliasesDiffer ==
  ASSUME NEW k \in 0..599, NEW l \in 0..599,
         NEW p \in Seq(Nat), NEW q \in Seq(Nat),
         ReadableAlias(p, k) = ReadableAlias(q, l)
  PROVE  k = l
  <1>1. k \in 0..999 /\ l \in 0..999  OBVIOUS
  <1>2. /\ p \in Seq(Nat) /\ q \in Seq(Nat)
        /\ ReadableAlias(p, k) = ReadableAlias(q, l)
    OBVIOUS
  <1>3. SameOrFar(k, l)  BY <1>1, <1>2, EqualAliases, Zenon
  <1>4. k \in 0..599 /\ l \in 0..599  OBVIOUS
  <1> QED  BY <1>3, <1>4, NotFar, Zenon

(***************************************************************************)
(* Along the loop no alias meets an earlier one, except one that stands a  *)
(* multiple of 600 places before it: AliasesApart for every set of names   *)
(* and every list of up to 1000 tools.                                     *)
(***************************************************************************)
THEOREM AliasesAlwaysApart == Naming => []AliasesApart
  <1> DEFINE Walk == index \in 0..999 /\ name \in ByteNames
  <1>1. FirstTool => Walk  BY DEF FirstTool
  <1>2. Walk /\ [NextTool]_<<index, name>> => Walk'
    <2>1. ASSUME Walk, NextTool PROVE Walk'
      <3>1. index' = index + 1 /\ index + 1 < MaxTools /\ name' \in ByteNames
        BY <2>1 DEF NextTool
      <3>2. index \in 0..999 /\ MaxTools \in 1..1000
        BY <2>1, BoundAssumption
      <3>3. index' \in 0..999  BY <3>1, <3>2
      <3> QED  BY <3>1, <3>3
    <2>2. ASSUME Walk, UNCHANGED <<index, name>> PROVE Walk'
      BY <2>2 
    <2> QED  BY <2>1, <2>2 DEF Next
  <1>3. Walk => AliasesApart
    <2> SUFFICES ASSUME Walk,
                        NEW j \in 0..(index - 1), NEW n \in ByteNames,
                        ReadableAlias(n, j) = ReadableAlias(name, index)
                 PROVE  (index - j) % 600 = 0
      BY DEF AliasesApart
    <2>1. j \in 0..999 /\ index \in 0..999 /\ index - j > 0  OBVIOUS
    <2>2. /\ n \in Seq(Nat) /\ name \in Seq(Nat)
          /\ ReadableAlias(n, j) = ReadableAlias(name, index)
      BY NamesAssumption
    <2>3. SameOrFar(j, index)  BY <2>1, <2>2, EqualAliases, Zenon
    <2>4. index - j = 600  BY <2>1, <2>3 DEF SameOrFar
    <2>5. 600 % 600 = 0  OBVIOUS
    <2> QED  BY <2>4, <2>5
  <1> QED  BY <1>1, <1>2, <1>3, PTL DEF Naming

-----------------------------------------------------------------------------
(***************************************************************************)
(* The round trip.  A body goes upstream as the rewrite of its own list    *)
(* makes it, and an identifier of the answer is restored one pair at a     *)
(* time: as no pair's result is the alias of another, at every moment it   *)
(* is what a lookup gives, or it is unchanged and its own pair is still to *)
(* come.                                                                   *)
(***************************************************************************)

\* The positions of the tools buildToolNameRewrite scans.
Scanned(tools) ==
  {i \in DOMAIN tools : tools[i].type \in ClientTypes /\ tools[i].name # NoName}

\* The rewrite of a body, with or without the dynamic aliases.
RewriteOf(body, dynamicAliases) ==
  buildToolNameRewrite(MimicableNames(body.tools), dynamicAliases)

(* The list the rewrite is built from holds the name of every scanned tool *)
(* and no other name.                                                      *)
LEMMA ListOfTools ==
  ASSUME NEW body \in Requests
  PROVE  /\ body \in BodyType
         /\ Len(body.tools) \in Nat /\ DOMAIN body.tools = 1..Len(body.tools)
         /\ \A i \in DOMAIN body.tools : body.tools[i] \in ToolType
         /\ MimicableNames(body.tools) \in ToolLists
         /\ \A i \in Scanned(body.tools) :
              body.tools[i].name \in Range(MimicableNames(body.tools))
         /\ \A n \in Range(MimicableNames(body.tools)) :
              \E i \in Scanned(body.tools) : body.tools[i].name = n
<1> DEFINE tools  == body.tools
           places == Scanned(tools)
           kept   == Picked(tools, places)
           names  == MimicableNames(tools)
<1>1. body \in BodyType /\ names \in ToolLists
  BY RequestsAssumption
<1>2. tools \in Seq(ToolType)
  BY <1>1 DEF BodyType
<1>3. /\ Len(tools) \in Nat /\ DOMAIN tools = 1..Len(tools)
      /\ \A i \in DOMAIN tools : tools[i] \in ToolType
  BY <1>2, LenProperties, ElementOfSeq
<1>4. places \in SUBSET (1..Len(tools))
  BY <1>3 DEF Scanned
<1>5. names = [k \in DOMAIN kept |-> kept[k].name]
  <2>1. places = {i \in DOMAIN tools : shouldMimicToolName(tools[i].type) /\ tools[i].name # NoName}
    BY DEF Scanned, shouldMimicToolName, ClientTypes
  <2> QED BY <2>1 DEF MimicableNames
<1>6. /\ DOMAIN kept = 1..Cardinality(places)
      /\ \A k \in 1..Cardinality(places) :
           Place(places, k) \in places /\ kept[k] = tools[Place(places, k)]
      /\ \A i \in places : \E k \in 1..Cardinality(places) : Place(places, k) = i
  <2> HIDE DEF tools, places
  <2> QED BY <1>3, <1>4, PickedShape
<1> HIDE DEF names, kept, places
<1>7. Range(names) = {names[k] : k \in 1..Cardinality(places)}
  BY <1>5, <1>6 DEF Range
<1>8. \A k \in 1..Cardinality(places) : names[k] = tools[Place(places, k)].name
  BY <1>5, <1>6
<1>9. \A i \in places : tools[i].name \in Range(names)
  BY <1>6, <1>7, <1>8
<1>10. \A n \in Range(names) : \E i \in places : tools[i].name = n
  BY <1>6, <1>7, <1>8
<1> QED BY <1>1, <1>3, <1>9, <1>10 DEF names, places

(* What the rewrite of a list consists of.                                 *)
LEMMA RewriteTyped ==
  ASSUME NEW list \in ToolLists, NEW dynamicAliases \in BOOLEAN
  PROVE  LET R == buildToolNameRewrite(list, dynamicAliases) IN
         /\ DOMAIN R.forward \subseteq Range(list) /\ Range(list) \subseteq Names
         /\ Range(R.forward) \subseteq Names
         /\ DOMAIN R.reverse \subseteq Names /\ Range(R.reverse) \subseteq Names
<1> DEFINE R == buildToolNameRewrite(list, dynamicAliases)
<1>1. \A n \in Range(list) : n \in Names /\ sanitizeToolName(n, list, dynamicAliases) \in Names
  BY AliasIsName
<1>2. \A n \in Renamed(list, dynamicAliases) : n \in Range(list)
  BY DEF Renamed
<1>3. /\ DOMAIN R.forward = Renamed(list, dynamicAliases)
      /\ \A n \in Renamed(list, dynamicAliases) :
           R.forward[n] = sanitizeToolName(n, list, dynamicAliases)
      /\ DOMAIN R.reverse \subseteq Names
      /\ \A w \in DOMAIN R.reverse : R.reverse[w] \in Range(list)
  BY RewriteMaps
<1> HIDE DEF R
<1>4. Range(R.forward) \subseteq Names /\ Range(R.reverse) \subseteq Names
  BY <1>1, <1>2, <1>3 DEF Range
<1> QED BY <1>1, <1>2, <1>3, <1>4 DEF R

(* The body that goes upstream, field by field.                            *)
LEMMA WireOf ==
  ASSUME NEW body \in Requests, NEW dynamicAliases \in BOOLEAN
  PROVE  LET R    == RewriteOf(body, dynamicAliases)
             sent == applyToolNameRewriteToBody(body, R)
         IN  /\ sent \in BodyType
             /\ DOMAIN sent.tools = DOMAIN body.tools
             /\ \A i \in Scanned(body.tools) :
                  sent.tools[i].name = Alias(R, body.tools[i].name)
             /\ \A i \in DOMAIN body.tools \ Scanned(body.tools) :
                  sent.tools[i] = body.tools[i]
             /\ sent.choice = Alias(R, body.choice)
             /\ DOMAIN sent.uses = DOMAIN body.uses
             /\ \A p \in DOMAIN body.uses : sent.uses[p] = Alias(R, body.uses[p])
<1> DEFINE list == MimicableNames(body.tools)
           R    == RewriteOf(body, dynamicAliases)
           sent == applyToolNameRewriteToBody(body, R)
<1>1. /\ body \in BodyType /\ list \in ToolLists
      /\ Len(body.tools) \in Nat /\ DOMAIN body.tools = 1..Len(body.tools)
      /\ \A i \in DOMAIN body.tools : body.tools[i] \in ToolType
  BY ListOfTools
<1>2. /\ DOMAIN R.forward \subseteq Names /\ Range(R.forward) \subseteq Names
  <2> HIDE DEF list
  <2>1. LET Q == buildToolNameRewrite(list, dynamicAliases) IN
        /\ DOMAIN Q.forward \subseteq Range(list) /\ Range(list) \subseteq Names
        /\ Range(Q.forward) \subseteq Names
    BY <1>1, RewriteTyped
  <2> QED BY <2>1 DEF RewriteOf, list
<1>3. \A n \in Names : Alias(R, n) \in Names
  <2> HIDE DEF R
  <2> QED BY <1>2 DEF Alias, Range
<1>4. Alias(R, NoName) = NoName
  <2> HIDE DEF R
  <2> QED BY <1>2, NoNameAssumption DEF Alias
<1> HIDE DEF R, list
<1>5. /\ sent.tools = [i \in DOMAIN body.tools |-> AliasedTool(R, body.tools[i])]
      /\ sent.choice = Alias(R, body.choice)
      /\ sent.uses = [i \in DOMAIN body.uses |-> Alias(R, body.uses[i])]
      /\ sent = [tools |-> sent.tools, choice |-> sent.choice, uses |-> sent.uses]
  BY DEF applyToolNameRewriteToBody
<1> HIDE DEF sent
<1>6. \A i \in DOMAIN body.tools :
        sent.tools[i] = IF i \in Scanned(body.tools)
                        THEN [body.tools[i] EXCEPT !.name = Alias(R, body.tools[i].name)]
                        ELSE body.tools[i]
  BY <1>5 DEF AliasedTool, Scanned, shouldMimicToolName, ClientTypes
<1>7. \A i \in Scanned(body.tools) :
        /\ i \in DOMAIN body.tools /\ body.tools[i].name \in Names
        /\ sent.tools[i].name = Alias(R, body.tools[i].name)
        /\ sent.tools[i] \in ToolType
  <2> SUFFICES ASSUME NEW i \in Scanned(body.tools)
               PROVE  /\ i \in DOMAIN body.tools /\ body.tools[i].name \in Names
                      /\ sent.tools[i].name = Alias(R, body.tools[i].name)
                      /\ sent.tools[i] \in ToolType
    OBVIOUS
  <2>1. i \in DOMAIN body.tools /\ body.tools[i].name # NoName
    BY DEF Scanned
  <2>2. body.tools[i] \in [type : Types, name : Names \cup {NoName}]
    BY <1>1, <2>1 DEF ToolType
  <2>3. sent.tools[i] = [body.tools[i] EXCEPT !.name = Alias(R, body.tools[i].name)]
    BY <1>6, <2>1
  <2>4. body.tools[i].name \in Names
    BY <2>1, <2>2
  <2>5. Alias(R, body.tools[i].name) \in Names
    BY <1>3, <2>4
  <2>6. /\ sent.tools[i].name = Alias(R, body.tools[i].name)
        /\ sent.tools[i] \in [type : Types, name : Names \cup {NoName}]
    BY <2>2, <2>3, <2>5
  <2> QED BY <2>1, <2>4, <2>6 DEF ToolType
<1>8. sent.tools \in Seq(ToolType) /\ DOMAIN sent.tools = DOMAIN body.tools
  <2>1. \A i \in 1..Len(body.tools) : sent.tools[i] \in ToolType
    BY <1>1, <1>6, <1>7
  <2>2. sent.tools \in [1..Len(body.tools) -> ToolType]
    BY <1>1, <1>5, <2>1
  <2>3. sent.tools \in Seq(ToolType)
    BY <1>1, <2>2, IsASeq
  <2> QED BY <1>5, <2>3
<1>9. sent.uses \in Seq(Names) /\ DOMAIN sent.uses = DOMAIN body.uses
  <2>1. body.uses \in Seq(Names)
    BY <1>1 DEF BodyType
  <2>2. Len(body.uses) \in Nat /\ body.uses \in [1..Len(body.uses) -> Names]
    BY <2>1, LenProperties
  <2>3. sent.uses \in [1..Len(body.uses) -> Names]
    BY <1>3, <1>5, <2>2
  <2>4. sent.uses \in Seq(Names)
    BY <2>2, <2>3, IsASeq
  <2> QED BY <1>5, <2>4
<1>10. sent.choice \in Names \cup {NoName}
  <2>1. body.choice \in Names \cup {NoName}
    BY <1>1 DEF BodyType
  <2> QED BY <1>3, <1>4, <1>5, <2>1
<1>11. sent \in BodyType
  BY <1>5, <1>8, <1>9, <1>10 DEF BodyType
<1>12. \A i \in DOMAIN body.tools \ Scanned(body.tools) : sent.tools[i] = body.tools[i]
  BY <1>6
<1> QED BY <1>5, <1>7, <1>8, <1>9, <1>11, <1>12 DEF sent, R

(* No server tool has the name of an alias, so none is mistaken for one.   *)
LEMMA ServerApart ==
  ASSUME NEW body \in Requests, NEW dynamicAliases \in BOOLEAN,
         NEW i \in DOMAIN body.tools \ Scanned(body.tools)
  PROVE  body.tools[i].name \notin DOMAIN RewriteOf(body, dynamicAliases).reverse
<1> DEFINE list == MimicableNames(body.tools)
           own == body.tools[i].name
<1>1. list \in ToolLists
  BY ListOfTools
<1>2. CASE own = NoName
  <2>1. DOMAIN buildToolNameRewrite(list, dynamicAliases).reverse \subseteq Names
    BY <1>1, RewriteMaps
  <2> QED BY <1>2, <2>1, NoNameAssumption DEF RewriteOf
<1>3. CASE own # NoName
  <2> SUFFICES ASSUME own \in DOMAIN buildToolNameRewrite(list, dynamicAliases).reverse
               PROVE  FALSE
    BY DEF RewriteOf
  <2>1. body.tools[i].type \notin ClientTypes
    BY <1>3 DEF Scanned
  <2>2. /\ own \notin Range(StaticAlias)
        /\ \A k \in 1..Len(list) : own # DynamicAlias(list, k)
    BY <2>1, ServerAssumption
  <2> HIDE DEF list, own
  <2>3. PICK n \in Renamed(list, dynamicAliases) :
          own = sanitizeToolName(n, list, dynamicAliases)
    BY <1>1, ReverseFrom
  <2>4. n \in Range(list) /\ own # n
    BY <2>3 DEF Renamed
  <2>5. LastIndex(list, n) \in 1..Len(list)
    BY <1>1, <2>4, LastIndexHolds
  <2>6. n \in DOMAIN StaticAlias => StaticAlias[n] \in Range(StaticAlias)
    BY DEF Range
  <2> QED BY <2>2, <2>3, <2>4, <2>5, <2>6 DEF sanitizeToolName
<1> QED BY <1>2, <1>3

(* What a name of the wire body is taken back to: the name at the same     *)
(* position of the client's body.                                          *)
LEMMA BackAtPosition ==
  ASSUME NEW body \in Requests, NEW dynamicAliases \in BOOLEAN, NEW i \in DOMAIN body.tools
  PROVE  LET R    == RewriteOf(body, dynamicAliases)
             sent == applyToolNameRewriteToBody(body, R)
         IN  Unalias(R, sent.tools[i].name) = body.tools[i].name
<1> DEFINE R    == RewriteOf(body, dynamicAliases)
           sent == applyToolNameRewriteToBody(body, R)
           list == MimicableNames(body.tools)
<1>1. /\ \A k \in Scanned(body.tools) : sent.tools[k].name = Alias(R, body.tools[k].name)
      /\ \A k \in DOMAIN body.tools \ Scanned(body.tools) : sent.tools[k] = body.tools[k]
  BY WireOf
<1>2. ASSUME i \in Scanned(body.tools)
      PROVE  Unalias(R, sent.tools[i].name) = body.tools[i].name
  <2>1. list \in ToolLists /\ body.tools[i].name \in Range(list)
    BY <1>2, ListOfTools
  <2>2. Unalias(R, Alias(R, body.tools[i].name)) = body.tools[i].name
    <3> HIDE DEF list
    <3>1. LET Q == buildToolNameRewrite(list, dynamicAliases)
          IN  Unalias(Q, Alias(Q, body.tools[i].name)) = body.tools[i].name
      BY <2>1, RoundTrip
    <3> QED BY <3>1 DEF RewriteOf, list
  <2> HIDE DEF R, sent
  <2> QED BY <1>1, <1>2, <2>2
<1>3. ASSUME i \notin Scanned(body.tools)
      PROVE  Unalias(R, sent.tools[i].name) = body.tools[i].name
  <2>1. body.tools[i].name \notin DOMAIN R.reverse
    BY <1>3, ServerApart
  <2> HIDE DEF R, sent
  <2> QED BY <1>1, <1>3, <2>1 DEF Unalias
<1> QED BY <1>2, <1>3

(* The body that goes upstream fits together, with or without the dynamic  *)
(* aliases.                                                                *)
LEMMA WireFits ==
  ASSUME request \in Requests, NEW dynamicAliases \in BOOLEAN,
         wire = applyToolNameRewriteToBody(request, RewriteOf(request, dynamicAliases))
  PROVE  WireBodyFits
<1> DEFINE R == RewriteOf(request, dynamicAliases)
           list == MimicableNames(request.tools)
<1>1. /\ DOMAIN wire.tools = DOMAIN request.tools
      /\ \A i \in Scanned(request.tools) :
           wire.tools[i].name = Alias(R, request.tools[i].name)
      /\ \A i \in DOMAIN request.tools \ Scanned(request.tools) :
           wire.tools[i] = request.tools[i]
      /\ wire.choice = Alias(R, request.choice)
      /\ \A p \in DOMAIN request.uses : wire.uses[p] = Alias(R, request.uses[p])
  BY WireOf
<1>2. \A i \in DOMAIN request.tools : Unalias(R, wire.tools[i].name) = request.tools[i].name
  BY BackAtPosition
<1>3. WireNamesDistinct
  <2> HIDE DEF R
  <2> QED BY <1>2 DEF WireNamesDistinct
<1>4. ReferencesDeclared
  <2>1. DOMAIN R.forward \subseteq Names
    <3>1. list \in ToolLists
      BY ListOfTools
    <3> HIDE DEF list
    <3>2. LET Q == buildToolNameRewrite(list, dynamicAliases)
          IN  DOMAIN Q.forward \subseteq Range(list) /\ Range(list) \subseteq Names
      BY <3>1, RewriteTyped
    <3> QED BY <3>2 DEF RewriteOf, list
  <2> HIDE DEF R
  <2>2. \A i \in ClientTools : wire.tools[i].name = Alias(R, request.tools[i].name)
    <3> SUFFICES ASSUME NEW i \in ClientTools
                 PROVE  wire.tools[i].name = Alias(R, request.tools[i].name)
      OBVIOUS
    <3>1. i \in DOMAIN request.tools /\ request.tools[i].type \in ClientTypes
      BY DEF ClientTools
    <3>2. CASE i \in Scanned(request.tools)
      BY <1>1, <3>2
    <3>3. CASE i \notin Scanned(request.tools)
      <4>1. request.tools[i].name = NoName
        BY <3>1, <3>3 DEF Scanned
      <4>2. wire.tools[i].name = NoName
        BY <1>1, <3>1, <3>3, <4>1
      <4> QED BY <2>1, <4>1, <4>2, NoNameAssumption DEF Alias
    <3> QED BY <3>2, <3>3
  <2> QED BY <1>1, <2>2 DEF ReferencesDeclared
<1>5. ServerToolsKept
  BY <1>1 DEF ServerToolsKept, ClientTools, Scanned
<1> QED BY <1>3, <1>4, <1>5 DEF WireBodyFits

(* A covered client tool keeps its name only if the alias meant for it is  *)
(* declared.                                                               *)
LEMMA CoveredRenamed ==
  ASSUME request \in Requests, NEW dynamicAliases \in BOOLEAN,
         wire = applyToolNameRewriteToBody(request, RewriteOf(request, dynamicAliases)),
         NEW i \in ClientTools, request.tools[i].name \in DOMAIN StaticAlias,
         wire.tools[i].name = request.tools[i].name
  PROVE  sanitizeToolName(request.tools[i].name, MimicableNames(request.tools), dynamicAliases)
           \in DeclaredNames
<1> DEFINE list == MimicableNames(request.tools)
           own == request.tools[i].name
           fake == sanitizeToolName(own, list, dynamicAliases)
           Q    == buildToolNameRewrite(list, dynamicAliases)
<1>1. own # NoName /\ i \in Scanned(request.tools)
  BY StaticAssumption, NoNameAssumption DEF Scanned, ClientTools
<1>2. list \in ToolLists /\ own \in Range(list)
  BY <1>1, ListOfTools
<1>3. \A n \in Range(list) : n \in DeclaredNames
  <2> SUFFICES ASSUME NEW n \in Range(list) PROVE n \in DeclaredNames
    OBVIOUS
  <2>1. PICK k \in Scanned(request.tools) : request.tools[k].name = n
    BY ListOfTools
  <2> QED BY <2>1 DEF Scanned, DeclaredNames, ClientTools
<1>4. Alias(Q, own) = own
  <2>1. wire.tools[i].name = Alias(RewriteOf(request, dynamicAliases), request.tools[i].name)
    BY <1>1, WireOf
  <2> QED BY <2>1 DEF RewriteOf
<1> HIDE DEF list, own, Q
<1>5. own \notin Renamed(list, dynamicAliases)
  <2> SUFFICES ASSUME own \in Renamed(list, dynamicAliases) PROVE FALSE
    OBVIOUS
  <2>1. own # fake
    BY DEF Renamed
  <2>2. DOMAIN Q.forward = Renamed(list, dynamicAliases) /\ Q.forward[own] = fake
    BY <1>2, RewriteMaps DEF Q
  <2> HIDE DEF fake
  <2> QED BY <1>4, <2>1, <2>2 DEF Alias
<1>6. fake = own \/ fake \in Range(list)
  BY <1>2, <1>5 DEF Renamed
<1>7. fake \in Range(list)
  BY <1>2, <1>6
<1> QED BY <1>3, <1>7 DEF list, own

-----------------------------------------------------------------------------
\* The body and the rewrite at each point of the way: nothing is done before
\* the hook, and without messages the static rules alone are applied.
Sent ==
  /\ pc = "request" => wire = request
  /\ pc = "counted" => wire = applyToolNameRewriteToBody(request, RewriteOf(request, FALSE))
  /\ pc \in {"wire", "restore", "done"} =>
       /\ rw = RewriteOf(request, TRUE)
       /\ wire = applyToolNameRewriteToBody(request, rw)
  /\ pc \in {"request", "counted"} => rw = EmptyRewrite

(* The loop, stopped anywhere: a word whose own pair is still to come is   *)
(* as the upstream wrote it, and every other word is what one lookup in    *)
(* the map makes of it, whichever pairs were applied.                      *)
Replaced ==
  /\ pending \subseteq DOMAIN rw.reverse
  /\ pc # "restore" => pending = {}
  /\ pc \in {"restore", "done"} =>
       text = IF said \in pending THEN said ELSE Unalias(rw, said)

WordsTyped == said \in Names \cup {NoName} /\ text \in Names \cup {NoName}

IInv ==
  /\ pc \in {"request", "wire", "restore", "done", "counted"}
  /\ request \in Requests
  /\ Sent
  /\ Replaced
  /\ WordsTyped

LEMMA EmptyHasNoNames ==
  DOMAIN EmptyRewrite.forward = {} /\ DOMAIN EmptyRewrite.reverse = {}
<1>1. DOMAIN << >> = {}
  OBVIOUS
<1> QED BY <1>1 DEF EmptyRewrite

(* The maps of the rewrite at hand are maps between names, and no pair     *)
(* makes the alias of another.                                             *)
LEMMA RewriteAtHand ==
  ASSUME IInv
  PROVE  /\ DOMAIN rw.forward \subseteq Names /\ Range(rw.forward) \subseteq Names
         /\ DOMAIN rw.reverse \subseteq Names /\ Range(rw.reverse) \subseteq Names
         /\ \A fake \in DOMAIN rw.reverse : rw.reverse[fake] \notin DOMAIN rw.reverse
<1>1. CASE rw = EmptyRewrite
  <2>1. Range(rw.forward) = {} /\ Range(rw.reverse) = {}
    BY <1>1, EmptyHasNoNames DEF Range
  <2> QED BY <1>1, <2>1, EmptyHasNoNames
<1>2. CASE rw # EmptyRewrite
  <2> DEFINE list == MimicableNames(request.tools)
  <2>1. list \in ToolLists /\ rw = buildToolNameRewrite(list, TRUE)
    BY <1>2, ListOfTools DEF IInv, Sent, RewriteOf
  <2> HIDE DEF list
  <2>2. LET Q == buildToolNameRewrite(list, TRUE) IN
        /\ DOMAIN Q.forward \subseteq Range(list) /\ Range(list) \subseteq Names
        /\ Range(Q.forward) \subseteq Names
        /\ DOMAIN Q.reverse \subseteq Names /\ Range(Q.reverse) \subseteq Names
    BY <2>1, RewriteTyped
  <2>3. LET Q == buildToolNameRewrite(list, TRUE) IN
        /\ DOMAIN Q.reverse \cap Range(list) = {}
        /\ \A w \in DOMAIN Q.reverse : Q.reverse[w] \in Range(list)
    BY <2>1, RewriteMaps
  <2>4. /\ DOMAIN rw.forward \subseteq Names /\ Range(rw.forward) \subseteq Names
        /\ DOMAIN rw.reverse \subseteq Names /\ Range(rw.reverse) \subseteq Names
    BY <2>1, <2>2
  <2>5. \A fake \in DOMAIN rw.reverse : rw.reverse[fake] \notin DOMAIN rw.reverse
    BY <2>1, <2>3
  <2> QED BY <2>4, <2>5
<1> QED BY <1>1, <1>2

LEMMA InitIInv == Init => IInv
<1> SUFFICES ASSUME Init PROVE IInv
  OBVIOUS
<1>1. Sent
  BY DEF Init, Sent
<1>2. Replaced
  BY DEF Init, Replaced
<1> QED BY <1>1, <1>2 DEF Init, IInv, WordsTyped

LEMMA ForwardedIInv == ASSUME IInv, Forwarded PROVE IInv'
<1>1. /\ rw' = RewriteOf(request, TRUE)
      /\ wire' = applyToolNameRewriteToBody(request, rw')
      /\ pc = "request" /\ pc' = "wire"
      /\ UNCHANGED <<request, said, text, pending>>
  BY DEF Forwarded, RewriteOf
<1>2. Sent'
  BY <1>1 DEF Sent
<1>3. Replaced'
  BY <1>1 DEF Replaced, IInv
<1> QED BY <1>1, <1>2, <1>3 DEF IInv, WordsTyped

LEMMA CountedIInv == ASSUME IInv, Counted PROVE IInv'
<1>1. /\ wire' = applyToolNameRewriteToBody(request, RewriteOf(request, FALSE))
      /\ pc = "request" /\ pc' = "counted"
      /\ UNCHANGED <<request, rw, said, text, pending>>
  BY DEF Counted, RewriteOf
<1>2. Sent'
  BY <1>1 DEF Sent, IInv
<1>3. Replaced'
  BY <1>1 DEF Replaced, IInv
<1> QED BY <1>1, <1>2, <1>3 DEF IInv, WordsTyped

LEMMA AnsweredIInv == ASSUME IInv, Answered PROVE IInv'
<1>1. /\ pc = "wire" /\ pc' = "restore"
      /\ pending' = DOMAIN rw.reverse
      /\ UNCHANGED <<request, wire, rw>>
  BY DEF Answered
<1>2. PICK w \in {wire.tools[i].name : i \in DOMAIN wire.tools} \cup Words :
        said' = w /\ text' = w
  BY DEF Answered
<1>3. w \in Names \cup {NoName}
  <2>1. CASE w \in Words
    BY <2>1, NoNameAssumption
  <2>2. CASE w \notin Words
    <3>1. wire \in BodyType
      BY <1>1, WireOf DEF IInv, Sent
    <3>2. PICK i \in DOMAIN wire.tools : w = wire.tools[i].name
      BY <2>2
    <3>3. wire.tools \in Seq(ToolType)
      BY <3>1 DEF BodyType
    <3>4. wire.tools[i] \in ToolType
      BY <3>2, <3>3, LenProperties, ElementOfSeq
    <3> QED BY <3>2, <3>4 DEF ToolType
  <2> QED BY <2>1, <2>2
<1>4. Sent'
  BY <1>1 DEF Sent, IInv
<1>5. Replaced'
  <2>1. text' = IF said' \in pending' THEN said' ELSE Unalias(rw', said')
    BY <1>1, <1>2 DEF Unalias
  <2> QED BY <1>1, <2>1 DEF Replaced
<1> QED BY <1>1, <1>2, <1>3, <1>4, <1>5 DEF IInv, WordsTyped

(* One pair: only a word that is its alias changes, and what it changes to *)
(* is the alias of no pair still to come.                                  *)
LEMMA ReplacePairIInv == ASSUME IInv, ReplacePair PROVE IInv'
<1>1. pc = "restore" /\ UNCHANGED <<pc, request, wire, rw, said>>
  BY DEF ReplacePair
<1>2. PICK fake \in pending :
        /\ text' = IF text = fake THEN rw.reverse[fake] ELSE text
        /\ pending' = pending \ {fake}
  BY DEF ReplacePair, replaceWholeNames
<1>3. /\ pending \subseteq DOMAIN rw.reverse
      /\ text = IF said \in pending THEN said ELSE Unalias(rw, said)
  BY <1>1 DEF IInv, Replaced
<1>4. /\ Range(rw.reverse) \subseteq Names
      /\ \A f \in DOMAIN rw.reverse : rw.reverse[f] \notin DOMAIN rw.reverse
  BY RewriteAtHand
<1>5. text' = IF said \in pending' THEN said ELSE Unalias(rw, said)
  <2>1. CASE said \in pending
    BY <1>2, <1>3, <2>1 DEF Unalias
  <2>2. CASE said \notin pending
    <3>1. text = Unalias(rw, said)
      BY <1>3, <2>2
    <3>2. text # fake
      BY <1>2, <1>3, <1>4, <2>2, <3>1 DEF Unalias
    <3> QED BY <1>2, <2>2, <3>1, <3>2
  <2> QED BY <2>1, <2>2
<1>6. Sent'
  BY <1>1 DEF Sent, IInv
<1>7. Replaced'
  BY <1>1, <1>2, <1>3, <1>5 DEF Replaced
<1>8. WordsTyped'
  <2>1. rw.reverse[fake] \in Names
    BY <1>2, <1>3, <1>4 DEF Range
  <2> QED BY <1>1, <1>2, <2>1 DEF IInv, WordsTyped
<1> QED BY <1>1, <1>6, <1>7, <1>8 DEF IInv

LEMMA RestoredIInv == ASSUME IInv, Restored PROVE IInv'
<1>1. /\ pc = "restore" /\ pending = {} /\ pc' = "done"
      /\ UNCHANGED <<request, wire, rw, said, text, pending>>
  BY DEF Restored
<1>2. Sent'
  BY <1>1 DEF Sent, IInv
<1>3. Replaced'
  BY <1>1 DEF Replaced, IInv
<1> QED BY <1>1, <1>2, <1>3 DEF IInv, WordsTyped

LEMMA NextIInv == IInv /\ [Next]_vars => IInv'
<1>1. ASSUME IInv, UNCHANGED vars PROVE IInv'
  BY <1>1 DEF IInv, Sent, Replaced, WordsTyped, vars
<1> QED
  BY <1>1, ForwardedIInv, CountedIInv, AnsweredIInv, ReplacePairIInv, RestoredIInv DEF Next

LEMMA AlwaysIInv == Spec => []IInv
BY InitIInv, NextIInv, PTL DEF Spec

-----------------------------------------------------------------------------
(* Type correctness of a request and its response, for any set of bodies,  *)
(* words and types.                                                        *)
THEOREM RoundTripTypeOK == Spec => []TypeOK
<1>1. IInv => TypeOK
  <2> SUFFICES ASSUME IInv PROVE TypeOK
    OBVIOUS
  <2>1. request \in BodyType
    BY RequestsAssumption DEF IInv
  <2>2. wire \in BodyType
    BY <2>1, WireOf DEF IInv, Sent
  <2> QED BY <2>1, <2>2, RewriteAtHand DEF IInv, Replaced, WordsTyped, TypeOK
<1> QED BY <1>1, AlwaysIInv, PTL

(* The loop of restoreToolNamesInBytes needs no order: whichever pairs     *)
(* come first, it ends with what one lookup in the map gives.              *)
THEOREM RoundTripOrderIrrelevant == Spec => []OrderIrrelevant
<1>1. IInv => OrderIrrelevant
  BY DEF IInv, Replaced, OrderIrrelevant
<1> QED BY <1>1, AlwaysIInv, PTL

(* A tool the upstream calls reaches the client under the name it was      *)
(* declared with, whatever else is declared and in any order of the pairs. *)
THEOREM RoundTripToolUseRestored == Spec => []ToolUseRestored
<1>1. IInv => ToolUseRestored
  <2> SUFFICES ASSUME IInv, pc = "done", NEW i \in DOMAIN wire.tools,
                      said = wire.tools[i].name
               PROVE  text = request.tools[i].name
    BY DEF ToolUseRestored
  <2>1. /\ request \in Requests /\ rw = RewriteOf(request, TRUE)
        /\ wire = applyToolNameRewriteToBody(request, RewriteOf(request, TRUE))
    BY DEF IInv, Sent
  <2>2. text = Unalias(rw, said)
    BY DEF IInv, Replaced
  <2>3. DOMAIN wire.tools = DOMAIN request.tools
    BY <2>1, WireOf
  <2>4. Unalias(rw, wire.tools[i].name) = request.tools[i].name
    BY <2>1, <2>3, BackAtPosition
  <2> QED BY <2>2, <2>4
<1> QED BY <1>1, AlwaysIInv, PTL

(* The body sent upstream fits together: applyToolNameRewriteToBody merges *)
(* no two tools, keeps each reference with its tool and leaves server      *)
(* tools alone, for every body.                                            *)
THEOREM RoundTripWireBodyFits == Spec => []WireBodyFits
<1>1. IInv => WireBodyFits
  <2> SUFFICES ASSUME IInv PROVE WireBodyFits
    OBVIOUS
  <2>1. CASE pc = "request"
    <3>1. wire = request
      BY <2>1 DEF IInv, Sent
    <3> QED
      BY <3>1 DEF WireBodyFits, WireNamesDistinct, ReferencesDeclared, ServerToolsKept
  <2>2. CASE pc = "counted"
    BY <2>2, WireFits DEF IInv, Sent
  <2>3. CASE pc \in {"wire", "restore", "done"}
    BY <2>3, WireFits DEF IInv, Sent
  <2> QED BY <2>1, <2>2, <2>3 DEF IInv
<1> QED BY <1>1, AlwaysIInv, PTL

(* A covered name goes upstream as it is only when the alias meant for it  *)
(* is declared, on both endpoints and on both sides of the threshold.      *)
THEOREM RoundTripCoveredNamesRenamed == Spec => []CoveredNamesRenamed
<1>1. IInv => CoveredNamesRenamed
  <2> DEFINE names == MimicableNames(request.tools)
             alias(n) == IF pc # "counted" /\ Len(names) > Threshold
                         THEN DynamicAlias(names, LastIndex(names, n)) ELSE StaticAlias[n]
  <2> SUFFICES ASSUME IInv, pc # "request", NEW i \in ClientTools,
                      request.tools[i].name \in DOMAIN StaticAlias,
                      wire.tools[i].name = request.tools[i].name
               PROVE  alias(request.tools[i].name) \in DeclaredNames
    BY DEF CoveredNamesRenamed
  <2> DEFINE d == pc # "counted"
  <2>1. /\ request \in Requests /\ d \in BOOLEAN
        /\ wire = applyToolNameRewriteToBody(request, RewriteOf(request, d))
    BY DEF IInv, Sent
  <2> HIDE DEF d
  <2>2. sanitizeToolName(request.tools[i].name, names, d) \in DeclaredNames
    BY <2>1, CoveredRenamed
  <2> QED BY <2>2 DEF sanitizeToolName, d
<1> QED BY <1>1, AlwaysIInv, PTL

-----------------------------------------------------------------------------
(***************************************************************************)
(* The config and what it decides, for any number of requests and any      *)
(* payloads: the config is always valid and what the last accepted payload *)
(* says, a body follows one config, and body and headers part only after   *)
(* an accepted change of the surface.                                      *)
(*                                                                         *)
(* The invariant adds to the properties what links the three moments at    *)
(* which a request meets the config: until the surface is switched, the    *)
(* copy its body hook took and the active config name one surface, and so  *)
(* do the headers built from the latter.                                   *)
(***************************************************************************)


\* The config is the accepted payload over the defaults.
Loaded ==
  /\ Accepts(accepted)
  /\ config = WithSurface(decodeConfigYAML(accepted.keys, defaultConfig))

\* One request and the config.
Follows(r) ==
  /\ phase[r] = "read" => config \in during[r] /\ cfg[r] \in during[r]
  /\ phase[r] # "idle" /\ ~switched[r] => cfg[r].surface = config.surface
  /\ phase[r] \in {"built", "sent"} =>
       /\ built[r] = cfg[r] /\ built[r] \in during[r]
       /\ identity[r] = Identity(client[r], cfg[r])
  /\ phase[r] = "sent" /\ ~switched[r] => headers[r] = resolveSurface(cfg[r].surface)

SurfaceIInv ==
  /\ SurfaceTyped
  /\ DOMAIN cfg = RequestIds /\ DOMAIN built = RequestIds /\ DOMAIN during = RequestIds
  /\ accepted \in Payloads \cup {[json |-> TRUE, yaml |-> TRUE, keys |-> << >>]}
  /\ Loaded
  /\ \A r \in RequestIds : Follows(r)

-----------------------------------------------------------------------------
\* An accepted payload yields a valid config: known surface, toggles BOOLEAN.
LEMMA AcceptedIsConfig ==
  ASSUME NEW p \in Payloads, Accepts(p)
  PROVE  IsConfig(WithSurface(decodeConfigYAML(p.keys, defaultConfig)))
<1> DEFINE d == decodeConfigYAML(p.keys, defaultConfig)
<1> DEFINE w == WithSurface(d)
<1>1. DOMAIN d = DOMAIN defaultConfig /\ DOMAIN w = DOMAIN d
  BY DEF decodeConfigYAML, WithSurface
<1>2. w.surface \in Surfaces
  BY DEF Accepts
<1>3. ASSUME NEW t \in Toggles PROVE w[t] \in BOOLEAN
  <2>1. t \in DOMAIN defaultConfig /\ defaultConfig[t] \in BOOLEAN /\ t # "surface"
    <3>1. CASE t = "obfuscate_tool_names"
      BY <3>1 DEF defaultConfig
    <3>2. CASE t = "inject_system_prompt"
      BY <3>2 DEF defaultConfig
    <3>3. CASE t = "cache_breakpoints"
      BY <3>3 DEF defaultConfig
    <3>4. CASE t = "fill_fingerprint"
      BY <3>4 DEF defaultConfig
    <3> QED BY <3>1, <3>2, <3>3, <3>4 DEF Toggles
  <2>2. d[t] = IF t \in DOMAIN p.keys THEN p.keys[t] ELSE defaultConfig[t]
    BY <2>1 DEF decodeConfigYAML
  <2>3. t \in DOMAIN p.keys => p.keys[t] \in BOOLEAN
    BY PayloadsAssumption DEF Accepts, Decodes
  <2>4. d[t] \in BOOLEAN
    BY <2>1, <2>2, <2>3
  <2>5. w[t] = d[t]
    BY <1>1, <2>1 DEF WithSurface
  <2> QED BY <2>4, <2>5
<1> QED BY <1>1, <1>2, <1>3 DEF IsConfig

\* Whatever the payload, the active config stays valid.
LEMMA ConfigureKeepsValid ==
  ASSUME NEW p \in Payloads, IsConfig(config)
  PROVE  IsConfig(configure(p, config))
BY AcceptedIsConfig DEF configure

LEMMA IdentityType ==
  ASSUME NEW claim \in Surfaces \cup {"plain"}, NEW c
  PROVE  Identity(claim, c) \in Surfaces \cup {"plain"}
BY DEF Identity, resolveSurface, Surfaces

LEMMA DefaultIsConfig == IsConfig(defaultConfig)
BY DEF IsConfig, defaultConfig, Toggles, Surfaces

LEMMA DefaultLoaded ==
  LET none == [json |-> TRUE, yaml |-> TRUE, keys |-> << >>]
  IN  Accepts(none) /\ defaultConfig = WithSurface(decodeConfigYAML(none.keys, defaultConfig))
<1> DEFINE none == [json |-> TRUE, yaml |-> TRUE, keys |-> << >>]
<1>1. none.json /\ none.yaml /\ none.keys = << >> /\ DOMAIN none.keys = {}
  OBVIOUS
<1>2. decodeConfigYAML(none.keys, defaultConfig) = defaultConfig
  <2>1. decodeConfigYAML(none.keys, defaultConfig)
          = [k \in DOMAIN defaultConfig |-> defaultConfig[k]]
    BY <1>1 DEF decodeConfigYAML
  <2>2. defaultConfig = [k \in DOMAIN defaultConfig |-> defaultConfig[k]]
    BY DEF defaultConfig
  <2> QED BY <2>1, <2>2
<1>3. WithSurface(defaultConfig) = defaultConfig /\ defaultConfig.surface \in Surfaces
  BY DEF WithSurface, defaultConfig, Surfaces
<1>4. Decodes(none)
  BY <1>1 DEF Decodes
<1> HIDE DEF none
<1>5. Accepts(none)
  BY <1>2, <1>3, <1>4 DEF Accepts
<1> QED BY <1>2, <1>3, <1>5 DEF none

LEMMA SurfaceInitIInv == SurfaceInit => SurfaceIInv
<1> SUFFICES ASSUME SurfaceInit PROVE SurfaceIInv
  OBVIOUS
<1>1. SurfaceTyped
  BY DefaultIsConfig DEF SurfaceInit, SurfaceTyped
<1>2. Loaded
  BY DefaultLoaded DEF SurfaceInit, Loaded
<1>3. \A r \in RequestIds : Follows(r)
  BY DEF SurfaceInit, Follows
<1>4. DOMAIN cfg = RequestIds /\ DOMAIN built = RequestIds /\ DOMAIN during = RequestIds
  BY DEF SurfaceInit
<1> QED BY <1>1, <1>2, <1>3, <1>4 DEF SurfaceInit, SurfaceIInv

-----------------------------------------------------------------------------
LEMMA ConfigureIInv ==
  ASSUME SurfaceIInv, NEW p \in Payloads, Configure(p)
  PROVE  SurfaceIInv'
<1>1. IsConfig(config')
  BY ConfigureKeepsValid DEF SurfaceIInv, SurfaceTyped, Configure
<1>2. \A r \in RequestIds : \A c \in during'[r] : IsConfig(c)
  <2> SUFFICES ASSUME NEW r \in RequestIds, NEW c \in during'[r] PROVE IsConfig(c)
    OBVIOUS
  <2>1. c = config' \/ c \in during[r]
    BY DEF Configure
  <2> QED BY <1>1, <2>1 DEF SurfaceIInv, SurfaceTyped
<1>3. SurfaceTyped'
  <2>1. switched' \in [RequestIds -> BOOLEAN]
    BY DEF SurfaceIInv, SurfaceTyped, Configure
  <2> QED BY <1>1, <1>2, <2>1 DEF SurfaceIInv, SurfaceTyped, Configure, IsConfig
<1>4. Loaded'
  BY DEF SurfaceIInv, Loaded, Configure, configure
<1>5. ASSUME NEW r \in RequestIds PROVE Follows(r)'
  <2>1. Follows(r) /\ phase'[r] = phase[r] /\ cfg'[r] = cfg[r] /\ built'[r] = built[r]
        /\ identity'[r] = identity[r] /\ headers'[r] = headers[r] /\ client'[r] = client[r]
    BY DEF SurfaceIInv, Configure
  <2>2. during'[r] = IF phase[r] = "read" THEN during[r] \cup {config'} ELSE during[r]
    BY DEF Configure
  <2>3. switched'[r] = (switched[r] \/ (/\ phase[r] # "idle" /\ Accepts(p)
                                        /\ config'.surface # config.surface))
    BY DEF Configure
  <2>4. ~Accepts(p) => config' = config
    BY DEF Configure, configure
  <2>5. phase[r] # "idle" /\ ~switched'[r] => ~switched[r] /\ config'.surface = config.surface
    BY <2>3, <2>4
  <2>6. ~switched'[r] => ~switched[r]
    BY <2>3
  <2> QED BY <2>1, <2>2, <2>5, <2>6 DEF Follows
<1> QED BY <1>3, <1>4, <1>5 DEF SurfaceIInv, Configure

LEMMA ReadConfigIInv ==
  ASSUME SurfaceIInv, NEW q \in RequestIds, ReadConfig(q)
  PROVE  SurfaceIInv'
<1>1. SurfaceTyped'
  BY DEF SurfaceIInv, SurfaceTyped, ReadConfig, IsConfig
<1>2. Loaded'
  BY DEF SurfaceIInv, Loaded, ReadConfig
<1>3. ASSUME NEW r \in RequestIds PROVE Follows(r)'
  BY DEF SurfaceIInv, SurfaceTyped, Follows, ReadConfig
<1> QED BY <1>1, <1>2, <1>3 DEF SurfaceIInv, ReadConfig

LEMMA BuildBodyIInv ==
  ASSUME SurfaceIInv, NEW q \in RequestIds, BuildBody(q)
  PROVE  SurfaceIInv'
<1>1. SurfaceTyped'
  BY IdentityType DEF SurfaceIInv, SurfaceTyped, BuildBody, ConfigOfBody, IsConfig
<1>2. Loaded'
  BY DEF SurfaceIInv, Loaded, BuildBody
<1>3. ASSUME NEW r \in RequestIds PROVE Follows(r)'
  BY DEF SurfaceIInv, SurfaceTyped, Follows, BuildBody, ConfigOfBody
<1> QED BY <1>1, <1>2, <1>3 DEF SurfaceIInv, BuildBody

LEMMA EgressIInv ==
  ASSUME SurfaceIInv, NEW q \in RequestIds, interceptEgressHeaders(q)
  PROVE  SurfaceIInv'
<1>1. SurfaceTyped'
  BY DEF SurfaceIInv, SurfaceTyped, interceptEgressHeaders, resolveSurface, Surfaces, IsConfig
<1>2. Loaded'
  BY DEF SurfaceIInv, Loaded, interceptEgressHeaders
<1>3. ASSUME NEW r \in RequestIds PROVE Follows(r)'
  BY DEF SurfaceIInv, SurfaceTyped, Follows, interceptEgressHeaders
<1> QED BY <1>1, <1>2, <1>3 DEF SurfaceIInv, interceptEgressHeaders

LEMMA RetryIInv ==
  ASSUME SurfaceIInv, NEW q \in RequestIds, Retry(q)
  PROVE  SurfaceIInv'
<1>1. SurfaceTyped'
  BY DEF SurfaceIInv, SurfaceTyped, Retry, IsConfig
<1>2. Loaded'
  BY DEF SurfaceIInv, Loaded, Retry
<1>3. ASSUME NEW r \in RequestIds PROVE Follows(r)'
  BY DEF SurfaceIInv, SurfaceTyped, Follows, Retry
<1> QED BY <1>1, <1>2, <1>3 DEF SurfaceIInv, Retry

LEMMA SurfaceStepIInv == SurfaceIInv /\ [SurfaceNext]_surfaceVars => SurfaceIInv'
<1> SUFFICES ASSUME SurfaceIInv, [SurfaceNext]_surfaceVars PROVE SurfaceIInv'
  OBVIOUS
<1>1. ASSUME NEW p \in Payloads, Configure(p) PROVE SurfaceIInv'
  BY <1>1, ConfigureIInv
<1>2. ASSUME NEW r \in RequestIds, ReadConfig(r) PROVE SurfaceIInv'
  BY <1>2, ReadConfigIInv
<1>3. ASSUME NEW r \in RequestIds, BuildBody(r) PROVE SurfaceIInv'
  BY <1>3, BuildBodyIInv
<1>4. ASSUME NEW r \in RequestIds, interceptEgressHeaders(r) PROVE SurfaceIInv'
  BY <1>4, EgressIInv
<1>5. ASSUME NEW r \in RequestIds, Retry(r) PROVE SurfaceIInv'
  BY <1>5, RetryIInv
<1>6. CASE UNCHANGED surfaceVars
  BY <1>6 DEF surfaceVars, SurfaceIInv, SurfaceTyped, Loaded, Follows, IsConfig
<1> QED BY <1>1, <1>2, <1>3, <1>4, <1>5, <1>6 DEF SurfaceNext

LEMMA SurfaceAlways == SurfaceSpec => []SurfaceIInv
BY SurfaceInitIInv, SurfaceStepIInv, PTL DEF SurfaceSpec

-----------------------------------------------------------------------------
(* Type correctness; the active config is always valid: config.go rejects  *)
(* or normalises whatever it is sent.                                      *)
THEOREM SurfaceTypeOK == SurfaceSpec => []SurfaceTyped
<1>1. SurfaceIInv => SurfaceTyped
  BY DEF SurfaceIInv
<1> QED BY <1>1, SurfaceAlways, PTL

(* The active config is what the last accepted payload says, key by key,   *)
(* over the defaults (configure, decodeConfigYAML).                        *)
THEOREM SurfaceConfigAsLoaded == SurfaceSpec => []ConfigAsLoaded
<1>1. SurfaceIInv => ConfigAsLoaded
  <2> SUFFICES ASSUME SurfaceIInv, NEW k \in DOMAIN defaultConfig
               PROVE  \/ k \in DOMAIN accepted.keys /\ config[k] = accepted.keys[k]
                      \/ k \notin DOMAIN accepted.keys /\ config[k] = defaultConfig[k]
                      \/ /\ k = "surface" /\ k \in DOMAIN accepted.keys
                         /\ accepted.keys[k] = "" /\ config[k] = "cli"
    BY DEF ConfigAsLoaded
  <2> DEFINE d == decodeConfigYAML(accepted.keys, defaultConfig)
  <2>1. config = WithSurface(d)
    BY DEF SurfaceIInv, Loaded
  <2>2. d[k] = IF k \in DOMAIN accepted.keys THEN accepted.keys[k] ELSE defaultConfig[k]
    BY DEF decodeConfigYAML
  <2>3. DOMAIN d = DOMAIN defaultConfig /\ "surface" \in DOMAIN d
    BY DEF decodeConfigYAML, defaultConfig
  <2>4. defaultConfig["surface"] = "cli"
    BY DEF defaultConfig
  <2>5. CASE d.surface = "" /\ k = "surface"
    <3>1. config[k] = "cli"
      BY <2>1, <2>3, <2>5 DEF WithSurface
    <3> QED BY <2>2, <2>4, <2>5, <3>1
  <2>6. CASE ~(d.surface = "" /\ k = "surface")
    <3>1. config[k] = d[k]
      BY <2>1, <2>3, <2>6 DEF WithSurface
    <3> QED BY <2>2, <3>1
  <2> QED BY <2>5, <2>6
<1> QED BY <1>1, SurfaceAlways, PTL

(* All stages of a body follow one config that was active while the hook   *)
(* ran (interceptRequestBefore takes one copy).                            *)
THEOREM SurfaceOneConfigPerBody == SurfaceSpec => []OneConfigPerBody
<1>1. SurfaceIInv => OneConfigPerBody
  BY DEF SurfaceIInv, Follows, OneConfigPerBody
<1> QED BY <1>1, SurfaceAlways, PTL

(* Body and headers of a rewritten request name different surfaces only if *)
(* an accepted reconfigure changed the surface in between.                 *)
THEOREM SurfaceDivergenceNeedsSwitch == SurfaceSpec => []DivergenceNeedsSwitch
<1>1. SurfaceIInv => DivergenceNeedsSwitch
  <2> SUFFICES ASSUME SurfaceIInv, NEW r \in RequestIds, phase[r] = "sent", Rewritten(r), ~switched[r]
               PROVE  headers[r] = identity[r]
    BY DEF DivergenceNeedsSwitch, SurfaceIInv, SurfaceTyped
  <2>1. /\ built[r] = cfg[r] /\ identity[r] = Identity(client[r], cfg[r])
        /\ headers[r] = resolveSurface(cfg[r].surface)
    BY DEF SurfaceIInv, Follows
  <2>2. resolveSurface(cfg[r].surface) = cfg[r].surface
    BY DEF SurfaceIInv, SurfaceTyped, IsConfig, Surfaces, resolveSurface
  <2>3. cfg[r].inject_system_prompt /\ ~Recognised(client[r], cfg[r].surface)
    BY <2>1 DEF Rewritten
  <2> QED BY <2>1, <2>2, <2>3 DEF Identity
<1> QED BY <1>1, SurfaceAlways, PTL
=============================================================================
