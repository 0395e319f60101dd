--------------------------- MODULE RequestBodyProofs ---------------------------
(***************************************************************************)
(* What holds of every body that passes any number of gateways, whatever   *)
(* the client sent and whatever each gateway is configured to do:          *)
(* RequestBody's type invariant, that the model reads what the client      *)
(* said, the gate on context_management, the rule of the toggles, and that *)
(* a gateway which is asked for nothing new changes nothing.               *)
(***************************************************************************)
EXTENDS RequestBody, RewriteLemmas

(* What is picked from a sequence is a sequence of the same kind.          *)
LEMMA PickedType ==
  ASSUME NEW S, NEW s \in Seq(S), NEW places \in SUBSET (DOMAIN s)
  PROVE  Picked(s, places) \in Seq(S)
<1> DEFINE kept == Picked(s, places)
           c    == Cardinality(places)
<1>1. Len(s) \in Nat /\ DOMAIN s = 1..Len(s) /\ \A i \in DOMAIN s : s[i] \in S
  BY LenProperties, ElementOfSeq
<1>2. /\ c \in 0..Len(s)
      /\ \A k \in 1..c : Place(places, k) \in places /\ kept[k] = s[Place(places, k)]
  <2>1. places \in SUBSET (1..Len(s))
    BY <1>1
  <2> QED BY <1>1, <2>1, PickedShape
<1>3. kept = [k \in 1..c |-> s[Place(places, k)]]
  BY DEF Picked
<1> HIDE DEF kept, c
<1>4. kept \in [1..c -> S]
  BY <1>1, <1>2, <1>3
<1>5. c \in Nat
  BY <1>1, <1>2
<1> QED BY <1>4, <1>5, IsASeq DEF kept

-----------------------------------------------------------------------------
(* The list the hook scans is as the tools are: the names of the mimicable *)
(* ones and no others, and the same renaming of both agrees.               *)
LEMMA ListShape ==
  ASSUME NEW tools \in Seq(ToolType)
  PROVE  LET list == MimicableNames(tools)
             c    == Cardinality(Mimicable(tools))
         IN  /\ c \in Nat
             /\ list \in [1..c -> Names]
             /\ Len(list) = c
             /\ \A k \in 1..c : /\ Place(Mimicable(tools), k) \in Mimicable(tools)
                                /\ list[k] = tools[Place(Mimicable(tools), k)].name
             /\ \A i \in Mimicable(tools) : tools[i].name \in Range(list)
<1> DEFINE places == Mimicable(tools)
           c      == Cardinality(places)
           list   == MimicableNames(tools)
           kept   == Picked(tools, places)
<1>1. /\ Len(tools) \in Nat /\ DOMAIN tools = 1..Len(tools)
      /\ \A i \in DOMAIN tools : tools[i] \in ToolType
  BY LenProperties, ElementOfSeq
<1>2. places \in SUBSET (1..Len(tools))
  BY <1>1 DEF Mimicable
<1>3. /\ c \in 0..Len(tools) /\ DOMAIN kept = 1..c
      /\ \A k \in 1..c : Place(places, k) \in places /\ kept[k] = tools[Place(places, k)]
      /\ \A i \in places : \E k \in 1..c : Place(places, k) = i
  <2> DEFINE N == Len(tools)
  <2>1. N \in Nat /\ places \in SUBSET (1..N)
    BY <1>1, <1>2
  <2> HIDE DEF places, N
  <2>2. /\ c \in 0..N
        /\ \A k \in 1..c : Place(places, k) \in places
        /\ \A i \in places : \E k \in 1..c : Place(places, k) = i
    BY <2>1, PlaceShape
  <2>3. DOMAIN kept = 1..c /\ \A k \in 1..c : kept[k] = tools[Place(places, k)]
    BY DEF Picked
  <2> HIDE DEF kept, c
  <2> QED BY <2>2, <2>3 DEF N
<1>4. list = [k \in DOMAIN kept |-> kept[k].name]
  BY DEF MimicableNames
<1> HIDE DEF kept, c, places, list
<1>5. c \in Nat /\ \A k \in 1..c : list[k] = tools[Place(places, k)].name
  BY <1>1, <1>3, <1>4
<1>6. list \in [1..c -> Names]
  <2>1. \A i \in places : tools[i].name \in Names
    BY <1>1, <1>2 DEF ToolType
  <2>2. \A k \in 1..c : list[k] \in Names
    BY <1>3, <1>5, <2>1
  <2> QED BY <1>3, <1>4, <2>2
<1>7. list \in Seq(Names)
  BY <1>5, <1>6, IsASeq
<1>8. Len(list) = c
  BY <1>5, <1>6, <1>7, LenProperties
<1>9. \A i \in places : tools[i].name \in Range(list)
  <2> SUFFICES ASSUME NEW i \in places PROVE tools[i].name \in Range(list)
    OBVIOUS
  <2>1. PICK k \in 1..c : Place(places, k) = i
    BY <1>3
  <2>2. list[k] = tools[i].name /\ k \in DOMAIN list
    BY <1>5, <1>6, <2>1
  <2> QED BY <2>2 DEF Range
<1> QED BY <1>3, <1>5, <1>6, <1>8, <1>9 DEF places, c, list

(* Tools that are mimicable in the same places have lists of one length,   *)
(* and what happened to each name happened to each name of the list.       *)
LEMMA ListsAgree ==
  ASSUME NEW tools \in Seq(ToolType), NEW changed \in Seq(ToolType),
         Mimicable(changed) = Mimicable(tools)
  PROVE  /\ Len(MimicableNames(changed)) = Len(MimicableNames(tools))
         /\ (\A i \in Mimicable(tools) : changed[i].name = tools[i].name)
              => MimicableNames(changed) = MimicableNames(tools)
         /\ \A R : (\A i \in Mimicable(tools) : changed[i].name = Alias(R, tools[i].name))
              => MimicableNames(changed) = AliasedList(R, MimicableNames(tools))
<1> DEFINE c    == Cardinality(Mimicable(tools))
           list == MimicableNames(tools)
           next == MimicableNames(changed)
<1>1. /\ list \in [1..c -> Names] /\ Len(list) = c
      /\ \A k \in 1..c : /\ Place(Mimicable(tools), k) \in Mimicable(tools)
                         /\ list[k] = tools[Place(Mimicable(tools), k)].name
  BY ListShape
<1>2. /\ next \in [1..c -> Names] /\ Len(next) = c
      /\ \A k \in 1..c : next[k] = changed[Place(Mimicable(tools), k)].name
  BY ListShape
<1> HIDE DEF c, list, next
<1>3. ASSUME \A i \in Mimicable(tools) : changed[i].name = tools[i].name
      PROVE  next = list
  <2>1. \A k \in 1..c : next[k] = list[k]
    BY <1>1, <1>2, <1>3
  <2> QED BY <1>1, <1>2, <2>1
<1>4. ASSUME NEW R, \A i \in Mimicable(tools) : changed[i].name = Alias(R, tools[i].name)
      PROVE  next = AliasedList(R, list)
  <2>1. AliasedList(R, list) = [k \in 1..c |-> Alias(R, list[k])]
    BY <1>1 DEF AliasedList
  <2>2. \A k \in 1..c : next[k] = Alias(R, list[k])
    BY <1>1, <1>2, <1>4
  <2>3. next = [k \in 1..c |-> next[k]]
    BY <1>2
  <2> QED BY <2>1, <2>2, <2>3
<1> QED BY <1>1, <1>2, <1>3, <1>4 DEF list, next

(* The static rules are done after one pass: what they gave is not renamed *)
(* again, and what they left is left again.                                *)
LEMMA StaticOnce ==
  ASSUME NEW list \in ToolLists, NEW dynamicAliases \in BOOLEAN,
         ~(dynamicAliases /\ Len(list) > Threshold)
  PROVE  LET next == AliasedList(buildToolNameRewrite(list, dynamicAliases), list)
         IN  \A d \in BOOLEAN : ~(d /\ Len(next) > Threshold) => Renamed(next, d) = {}
<1> DEFINE R    == buildToolNameRewrite(list, dynamicAliases)
           next == AliasedList(R, list)
           gone == Renamed(list, dynamicAliases)
<1>1. /\ DOMAIN R.forward = gone
      /\ \A n \in gone : R.forward[n] = sanitizeToolName(n, list, dynamicAliases)
  BY RewriteMaps
<1>2. \A n \in gone : n \in DOMAIN StaticAlias /\ R.forward[n] = StaticAlias[n]
  <2> HIDE DEF R
  <2> QED BY <1>1 DEF Renamed, sanitizeToolName
<1>3. Len(list) \in Nat /\ DOMAIN list = 1..Len(list)
  BY ListsAssumption, LenProperties
<1>4. \A n : n \in Range(next) <=> \E m \in Range(list) : n = Alias(R, m)
  <2> HIDE DEF R
  <2> QED BY DEF AliasedList, Range
<1>5. \A n \in Range(next) \cap DOMAIN StaticAlias : n \in Range(list) /\ n \notin gone
  <2> SUFFICES ASSUME NEW n \in Range(next), n \in DOMAIN StaticAlias
               PROVE  n \in Range(list) /\ n \notin gone
    OBVIOUS
  <2>1. PICK m \in Range(list) : n = Alias(R, m)
    BY <1>4
  <2> HIDE DEF R, next, gone
  <2>2. m \notin gone
    <3> SUFFICES ASSUME m \in gone PROVE FALSE
      OBVIOUS
    <3>1. n = StaticAlias[m] /\ m \in DOMAIN StaticAlias
      BY <1>1, <1>2, <2>1 DEF Alias
    <3>2. n \in Range(StaticAlias)
      BY <3>1 DEF Range
    <3> QED BY <3>2, StaticAssumption
  <2> QED BY <1>1, <2>1, <2>2 DEF Alias
<1>6. \A n \in Range(list) \ gone : n \in DOMAIN StaticAlias => StaticAlias[n] \in Range(next)
  <2> SUFFICES ASSUME NEW n \in Range(list), n \notin gone, n \in DOMAIN StaticAlias
               PROVE  StaticAlias[n] \in Range(next)
    OBVIOUS
  <2> DEFINE a == StaticAlias[n]
  <2>1. a \in Range(StaticAlias)
    BY DEF Range
  <2>2. a # n /\ a \notin DOMAIN StaticAlias
    BY <2>1, StaticAssumption
  <2>3. a \in Range(list)
    BY <2>2 DEF Renamed, sanitizeToolName
  <2>4. a \notin gone
    BY <1>2, <2>2
  <2> HIDE DEF R, next, gone, a
  <2>5. Alias(R, a) = a
    BY <1>1, <2>4 DEF Alias
  <2>6. a \in Range(next)
    BY <1>4, <2>3, <2>5
  <2> QED BY <2>6 DEF a
<1> SUFFICES ASSUME NEW d \in BOOLEAN, ~(d /\ Len(next) > Threshold), NEW n \in Renamed(next, d)
             PROVE  FALSE
  OBVIOUS
<1> HIDE DEF R, next, gone
<1>7. /\ n \in Range(next)
      /\ sanitizeToolName(n, next, d) # n /\ sanitizeToolName(n, next, d) \notin Range(next)
  BY DEF Renamed
<1>8. n \in DOMAIN StaticAlias /\ sanitizeToolName(n, next, d) = StaticAlias[n]
  BY <1>7 DEF sanitizeToolName
<1> QED BY <1>5, <1>6, <1>7, <1>8

-----------------------------------------------------------------------------
\* Tools in the same places, of the same kind: what no stage changes.
SamePlaces(changed, tools) ==
  /\ Len(changed) = Len(tools)
  /\ \A i \in 1..Len(tools) : changed[i].mimicable = tools[i].mimicable

SameNames(changed, tools) == \A i \in 1..Len(tools) : changed[i].name = tools[i].name

SameCaches(changed, tools) == \A i \in 1..Len(tools) : changed[i].cache = tools[i].cache

\* Below the threshold the static rules have nothing left to rename.
Done(tools) ==
  LET list == MimicableNames(tools)
  IN  Len(list) <= Threshold => \A d \in BOOLEAN : Renamed(list, d) = {}

LEMMA ToolsShape ==
  ASSUME NEW tools \in Seq(ToolType)
  PROVE  /\ Len(tools) \in Nat /\ DOMAIN tools = 1..Len(tools)
         /\ \A i \in 1..Len(tools) : tools[i] \in ToolType
         /\ tools = [i \in 1..Len(tools) |-> tools[i]]
<1>1. Len(tools) \in Nat /\ DOMAIN tools = 1..Len(tools) /\ tools \in [1..Len(tools) -> ToolType]
  BY LenProperties
<1> QED BY <1>1

(* Lists of tools that agree in every field of every tool are one.         *)
LEMMA SameTools ==
  ASSUME NEW tools \in Seq(ToolType), NEW changed \in Seq(ToolType),
         SamePlaces(changed, tools), SameNames(changed, tools), SameCaches(changed, tools)
  PROVE  changed = tools
<1>1. /\ Len(tools) \in Nat /\ \A i \in 1..Len(tools) : tools[i] \in ToolType
      /\ tools = [i \in 1..Len(tools) |-> tools[i]]
  BY ToolsShape
<1>2. /\ \A i \in 1..Len(tools) : changed[i] \in ToolType
      /\ changed = [i \in 1..Len(tools) |-> changed[i]]
  <2>1. /\ \A i \in 1..Len(changed) : changed[i] \in ToolType
        /\ changed = [i \in 1..Len(changed) |-> changed[i]]
    BY ToolsShape
  <2>2. Len(changed) = Len(tools)
    BY DEF SamePlaces
  <2> QED BY <2>1, <2>2
<1>3. \A i \in 1..Len(tools) : changed[i] = tools[i]
  <2> SUFFICES ASSUME NEW i \in 1..Len(tools) PROVE changed[i] = tools[i]
    OBVIOUS
  <2>1. /\ changed[i].name = tools[i].name /\ changed[i].mimicable = tools[i].mimicable
        /\ changed[i].cache = tools[i].cache
    BY DEF SamePlaces, SameNames, SameCaches
  <2>2. /\ tools[i] = [name |-> tools[i].name, mimicable |-> tools[i].mimicable,
                       cache |-> tools[i].cache]
        /\ changed[i] = [name |-> changed[i].name, mimicable |-> changed[i].mimicable,
                         cache |-> changed[i].cache]
    BY <1>1, <1>2 DEF ToolType
  <2> QED BY <2>1, <2>2
<1> QED BY <1>1, <1>2, <1>3

LEMMA SameMimicable ==
  ASSUME NEW tools \in Seq(ToolType), NEW changed \in Seq(ToolType), SamePlaces(changed, tools)
  PROVE  Mimicable(changed) = Mimicable(tools)
<1>1. /\ DOMAIN tools = 1..Len(tools) /\ DOMAIN changed = 1..Len(tools)
  BY ToolsShape DEF SamePlaces
<1> QED BY <1>1 DEF Mimicable, SamePlaces

(* Renaming leaves everything but names alone, is done after one pass      *)
(* below the threshold, and a list with nothing to rename stays as it is.  *)
LEMMA RenamedToolsShape ==
  ASSUME NEW tools \in Seq(ToolType), MimicableNames(tools) \in ToolLists,
         NEW dynamicAliases \in BOOLEAN
  PROVE  LET next == RenamedTools(tools, dynamicAliases) IN
         /\ next \in Seq(ToolType) /\ SamePlaces(next, tools) /\ SameCaches(next, tools)
         /\ MimicableNames(next) \in ToolLists
         /\ Len(MimicableNames(next)) = Len(MimicableNames(tools))
         /\ Done(next)
         /\ Renamed(MimicableNames(tools), dynamicAliases) = {} => SameNames(next, tools)
<1> DEFINE list == MimicableNames(tools)
           R    == buildToolNameRewrite(list, dynamicAliases)
           next == RenamedTools(tools, dynamicAliases)
<1>1. /\ Len(tools) \in Nat /\ DOMAIN tools = 1..Len(tools)
      /\ \A i \in 1..Len(tools) : tools[i] \in ToolType
  BY ToolsShape
<1>2. \A i \in 1..Len(tools) : tools[i].mimicable =>
        /\ i \in Mimicable(tools)
        /\ tools[i].name \in Range(list) /\ Alias(R, tools[i].name) \in Names
  <2> SUFFICES ASSUME NEW i \in 1..Len(tools), tools[i].mimicable
               PROVE  /\ i \in Mimicable(tools)
                      /\ tools[i].name \in Range(list) /\ Alias(R, tools[i].name) \in Names
    OBVIOUS
  <2>1. i \in Mimicable(tools)
    BY <1>1 DEF Mimicable
  <2>2. tools[i].name \in Range(list)
    BY <2>1, ListShape
  <2>3. list \in ToolLists
    OBVIOUS
  <2> HIDE DEF list
  <2>4. LET Q == buildToolNameRewrite(list, dynamicAliases)
        IN  Alias(Q, tools[i].name) \in Names
    BY <2>2, <2>3, RoundTrip
  <2> QED BY <2>1, <2>2, <2>4
<1>3. next = [i \in 1..Len(tools) |->
                IF tools[i].mimicable THEN [tools[i] EXCEPT !.name = Alias(R, @)] ELSE tools[i]]
  BY <1>1 DEF RenamedTools
<1> HIDE DEF list, R, next
<1>4. \A i \in 1..Len(tools) :
        /\ next[i] \in ToolType
        /\ next[i].mimicable = tools[i].mimicable /\ next[i].cache = tools[i].cache
        /\ next[i].name = IF tools[i].mimicable THEN Alias(R, tools[i].name) ELSE tools[i].name
  <2> SUFFICES ASSUME NEW i \in 1..Len(tools)
               PROVE  /\ next[i] \in ToolType
                      /\ next[i].mimicable = tools[i].mimicable /\ next[i].cache = tools[i].cache
                      /\ next[i].name = IF tools[i].mimicable THEN Alias(R, tools[i].name)
                                        ELSE tools[i].name
    OBVIOUS
  <2>1. CASE ~tools[i].mimicable
    BY <1>1, <1>3, <2>1
  <2>2. CASE tools[i].mimicable
    <3>1. next[i] = [tools[i] EXCEPT !.name = Alias(R, tools[i].name)]
      BY <1>3, <2>2
    <3>2. tools[i] \in [name : Names, mimicable : BOOLEAN,
                        cache : {"absent", "bare", "ttl", "full", "extended"}]
      BY <1>1 DEF ToolType
    <3>3. Alias(R, tools[i].name) \in Names
      BY <1>2, <2>2
    <3>4. /\ next[i] \in [name : Names, mimicable : BOOLEAN,
                          cache : {"absent", "bare", "ttl", "full", "extended"}]
          /\ next[i].mimicable = tools[i].mimicable /\ next[i].cache = tools[i].cache
          /\ next[i].name = Alias(R, tools[i].name)
      BY <3>1, <3>2, <3>3
    <3> QED BY <2>2, <3>4 DEF ToolType
  <2> QED BY <2>1, <2>2
<1>5. next \in Seq(ToolType) /\ Len(next) = Len(tools)
  <2>1. next \in [1..Len(tools) -> ToolType]
    BY <1>3, <1>4
  <2>2. next \in Seq(ToolType)
    BY <1>1, <2>1, IsASeq
  <2> QED BY <1>1, <2>1, <2>2, LenProperties
<1>6. SamePlaces(next, tools) /\ SameCaches(next, tools)
  BY <1>4, <1>5 DEF SamePlaces, SameCaches
<1>7. Mimicable(next) = Mimicable(tools)
  BY <1>5, <1>6, SameMimicable
<1>8. MimicableNames(next) = AliasedList(R, list)
  <2>1. \A i \in Mimicable(tools) : next[i].name = Alias(R, tools[i].name)
    BY <1>1, <1>4 DEF Mimicable
  <2> QED BY <1>5, <1>7, <2>1, ListsAgree DEF list
<1>9. Len(MimicableNames(next)) = Len(list)
  BY <1>5, <1>7, ListsAgree DEF list
<1>10. list \in ToolLists
  BY DEF list
<1>11. MimicableNames(next) \in ToolLists
  BY <1>8, <1>10, OnwardAssumption DEF R
<1>12. Done(next)
  <2> SUFFICES ASSUME Len(MimicableNames(next)) <= Threshold, NEW d \in BOOLEAN
               PROVE  Renamed(MimicableNames(next), d) = {}
    BY DEF Done
  <2>1. Len(list) \in Nat
    BY <1>10, ListsAssumption, LenProperties
  <2>2. ~(Len(list) > Threshold) /\ ~(Len(MimicableNames(next)) > Threshold)
    BY <1>9, <2>1, ThresholdAssumption
  <2>3. LET then == AliasedList(buildToolNameRewrite(list, dynamicAliases), list)
        IN  \A e \in BOOLEAN : ~(e /\ Len(then) > Threshold) => Renamed(then, e) = {}
    BY <1>10, <2>2, StaticOnce
  <2> QED BY <1>8, <2>2, <2>3 DEF R
<1>13. Renamed(list, dynamicAliases) = {} => SameNames(next, tools)
  <2> SUFFICES ASSUME Renamed(list, dynamicAliases) = {} PROVE SameNames(next, tools)
    OBVIOUS
  <2>1. DOMAIN R.forward = {}
    BY <1>10, RewriteMaps DEF R
  <2>2. \A n : Alias(R, n) = n
    BY <2>1 DEF Alias
  <2> QED BY <1>4, <2>2 DEF SameNames
<1> QED BY <1>5, <1>6, <1>9, <1>11, <1>12, <1>13 DEF list, next

(* The breakpoint changes nothing but the cache_control of the last tool.  *)
LEMMA BreakpointShape ==
  ASSUME NEW tools \in Seq(ToolType)
  PROVE  LET next == applyToolsLastCacheBreakpoint(tools) IN
         /\ next \in Seq(ToolType) /\ SamePlaces(next, tools) /\ SameNames(next, tools)
         /\ \A i \in 1..Len(tools) :
              next[i].cache = IF i = Len(tools) THEN WithTTL(tools[i].cache) ELSE tools[i].cache
<1> DEFINE next == applyToolsLastCacheBreakpoint(tools)
           Caches_ == {"absent", "bare", "ttl", "full", "extended"}
<1>1. /\ Len(tools) \in Nat /\ DOMAIN tools = 1..Len(tools)
      /\ \A i \in 1..Len(tools) : tools[i] \in ToolType
      /\ tools = [i \in 1..Len(tools) |-> tools[i]]
  BY ToolsShape
<1>2. \A i \in 1..Len(tools) :
        /\ next[i] \in ToolType
        /\ next[i].mimicable = tools[i].mimicable /\ next[i].name = tools[i].name
        /\ next[i].cache = IF i = Len(tools) THEN WithTTL(tools[i].cache) ELSE tools[i].cache
  <2> SUFFICES ASSUME NEW i \in 1..Len(tools)
               PROVE  /\ next[i] \in ToolType
                      /\ next[i].mimicable = tools[i].mimicable /\ next[i].name = tools[i].name
                      /\ next[i].cache = IF i = Len(tools) THEN WithTTL(tools[i].cache)
                                         ELSE tools[i].cache
    OBVIOUS
  <2>1. tools # << >>
    BY <1>1
  <2>2. next = [tools EXCEPT ![Len(tools)].cache = WithTTL(@)]
    BY <2>1 DEF applyToolsLastCacheBreakpoint
  <2>3. CASE i # Len(tools)
    BY <1>1, <2>2, <2>3
  <2>4. CASE i = Len(tools)
    <3>1. next[i] = [tools[i] EXCEPT !.cache = WithTTL(tools[i].cache)]
      BY <1>1, <2>2, <2>4
    <3>2. tools[i] \in [name : Names, mimicable : BOOLEAN, cache : Caches_]
      BY <1>1 DEF ToolType
    <3>3. WithTTL(tools[i].cache) \in Caches_
      BY <3>2 DEF WithTTL
    <3>4. /\ next[i] \in [name : Names, mimicable : BOOLEAN, cache : Caches_]
          /\ next[i].mimicable = tools[i].mimicable /\ next[i].name = tools[i].name
          /\ next[i].cache = WithTTL(tools[i].cache)
      BY <3>1, <3>2, <3>3
    <3> QED BY <2>4, <3>4 DEF ToolType
  <2> QED BY <2>3, <2>4
<1>3. next \in [1..Len(tools) -> ToolType]
  <2>1. DOMAIN next = 1..Len(tools) /\ next = [i \in DOMAIN next |-> next[i]]
    <3>1. CASE tools = << >>
      BY <1>1, <3>1 DEF applyToolsLastCacheBreakpoint
    <3>2. CASE tools # << >>
      <4>1. next = [tools EXCEPT ![Len(tools)].cache = WithTTL(@)]
        BY <3>2 DEF applyToolsLastCacheBreakpoint
      <4> QED BY <1>1, <4>1
    <3> QED BY <3>1, <3>2
  <2> HIDE DEF next
  <2> QED BY <1>2, <2>1
<1> HIDE DEF next
<1>4. next \in Seq(ToolType) /\ Len(next) = Len(tools)
  <2>1. next \in Seq(ToolType)
    BY <1>1, <1>3, IsASeq
  <2> QED BY <1>1, <1>3, <2>1, LenProperties
<1>5. SamePlaces(next, tools) /\ SameNames(next, tools)
  BY <1>2, <1>4 DEF SamePlaces, SameNames
<1> QED BY <1>2, <1>4, <1>5 DEF next

(* Renaming and breakpoint together, each under its toggle.                *)
LEMMA MimicToolsShape ==
  ASSUME NEW tools \in Seq(ToolType), MimicableNames(tools) \in ToolLists, NEW on
  PROVE  LET next == mimicTools(tools, on) IN
         /\ next \in Seq(ToolType) /\ SamePlaces(next, tools)
         /\ MimicableNames(next) \in ToolLists
         /\ \A i \in 1..Len(tools) :
              next[i].cache = IF "cache_breakpoints" \in on /\ i = Len(tools)
                              THEN WithTTL(tools[i].cache) ELSE tools[i].cache
         /\ "obfuscate_tool_names" \notin on \/ Renamed(MimicableNames(tools), TRUE) = {}
              => SameNames(next, tools)
         /\ "obfuscate_tool_names" \in on \/ Done(tools) => Done(next)
<1> DEFINE named == IF "obfuscate_tool_names" \in on THEN RenamedTools(tools, TRUE) ELSE tools
           next  == mimicTools(tools, on)
<1>1. /\ Len(tools) \in Nat
      /\ \A i \in 1..Len(tools) : tools[i] \in ToolType
  BY ToolsShape
<1>2. /\ named \in Seq(ToolType) /\ SamePlaces(named, tools) /\ SameCaches(named, tools)
      /\ MimicableNames(named) \in ToolLists
      /\ "obfuscate_tool_names" \notin on \/ Renamed(MimicableNames(tools), TRUE) = {}
           => SameNames(named, tools)
      /\ "obfuscate_tool_names" \in on \/ Done(tools) => Done(named)
  <2>1. CASE "obfuscate_tool_names" \in on
    <3>1. /\ RenamedTools(tools, TRUE) \in Seq(ToolType)
          /\ SamePlaces(RenamedTools(tools, TRUE), tools)
          /\ SameCaches(RenamedTools(tools, TRUE), tools)
          /\ MimicableNames(RenamedTools(tools, TRUE)) \in ToolLists
          /\ Done(RenamedTools(tools, TRUE))
          /\ Renamed(MimicableNames(tools), TRUE) = {}
               => SameNames(RenamedTools(tools, TRUE), tools)
      BY RenamedToolsShape
    <3>2. named = RenamedTools(tools, TRUE)
      BY <2>1
    <3> HIDE DEF named
    <3> QED BY <2>1, <3>1, <3>2
  <2>2. CASE "obfuscate_tool_names" \notin on
    <3>1. named = tools
      BY <2>2
    <3> HIDE DEF named
    <3> QED BY <2>2, <3>1 DEF SamePlaces, SameNames, SameCaches
  <2> QED BY <2>1, <2>2
<1>3. next = IF "cache_breakpoints" \in on THEN applyToolsLastCacheBreakpoint(named) ELSE named
  BY DEF mimicTools
<1> HIDE DEF named, next
<1>4. Len(named) = Len(tools)
  BY <1>2 DEF SamePlaces
<1>5. /\ next \in Seq(ToolType) /\ SamePlaces(next, named) /\ SameNames(next, named)
      /\ \A i \in 1..Len(tools) :
           next[i].cache = IF "cache_breakpoints" \in on /\ i = Len(tools)
                           THEN WithTTL(named[i].cache) ELSE named[i].cache
  <2>1. CASE "cache_breakpoints" \in on
    <3>1. /\ applyToolsLastCacheBreakpoint(named) \in Seq(ToolType)
          /\ SamePlaces(applyToolsLastCacheBreakpoint(named), named)
          /\ SameNames(applyToolsLastCacheBreakpoint(named), named)
          /\ \A i \in 1..Len(named) :
               applyToolsLastCacheBreakpoint(named)[i].cache =
                 IF i = Len(named) THEN WithTTL(named[i].cache) ELSE named[i].cache
      BY <1>2, BreakpointShape
    <3> QED BY <1>3, <1>4, <2>1, <3>1
  <2>2. CASE "cache_breakpoints" \notin on
    BY <1>2, <1>3, <2>2 DEF SamePlaces, SameNames
  <2> QED BY <2>1, <2>2
<1>6. MimicableNames(next) = MimicableNames(named)
  <2>1. Mimicable(next) = Mimicable(named)
    BY <1>2, <1>5, SameMimicable
  <2>2. \A i \in Mimicable(named) : next[i].name = named[i].name
    <3>1. DOMAIN named = 1..Len(named)
      BY <1>2, ToolsShape
    <3> QED BY <1>5, <3>1 DEF SameNames, Mimicable
  <2> QED BY <1>2, <1>5, <2>1, <2>2, ListsAgree
<1>7. SamePlaces(next, tools)
  BY <1>2, <1>4, <1>5 DEF SamePlaces
<1>8. \A i \in 1..Len(tools) :
        next[i].cache = IF "cache_breakpoints" \in on /\ i = Len(tools)
                        THEN WithTTL(tools[i].cache) ELSE tools[i].cache
  BY <1>2, <1>5 DEF SameCaches
<1>9. "obfuscate_tool_names" \notin on \/ Renamed(MimicableNames(tools), TRUE) = {}
        => SameNames(next, tools)
  BY <1>2, <1>4, <1>5 DEF SameNames
<1>10. "obfuscate_tool_names" \in on \/ Done(tools) => Done(next)
  BY <1>2, <1>6 DEF Done
<1> QED BY <1>2, <1>5, <1>6, <1>7, <1>8, <1>9, <1>10 DEF next

-----------------------------------------------------------------------------
(* The system prompt and the messages after the hook are what they have to *)
(* be, and without inject_system_prompt they are the ones that came.       *)
LEMMA InjectedShape ==
  ASSUME NEW b \in BodyType, b.messages # Missing, NEW surface \in Surfaces
  PROVE  LET next == rewriteSystemForClaudeCode(b, surface) IN
         /\ next \in BodyType /\ next.messages # Missing
         /\ next.tools = b.tools /\ next.thinking = b.thinking
         /\ next.temperature = b.temperature /\ next.max_tokens = b.max_tokens
         /\ next.context_management = b.context_management
<1> DEFINE next == rewriteSystemForClaudeCode(b, surface)
           text == extractSystemText(b.system)
           head == <<[role |-> "user", text |-> text],
                     [role |-> "assistant", text |-> <<Acknowledgement>>]>>
<1>1. b \in [system : Seq(TextType), messages : Seq(TurnType) \cup {Missing},
             temperature : Fields, max_tokens : Fields, context_management : Fields,
             thinking : {"absent", "disabled", "enabled", "adaptive"},
             tools : Seq(ToolType)]
  BY DEF BodyType
<1>2. text \in Seq(TextType)
  <2>1. b.system \in Seq(TextType)
    BY <1>1
  <2>2. {i \in DOMAIN b.system : b.system[i].kind # "blank"} \in SUBSET (DOMAIN b.system)
    OBVIOUS
  <2> QED BY <2>1, <2>2, PickedType DEF extractSystemText
<1>3. buildClaudeCodeSystemBlocks(surface) \in Seq(TextType)
  <2>2. Billing(surface) \in TextType /\ AgentIdentifier(surface) \in TextType
    BY DEF Billing, AgentIdentifier, TextType
  <2>3. SharedSystemIntro \in TextType
    BY DEF SharedSystemIntro, TextType
  <2> QED BY <2>2, <2>3 DEF buildClaudeCodeSystemBlocks
<1>4. head \in Seq(TurnType)
  <2>1. Acknowledgement \in TextType
    BY DEF Acknowledgement, TextType
  <2>2. <<Acknowledgement>> \in Seq(TextType)
    BY <2>1
  <2> HIDE DEF text
  <2>3. /\ [role |-> "user", text |-> text] \in TurnType
        /\ [role |-> "assistant", text |-> <<Acknowledgement>>] \in TurnType
    BY <1>2, <2>2 DEF TurnType
  <2> QED BY <2>3
<1>5. b.messages \in Seq(TurnType) /\ Missing \notin Seq(TurnType)
  BY <1>1, BodiesAssumption
<1>6. head \o b.messages \in Seq(TurnType)
  BY <1>4, <1>5, ConcatProperties
<1>7. \/ next = b
      \/ \E m \in Seq(TurnType) :
           next = [b EXCEPT !.system = buildClaudeCodeSystemBlocks(surface), !.messages = m]
  <2>1. CASE hasClaudeCodePrefix(text, surface)
    BY <2>1 DEF rewriteSystemForClaudeCode
  <2>2. CASE ~hasClaudeCodePrefix(text, surface)
    <3> DEFINE m == IF text = << >> THEN b.messages ELSE head \o b.messages
    <3>1. m \in Seq(TurnType)
      <4> HIDE DEF head, text
      <4> QED BY <1>5, <1>6
    <3>2. next = [b EXCEPT !.system = buildClaudeCodeSystemBlocks(surface), !.messages = m]
      BY <2>2 DEF rewriteSystemForClaudeCode, prependSystemAsMessages
    <3> QED BY <3>1, <3>2
  <2> QED BY <2>1, <2>2
<1> HIDE DEF next
<1>8. CASE next = b
  BY <1>1, <1>8 DEF next
<1>9. CASE \E m \in Seq(TurnType) :
             next = [b EXCEPT !.system = buildClaudeCodeSystemBlocks(surface), !.messages = m]
  <2>1. PICK m \in Seq(TurnType) :
          next = [b EXCEPT !.system = buildClaudeCodeSystemBlocks(surface), !.messages = m]
    BY <1>9
  <2>2. /\ next \in BodyType /\ next.messages = m
        /\ next.tools = b.tools /\ next.thinking = b.thinking
        /\ next.temperature = b.temperature /\ next.max_tokens = b.max_tokens
        /\ next.context_management = b.context_management
    BY <1>1, <1>3, <2>1 DEF BodyType
  <2>3. next.messages # Missing
    BY <1>5, <2>2
  <2> QED BY <2>2, <2>3 DEF next
<1> QED BY <1>7, <1>8, <1>9

Thinks(b) == b.thinking \in {"enabled", "adaptive"}

(* The body after the hook, field by field.                                *)
LEMMA BodyAfter ==
  ASSUME NEW b \in BodyType, b.messages # Missing, MimicableNames(b.tools) \in ToolLists,
         NEW cfg \in ConfigType, NEW enabled \in BOOLEAN
  PROVE  LET next == stripContextManagementIfUnsupported(
                       applyRequestMimicry(b, cfg, enabled), enabled)
             fill == "fill_fingerprint" \in cfg.on
         IN  /\ next \in BodyType /\ next.messages # Missing
             /\ next.tools = mimicTools(b.tools, cfg.on)
             /\ next.thinking = b.thinking
             /\ next.temperature = IF fill THEN Filled(b.temperature) ELSE b.temperature
             /\ next.max_tokens = IF fill THEN Filled(b.max_tokens) ELSE b.max_tokens
             /\ next.context_management =
                  IF ~enabled THEN "absent"
                  ELSE IF fill /\ Thinks(b) THEN Filled(b.context_management)
                  ELSE b.context_management
             /\ "inject_system_prompt" \notin cfg.on =>
                  next.system = b.system /\ next.messages = b.messages
             /\ "inject_system_prompt" \in cfg.on =>
                  /\ next.system = rewriteSystemForClaudeCode(b, cfg.surface).system
                  /\ next.messages = rewriteSystemForClaudeCode(b, cfg.surface).messages
<1> DEFINE fill     == "fill_fingerprint" \in cfg.on
           injected == IF "inject_system_prompt" \in cfg.on
                       THEN rewriteSystemForClaudeCode(b, cfg.surface) ELSE b
           filled   == IF fill THEN fillRequestFingerprint(injected, enabled) ELSE injected
           mimicked == applyRequestMimicry(b, cfg, enabled)
           next     == stripContextManagementIfUnsupported(mimicked, enabled)
           Recs     == [system : Seq(TextType), messages : Seq(TurnType) \cup {Missing},
                        temperature : Fields, max_tokens : Fields, context_management : Fields,
                        thinking : {"absent", "disabled", "enabled", "adaptive"},
                        tools : Seq(ToolType)]
<1>1. BodyType = Recs
  BY DEF BodyType
<1>2. /\ injected \in Recs /\ injected.messages # Missing
      /\ injected.tools = b.tools /\ injected.thinking = b.thinking
      /\ injected.temperature = b.temperature /\ injected.max_tokens = b.max_tokens
      /\ injected.context_management = b.context_management
      /\ "inject_system_prompt" \notin cfg.on => injected = b
      /\ "inject_system_prompt" \in cfg.on => injected = rewriteSystemForClaudeCode(b, cfg.surface)
  <2>1. cfg.surface \in Surfaces
    BY DEF ConfigType
  <2>2. /\ rewriteSystemForClaudeCode(b, cfg.surface) \in BodyType
        /\ rewriteSystemForClaudeCode(b, cfg.surface).messages # Missing
        /\ rewriteSystemForClaudeCode(b, cfg.surface).tools = b.tools
        /\ rewriteSystemForClaudeCode(b, cfg.surface).thinking = b.thinking
        /\ rewriteSystemForClaudeCode(b, cfg.surface).temperature = b.temperature
        /\ rewriteSystemForClaudeCode(b, cfg.surface).max_tokens = b.max_tokens
        /\ rewriteSystemForClaudeCode(b, cfg.surface).context_management = b.context_management
    BY <2>1, InjectedShape
  <2> HIDE DEF Recs
  <2>3. CASE "inject_system_prompt" \in cfg.on
    BY <1>1, <2>2, <2>3
  <2>4. CASE "inject_system_prompt" \notin cfg.on
    BY <1>1, <2>4
  <2> QED BY <2>3, <2>4
<1> HIDE DEF injected
<1>3. \A f \in Fields : Filled(f) \in Fields
  BY DEF Filled, Fields
<1>4. /\ filled \in Recs
      /\ filled.system = injected.system /\ filled.messages = injected.messages
      /\ filled.tools = b.tools /\ filled.thinking = b.thinking
      /\ filled.temperature = IF fill THEN Filled(b.temperature) ELSE b.temperature
      /\ filled.max_tokens = IF fill THEN Filled(b.max_tokens) ELSE b.max_tokens
      /\ filled.context_management =
           IF fill /\ enabled /\ Thinks(b) THEN Filled(b.context_management)
           ELSE b.context_management
  <2>1. CASE ~fill
    BY <1>2, <2>1
  <2>2. CASE fill
    <3> DEFINE context == IF enabled /\ injected.thinking \in {"enabled", "adaptive"}
                          THEN Filled(injected.context_management)
                          ELSE injected.context_management
    <3>1. filled = [injected EXCEPT !.temperature = Filled(injected.temperature),
                                    !.max_tokens = Filled(injected.max_tokens),
                                    !.context_management = context]
      BY <2>2 DEF fillRequestFingerprint
    <3>2. /\ Filled(injected.temperature) \in Fields /\ Filled(injected.max_tokens) \in Fields
          /\ context \in Fields
      BY <1>2, <1>3
    <3>3. context = IF enabled /\ Thinks(b) THEN Filled(b.context_management)
                    ELSE b.context_management
      BY <1>2 DEF Thinks
    <3> HIDE DEF context, filled
    <3>4. /\ filled \in Recs
          /\ filled.system = injected.system /\ filled.messages = injected.messages
          /\ filled.tools = injected.tools /\ filled.thinking = injected.thinking
          /\ filled.temperature = Filled(injected.temperature)
          /\ filled.max_tokens = Filled(injected.max_tokens)
          /\ filled.context_management = context
      BY <1>2, <3>1, <3>2
    <3> QED BY <1>2, <2>2, <3>3, <3>4
  <2> QED BY <2>1, <2>2
<1>5. mimicked = [filled EXCEPT !.tools = mimicTools(filled.tools, cfg.on)]
  BY DEF applyRequestMimicry, injected
<1> HIDE DEF filled, mimicked
<1>6. mimicTools(b.tools, cfg.on) \in Seq(ToolType)
  <2>1. b.tools \in Seq(ToolType)
    BY <1>1
  <2> QED BY <2>1, MimicToolsShape
<1>7. /\ mimicked \in Recs /\ mimicked.tools = mimicTools(b.tools, cfg.on)
      /\ mimicked.system = filled.system /\ mimicked.messages = filled.messages
      /\ mimicked.thinking = filled.thinking
      /\ mimicked.temperature = filled.temperature /\ mimicked.max_tokens = filled.max_tokens
      /\ mimicked.context_management = filled.context_management
  BY <1>4, <1>5, <1>6
<1>8. /\ next \in Recs /\ next.tools = mimicked.tools
      /\ next.system = mimicked.system /\ next.messages = mimicked.messages
      /\ next.thinking = mimicked.thinking
      /\ next.temperature = mimicked.temperature /\ next.max_tokens = mimicked.max_tokens
      /\ next.context_management = IF enabled THEN mimicked.context_management ELSE "absent"
  <2>1. CASE enabled
    BY <1>7, <2>1 DEF stripContextManagementIfUnsupported
  <2>2. CASE ~enabled
    <3>1. next = [mimicked EXCEPT !.context_management = "absent"]
      BY <2>2 DEF stripContextManagementIfUnsupported
    <3>2. "absent" \in Fields
      BY DEF Fields
    <3> HIDE DEF next
    <3> QED BY <1>7, <2>2, <3>1, <3>2
  <2> QED BY <2>1, <2>2
<1> HIDE DEF next, Recs, fill
<1>9. next \in BodyType /\ next.messages # Missing
  BY <1>1, <1>2, <1>4, <1>7, <1>8
<1>10. /\ next.tools = mimicTools(b.tools, cfg.on) /\ next.thinking = b.thinking
       /\ next.temperature = IF fill THEN Filled(b.temperature) ELSE b.temperature
       /\ next.max_tokens = IF fill THEN Filled(b.max_tokens) ELSE b.max_tokens
  BY <1>4, <1>7, <1>8
<1>11. next.context_management =
         IF ~enabled THEN "absent"
         ELSE IF fill /\ Thinks(b) THEN Filled(b.context_management)
         ELSE b.context_management
  BY <1>4, <1>7, <1>8
<1>12. "inject_system_prompt" \notin cfg.on =>
         next.system = b.system /\ next.messages = b.messages
  BY <1>2, <1>4, <1>7, <1>8
<1>13. "inject_system_prompt" \in cfg.on =>
         /\ next.system = rewriteSystemForClaudeCode(b, cfg.surface).system
         /\ next.messages = rewriteSystemForClaudeCode(b, cfg.surface).messages
  BY <1>2, <1>4, <1>7, <1>8
<1> QED BY <1>9, <1>10, <1>11, <1>12, <1>13 DEF next, mimicked, fill

-----------------------------------------------------------------------------
\* The blocks of a text that are the client's own.
Telling == {"client", "legacy", "turn"}

TellingOf(text) == {i \in DOMAIN text : text[i].kind \in Telling}

(* The instructions that are moved into the messages say what the system   *)
(* said: only blank blocks are left out.                                   *)
LEMMA ToldAgain ==
  ASSUME NEW system \in Seq(TextType)
  PROVE  Told(extractSystemText(system)) = Told(system)
<1> DEFINE N    == Len(system)
           said == {i \in DOMAIN system : system[i].kind # "blank"}
           text == extractSystemText(system)
           c    == Cardinality(said)
           P    == TellingOf(text)
           Q    == TellingOf(system)
           g    == [k \in P |-> Place(said, k)]
<1>1. N \in Nat /\ DOMAIN system = 1..N
  BY LenProperties
<1>2. said \in SUBSET (1..N)
  BY <1>1
<1>3. text = Picked(system, said)
  BY DEF extractSystemText
<1>4. Q \in SUBSET said /\ \A i \in said : system[i].kind \in Telling => i \in Q
  BY DEF TellingOf, Telling
<1> HIDE DEF N, said, text
<1>5. /\ c \in 0..N /\ DOMAIN text = 1..c
      /\ \A k \in 1..c : Place(said, k) \in said /\ text[k] = system[Place(said, k)]
      /\ \A i \in said : \E k \in 1..c : Place(said, k) = i
  BY <1>1, <1>2, <1>3, PickedShape
<1>6. \A k, l \in 1..c : k < l => Place(said, k) < Place(said, l)
  BY <1>1, <1>2, PlaceShape
<1>7. P \in SUBSET (1..c) /\ \A k \in 1..c : k \in P <=> text[k].kind \in Telling
  BY <1>5 DEF TellingOf
<1> HIDE DEF c, P, Q
<1>8. \A k \in P : Place(said, k) \in Q
  <2>1. \A k \in P : Place(said, k) \in said /\ system[Place(said, k)].kind \in Telling
    BY <1>5, <1>7
  <2> QED BY <1>4, <2>1
<1>9. g \in [P -> Q]
  BY <1>8
<1>10. \A q \in Q : \E k \in P : g[k] = q
  <2> SUFFICES ASSUME NEW q \in Q PROVE \E k \in P : g[k] = q
    OBVIOUS
  <2>1. q \in said /\ system[q].kind \in Telling
    BY <1>4 DEF Q, TellingOf
  <2>2. PICK k \in 1..c : Place(said, k) = q
    BY <1>5, <2>1
  <2>3. k \in P
    BY <1>5, <1>7, <2>1, <2>2
  <2> QED BY <2>2, <2>3
<1>11. \A k, l \in P : k < l => g[k] < g[l]
  BY <1>6, <1>7
<1>12. \A k \in P : system[g[k]] = text[k]
  BY <1>5, <1>7
<1>13. c \in Nat /\ Q \in SUBSET (1..N)
  BY <1>1, <1>2, <1>4, <1>5
<1> HIDE DEF g
<1>14. Picked(system, Q) = Picked(text, P)
  <2>1. N \in Nat /\ c \in Nat /\ P \in SUBSET (1..c) /\ Q \in SUBSET (1..N)
    BY <1>1, <1>7, <1>13
  <2>2. Along(g, text, P, system, Q)
    BY <2>1, <1>9, <1>10, <1>11, <1>12 DEF Along
  <2> QED BY <2>2, PickedAlong
<1> QED BY <1>14 DEF Told, P, Q, text, TellingOf, Telling

LEMMA PickedNothing ==
  ASSUME NEW s
  PROVE  Picked(s, {}) = << >>
<1>1. Cardinality({}) = 0
  BY FS_EmptySet
<1>2. Picked(s, {}) = [k \in 1..0 |-> s[Place({}, k)]]
  BY <1>1 DEF Picked
<1>3. 1..0 = {}
  OBVIOUS
<1>4. [k \in 1..0 |-> s[Place({}, k)]] = << >>
  BY <1>3
<1> QED BY <1>2, <1>4

LEMMA NothingTold ==
  ASSUME NEW text, TellingOf(text) = {}
  PROVE  Told(text) = << >>
BY PickedNothing DEF Told, TellingOf, Telling

-----------------------------------------------------------------------------
\* The members of a sequence that are not empty.
NonEmpty(s) == Picked(s, {i \in DOMAIN s : s[i] # << >>})

(* What is picked does not change when empty members come in between.      *)
LEMMA MovedDown ==
  ASSUME NEW n \in Nat, NEW A, NEW B, DOMAIN A = 1..(n + 3), DOMAIN B = 1..(n + 1),
         A[1] = << >>, A[3] = << >>, A[2] = B[1],
         \A i \in 1..n : A[i + 3] = B[i + 1]
  PROVE  NonEmpty(A) = NonEmpty(B)
<1> DEFINE P == {i \in DOMAIN B : B[i] # << >>}
           Q == {i \in DOMAIN A : A[i] # << >>}
           to(i) == IF i = 1 THEN 2 ELSE i + 2
           g == [i \in P |-> to(i)]
<1>1. P \in SUBSET (1..(n + 1)) /\ Q \in SUBSET (1..(n + 3))
  OBVIOUS
<1>2. \A i \in 1..(n + 1) : to(i) \in 1..(n + 3) /\ A[to(i)] = B[i]
  <2> SUFFICES ASSUME NEW i \in 1..(n + 1)
               PROVE  to(i) \in 1..(n + 3) /\ A[to(i)] = B[i]
    OBVIOUS
  <2>1. CASE i = 1
    <3>1. to(i) = 2 /\ 2 \in 1..(n + 3)
      BY <2>1
    <3> QED BY <2>1, <3>1
  <2>2. CASE i # 1
    <3>1. i - 1 \in 1..n /\ (i - 1) + 3 = i + 2 /\ (i - 1) + 1 = i /\ i + 2 \in 1..(n + 3)
      BY <2>2
    <3>2. A[i + 2] = B[i]
      BY <3>1
    <3>3. to(i) = i + 2
      BY <2>2
    <3> HIDE DEF to
    <3> QED BY <3>1, <3>2, <3>3
  <2> QED BY <2>1, <2>2
<1>3. \A i \in P : to(i) \in Q /\ A[to(i)] = B[i]
  <2> HIDE DEF to
  <2> QED BY <1>2
<1>4. \A q \in Q : \E i \in P : to(i) = q
  <2> SUFFICES ASSUME NEW q \in Q PROVE \E i \in P : to(i) = q
    OBVIOUS
  <2>1. q \in 1..(n + 3) /\ A[q] # << >> /\ q # 1 /\ q # 3
    OBVIOUS
  <2>2. CASE q = 2
    <3>1. 1 \in 1..(n + 1) /\ B[1] # << >>
      BY <2>1, <2>2
    <3>2. to(1) = 2 /\ 1 \in P
      BY <3>1
    <3> HIDE DEF to, P
    <3> QED BY <2>2, <3>2
  <2>3. CASE q # 2
    <3>1. q - 2 \in 1..(n + 1) /\ q - 2 # 1 /\ (q - 2) + 2 = q
      BY <2>1, <2>3
    <3>2. to(q - 2) = q
      BY <3>1
    <3>3. B[q - 2] # << >>
      <4> HIDE DEF to
      <4> QED BY <1>2, <2>1, <3>1, <3>2
    <3>4. q - 2 \in P
      BY <3>1, <3>3
    <3> HIDE DEF to, P
    <3> QED BY <3>2, <3>4
  <2> QED BY <2>2, <2>3
<1>5. \A i, j \in 1..(n + 1) : i < j => to(i) < to(j)
  OBVIOUS
<1> HIDE DEF P, Q, to
<1>6. g \in [P -> Q] /\ \A i \in P : g[i] = to(i)
  BY <1>3
<1> HIDE DEF g
<1>7. /\ \A q \in Q : \E i \in P : g[i] = q
      /\ \A i, j \in P : i < j => g[i] < g[j]
      /\ \A i \in P : A[g[i]] = B[i]
  BY <1>1, <1>3, <1>4, <1>5, <1>6
<1>8. n + 1 \in Nat /\ n + 3 \in Nat
  OBVIOUS
<1>9. Picked(A, Q) = Picked(B, P)
  <2> DEFINE k == n + 1
             m == n + 3
  <2>1. k \in Nat /\ m \in Nat /\ P \in SUBSET (1..k) /\ Q \in SUBSET (1..m)
    BY <1>1, <1>8
  <2>2. /\ \A q \in Q : \E i \in P : g[i] = q
        /\ \A i, j \in P : i < j => g[i] < g[j]
        /\ \A i \in P : A[g[i]] = B[i]
    BY <1>7
  <2> HIDE DEF k, m
  <2>3. Along(g, B, P, A, Q)
    BY <1>6, <2>1, <2>2 DEF Along
  <2> QED BY <2>3, PickedAlong
<1> QED BY <1>9 DEF P, Q, NonEmpty

\* What each section of a body says.
ToldSections(b) == [i \in DOMAIN Sections(b) |-> Told(Sections(b)[i])]

LEMMA SectionsShape ==
  ASSUME NEW b, b.messages \in Seq(TurnType), b.messages # Missing
  PROVE  /\ Len(b.messages) \in Nat
         /\ DOMAIN ToldSections(b) = 1..(Len(b.messages) + 1)
         /\ ToldSections(b)[1] = Told(b.system)
         /\ \A i \in 1..Len(b.messages) :
              ToldSections(b)[i + 1] = Told(b.messages[i].text)
<1> DEFINE n     == Len(b.messages)
           texts == [i \in DOMAIN b.messages |-> b.messages[i].text]
           S     == {b.system} \cup {b.messages[i].text : i \in DOMAIN b.messages}
<1>1. n \in Nat /\ DOMAIN b.messages = 1..n
  BY LenProperties
<1>2. texts \in Seq(S) /\ Len(texts) = n /\ \A i \in 1..n : texts[i] = b.messages[i].text
  <2>1. texts \in [1..n -> S]
    BY <1>1
  <2>2. \A i \in 1..n : texts[i] = b.messages[i].text
    BY <1>1
  <2> HIDE DEF texts, S, n
  <2>3. texts \in Seq(S)
    BY <1>1, <2>1, IsASeq
  <2> QED BY <1>1, <2>1, <2>2, <2>3, LenProperties
<1>3. Sections(b) = <<b.system>> \o texts
  BY DEF Sections
<1>4. <<b.system>> \in Seq(S) /\ Len(<<b.system>>) = 1 /\ <<b.system>>[1] = b.system
  BY DEF S
<1> HIDE DEF texts, S, n
<1>5. /\ Sections(b) \in Seq(S) /\ Len(Sections(b)) = 1 + n
      /\ \A i \in 1..(1 + n) : Sections(b)[i] = IF i <= 1 THEN <<b.system>>[i] ELSE texts[i - 1]
  BY <1>1, <1>2, <1>3, <1>4, ConcatProperties
<1>6. DOMAIN Sections(b) = 1..(n + 1)
  BY <1>1, <1>5, LenProperties
<1>7. Sections(b)[1] = b.system
  BY <1>1, <1>4, <1>5
<1>8. \A i \in 1..n : Sections(b)[i + 1] = b.messages[i].text
  <2> SUFFICES ASSUME NEW i \in 1..n PROVE Sections(b)[i + 1] = b.messages[i].text
    OBVIOUS
  <2>1. i + 1 \in 1..(1 + n) /\ ~(i + 1 <= 1) /\ (i + 1) - 1 = i
    BY <1>1
  <2> QED BY <1>2, <1>5, <2>1
<1>9. 1 \in 1..(n + 1) /\ \A i \in 1..n : i + 1 \in 1..(n + 1)
  BY <1>1
<1> QED BY <1>1, <1>6, <1>7, <1>8, <1>9 DEF ToldSections, n

(* Only the system and the messages of a body are read.                    *)
LEMMA SameReading ==
  ASSUME NEW a, NEW b, a.system = b.system, a.messages = b.messages
  PROVE  Reading(a) = Reading(b)
BY DEF Reading, Sections

LEMMA ReadingShape ==
  ASSUME NEW b
  PROVE  Reading(b) = NonEmpty(ToldSections(b))
BY DEF Reading, ToldSections, NonEmpty

(* Two messages in front of a conversation leave the turns alternating.    *)
LEMMA PairInFront ==
  ASSUME NEW first \in TurnType, NEW second \in TurnType, NEW messages \in Seq(TurnType),
         first.role = "user", second.role = "assistant"
  PROVE  LET new == <<first, second>> \o messages IN
         /\ Len(messages) \in Nat /\ new \in Seq(TurnType)
         /\ Len(new) = Len(messages) + 2
         /\ new[1] = first /\ new[2] = second
         /\ \A i \in 1..Len(messages) : new[i + 2] = messages[i]
         /\ messages # Missing /\ Alternates(messages) => Alternates(new)
<1> DEFINE n   == Len(messages)
           new == <<first, second>> \o messages
<1>1. n \in Nat /\ DOMAIN messages = 1..n
  BY LenProperties
<1>2. /\ <<first, second>> \in Seq(TurnType) /\ Len(<<first, second>>) = 2
      /\ <<first, second>>[1] = first /\ <<first, second>>[2] = second
  OBVIOUS
<1>3. /\ new \in Seq(TurnType) /\ Len(new) = 2 + n
      /\ \A i \in 1..(2 + n) : new[i] = IF i <= 2 THEN <<first, second>>[i]
                                        ELSE messages[i - 2]
  BY <1>2, ConcatProperties
<1> HIDE DEF new, n
<1>4. Len(new) = n + 2 /\ DOMAIN new = 1..(n + 2)
  BY <1>1, <1>3, LenProperties
<1>5. new[1] = first /\ new[2] = second
  <2>1. 1 \in 1..(2 + n) /\ 2 \in 1..(2 + n) /\ 1 <= 2 /\ 2 <= 2
    BY <1>1
  <2> QED BY <1>2, <1>3, <2>1
<1>6. \A i \in 1..(n + 2) : i > 2 => i - 2 \in 1..n /\ new[i] = messages[i - 2]
  <2> SUFFICES ASSUME NEW i \in 1..(n + 2), i > 2
               PROVE  i - 2 \in 1..n /\ new[i] = messages[i - 2]
    OBVIOUS
  <2>1. i - 2 \in 1..n /\ i \in 1..(2 + n) /\ ~(i <= 2)
    BY <1>1
  <2> QED BY <1>3, <2>1
<1>7. \A i \in 1..n : new[i + 2] = messages[i]
  <2> SUFFICES ASSUME NEW i \in 1..n PROVE new[i + 2] = messages[i]
    OBVIOUS
  <2>1. i + 2 \in 1..(n + 2) /\ i + 2 > 2 /\ (i + 2) - 2 = i
    BY <1>1
  <2> QED BY <1>6, <2>1
<1>8. ASSUME messages # Missing, Alternates(messages)
      PROVE  Alternates(new)
  <2> SUFFICES ASSUME NEW i \in 1..(n + 2)
               PROVE  new[i].role = IF i % 2 = 1 THEN "user" ELSE "assistant"
    BY <1>4 DEF Alternates
  <2>1. CASE i = 1
    <3>1. 1 % 2 = 1
      OBVIOUS
    <3> QED BY <1>5, <2>1, <3>1
  <2>2. CASE i = 2
    <3>1. 2 % 2 # 1
      OBVIOUS
    <3> QED BY <1>5, <2>2, <3>1
  <2>3. CASE i > 2
    <3>1. i - 2 \in 1..n /\ new[i] = messages[i - 2]
      BY <1>6, <2>3
    <3>2. messages[i - 2].role = IF (i - 2) % 2 = 1 THEN "user" ELSE "assistant"
      BY <1>1, <1>8, <3>1 DEF Alternates
    <3>3. (i - 2) % 2 = i % 2
      <4>1. i \in Int
        BY <1>1
      <4> QED BY <4>1
    <3> QED BY <3>1, <3>2, <3>3
  <2>4. i \in Int
    BY <1>1
  <2>5. i = 1 \/ i = 2 \/ i > 2
    BY <1>1
  <2> QED BY <2>1, <2>2, <2>3, <2>5
<1> QED BY <1>1, <1>3, <1>4, <1>5, <1>7, <1>8 DEF new, n

(* The stage that replaces the system says nothing twice and leaves        *)
(* nothing out.                                                            *)
LEMMA RewriteKeeps ==
  ASSUME NEW b \in BodyType, b.messages # Missing, NEW surface \in Surfaces
  PROVE  LET next == rewriteSystemForClaudeCode(b, surface) IN
         /\ Reading(next) = Reading(b)
         /\ Alternates(b.messages) => Alternates(next.messages)
<1> DEFINE next   == rewriteSystemForClaudeCode(b, surface)
           text   == extractSystemText(b.system)
           blocks == buildClaudeCodeSystemBlocks(surface)
           n      == Len(b.messages)
<1>1. /\ b.system \in Seq(TextType) /\ b.messages \in Seq(TurnType) /\ text \in Seq(TextType)
      /\ n \in Nat
      /\ "system" \in DOMAIN b /\ "messages" \in DOMAIN b
  <2>1. b.system \in Seq(TextType) /\ b.messages \in Seq(TurnType)
        /\ "system" \in DOMAIN b /\ "messages" \in DOMAIN b
    BY DEF BodyType
  <2>2. {i \in DOMAIN b.system : b.system[i].kind # "blank"} \in SUBSET (DOMAIN b.system)
    OBVIOUS
  <2> QED BY <2>1, <2>2, PickedType, LenProperties DEF extractSystemText
<1>2. Told(text) = Told(b.system)
  BY <1>1, ToldAgain
<1>3. Told(blocks) = << >>
  <2>1. TellingOf(blocks) = {}
    <3>1. /\ DOMAIN blocks = 1..3
          /\ blocks[1].kind = "billing" /\ blocks[2].kind = "agent" /\ blocks[3].kind = "intro"
      BY DEF buildClaudeCodeSystemBlocks, Billing, AgentIdentifier, SharedSystemIntro
    <3>2. \A i \in 1..3 : i = 1 \/ i = 2 \/ i = 3
      OBVIOUS
    <3> HIDE DEF blocks
    <3> QED BY <3>1, <3>2 DEF TellingOf, Telling
  <2> QED BY <2>1, NothingTold
<1>4. Told(<<Acknowledgement>>) = << >>
  <2>1. TellingOf(<<Acknowledgement>>) = {}
    BY DEF TellingOf, Telling, Acknowledgement
  <2> QED BY <2>1, NothingTold
<1>5. CASE hasClaudeCodePrefix(text, surface)
  BY <1>5 DEF rewriteSystemForClaudeCode
<1>6. CASE ~hasClaudeCodePrefix(text, surface) /\ text = << >>
  <2>1. next.system = blocks /\ next.messages = b.messages
    BY <1>1, <1>6 DEF rewriteSystemForClaudeCode
  <2>2. Told(b.system) = << >>
    <3>1. TellingOf(<< >>) = {}
      BY DEF TellingOf
    <3> QED BY <1>2, <1>6, <3>1, NothingTold
  <2> HIDE DEF next, blocks, text
  <2>3. Told(next.system) = Told(b.system)
    BY <1>3, <2>1, <2>2
  <2>4. /\ DOMAIN ToldSections(next) = 1..(n + 1) /\ DOMAIN ToldSections(b) = 1..(n + 1)
        /\ ToldSections(next)[1] = ToldSections(b)[1]
        /\ \A i \in 1..n : ToldSections(next)[i + 1] = ToldSections(b)[i + 1]
    BY <1>1, <2>1, <2>3, SectionsShape
  <2>5. \A i \in 1..(n + 1) : ToldSections(next)[i] = ToldSections(b)[i]
    <3> SUFFICES ASSUME NEW i \in 1..(n + 1)
                 PROVE  ToldSections(next)[i] = ToldSections(b)[i]
      OBVIOUS
    <3>1. i = 1 \/ (i - 1 \in 1..n /\ (i - 1) + 1 = i)
      BY <1>1
    <3> QED BY <2>4, <3>1
  <2>6. ToldSections(next) = ToldSections(b)
    BY <2>4, <2>5 DEF ToldSections
  <2> QED BY <2>1, <2>6, ReadingShape DEF next
<1>7. CASE ~hasClaudeCodePrefix(text, surface) /\ text # << >>
  <2> DEFINE first  == [role |-> "user", text |-> text]
             second == [role |-> "assistant", text |-> <<Acknowledgement>>]
             new    == <<first, second>> \o b.messages
  <2>1. next.system = blocks /\ next.messages = new
    BY <1>1, <1>7 DEF rewriteSystemForClaudeCode, prependSystemAsMessages
  <2>2. /\ first \in TurnType /\ second \in TurnType
        /\ first.role = "user" /\ second.role = "assistant"
        /\ first.text = text /\ second.text = <<Acknowledgement>>
    <3>1. Acknowledgement \in TextType
      BY DEF Acknowledgement, TextType
    <3>2. <<Acknowledgement>> \in Seq(TextType)
      BY <3>1
    <3> HIDE DEF text
    <3> QED BY <1>1, <3>2 DEF TurnType
  <2> HIDE DEF first, second, text
  <2>3. /\ new \in Seq(TurnType) /\ Len(new) = n + 2
        /\ new[1] = first /\ new[2] = second
        /\ \A i \in 1..n : new[i + 2] = b.messages[i]
        /\ Alternates(b.messages) => Alternates(new)
    BY <1>1, <2>2, PairInFront
  <2>4. new # Missing
    BY <2>3, BodiesAssumption
  <2> HIDE DEF next, blocks, new
  <2> DEFINE A == ToldSections(next)
             B == ToldSections(b)
  <2>5. /\ DOMAIN A = 1..((n + 2) + 1)
        /\ A[1] = Told(blocks)
        /\ \A i \in 1..(n + 2) : A[i + 1] = Told(new[i].text)
    BY <2>1, <2>3, <2>4, SectionsShape
  <2>6. /\ DOMAIN B = 1..(n + 1)
        /\ B[1] = Told(b.system)
        /\ \A i \in 1..n : B[i + 1] = Told(b.messages[i].text)
    BY <1>1, SectionsShape
  <2> HIDE DEF A, B, n
  <2>7. DOMAIN A = 1..(n + 3)
    <3>1. (n + 2) + 1 = n + 3
      BY <1>1
    <3> QED BY <2>5, <3>1
  <2>8. A[1] = << >> /\ A[3] = << >> /\ A[2] = B[1]
    <3>1. 1 \in 1..(n + 2) /\ 2 \in 1..(n + 2) /\ 1 + 1 = 2 /\ 2 + 1 = 3
      BY <1>1
    <3>2. A[2] = Told(new[1].text) /\ A[3] = Told(new[2].text)
      BY <2>5, <3>1
    <3> QED BY <1>2, <1>3, <1>4, <2>2, <2>3, <2>5, <2>6, <3>2
  <2>9. \A i \in 1..n : A[i + 3] = B[i + 1]
    <3> SUFFICES ASSUME NEW i \in 1..n PROVE A[i + 3] = B[i + 1]
      OBVIOUS
    <3>1. i + 2 \in 1..(n + 2) /\ (i + 2) + 1 = i + 3
      BY <1>1
    <3>2. A[i + 3] = Told(new[i + 2].text)
      BY <2>5, <3>1
    <3> QED BY <2>3, <2>6, <3>2
  <2>10. NonEmpty(A) = NonEmpty(B)
    BY <1>1, <2>6, <2>7, <2>8, <2>9, MovedDown
  <2>11. Reading(next) = Reading(b)
    BY <2>10, ReadingShape DEF A, B
  <2> QED BY <2>1, <2>3, <2>11 DEF next
<1> QED BY <1>5, <1>6, <1>7

-----------------------------------------------------------------------------
\* The token was in the first line of the header at every gateway so far.
AllOpen == \A h \in DOMAIN seen : contextMgmtEnabled(seen[h])

\* Where the request is, and what it came with there.
Route ==
  /\ pc \in {"arrived", "rewritten", "sent"} /\ hop \in 1..MaxHops
  /\ config \in ConfigType /\ original \in Bodies /\ asked \subseteq Toggles
  /\ seen \in Seq(HeaderType) /\ Len(seen) = IF pc = "arrived" THEN hop - 1 ELSE hop
  /\ header \in Headers \cup {<<{Token}>>}
  /\ hop > 1 \/ pc = "sent" => header = <<{Token}>>

\* What no stage changes.
Shape ==
  /\ body \in BodyType
  /\ body.thinking = original.thinking
  /\ SamePlaces(body.tools, original.tools)
  /\ MimicableNames(body.tools) \in ToolLists

\* ContextGated with what it leaves out: a field that was asked for is there
\* as long as every gate was open.
Gated ==
  body.messages # Missing =>
    /\ pc # "arrived" /\ body.context_management # "absent" => CarriesToken(Last(seen))
    /\ (body.context_management = "client") <=>
         (original.context_management = "client" /\ AllOpen)
    /\ body.context_management = "filled" => "fill_fingerprint" \in asked /\ Thinks(original)
    /\ "fill_fingerprint" \in asked /\ Thinks(original) /\ AllOpen =>
         body.context_management # "absent"

Settled == "obfuscate_tool_names" \in asked => Done(body.tools)

IInv == Route /\ Shape /\ Gated /\ Settled /\ TogglesRule

\* The effect of one hook whose toggles are on, as far as no other stage and
\* no gate is concerned.
Effect(b, next, on) ==
  /\ next \in BodyType /\ next.thinking = b.thinking
  /\ "inject_system_prompt" \notin on => next.system = b.system /\ next.messages = b.messages
  /\ next.temperature = IF "fill_fingerprint" \in on THEN Filled(b.temperature)
                        ELSE b.temperature
  /\ next.max_tokens = IF "fill_fingerprint" \in on THEN Filled(b.max_tokens) ELSE b.max_tokens
  /\ "fill_fingerprint" \notin on =>
       next.context_management \in {"absent", b.context_management}
  /\ SamePlaces(next.tools, b.tools)
  /\ MimicableNames(next.tools) \in ToolLists
  /\ \A i \in 1..Len(b.tools) :
       next.tools[i].cache = IF "cache_breakpoints" \in on /\ i = Len(b.tools)
                             THEN WithTTL(b.tools[i].cache) ELSE b.tools[i].cache
  /\ "obfuscate_tool_names" \notin on => SameNames(next.tools, b.tools)
  /\ "obfuscate_tool_names" \in on \/ Done(b.tools) => Done(next.tools)

LEMMA PerTool ==
  ASSUME NEW b, NEW o, b.tools \in Seq(ToolType), o.tools \in Seq(ToolType),
         Len(b.tools) = Len(o.tools)
  PROVE  /\ Caches(b) = Caches(o) <=> SameCaches(b.tools, o.tools)
         /\ Spelled(b) = Spelled(o) <=> SameNames(b.tools, o.tools)
<1>1. DOMAIN b.tools = 1..Len(o.tools) /\ DOMAIN o.tools = 1..Len(o.tools)
  BY ToolsShape
<1>2. Caches(b) = Caches(o) <=> SameCaches(b.tools, o.tools)
  <2>1. ASSUME Caches(b) = Caches(o) PROVE SameCaches(b.tools, o.tools)
    <3>1. \A i \in 1..Len(o.tools) :
            Caches(b)[i] = b.tools[i].cache /\ Caches(o)[i] = o.tools[i].cache
      BY <1>1 DEF Caches
    <3> QED BY <2>1, <3>1 DEF SameCaches
  <2>2. ASSUME SameCaches(b.tools, o.tools) PROVE Caches(b) = Caches(o)
    BY <1>1, <2>2 DEF Caches, SameCaches
  <2> QED BY <2>1, <2>2
<1>3. Spelled(b) = Spelled(o) <=> SameNames(b.tools, o.tools)
  <2>1. ASSUME Spelled(b) = Spelled(o) PROVE SameNames(b.tools, o.tools)
    <3>1. \A i \in 1..Len(o.tools) :
            Spelled(b)[i] = b.tools[i].name /\ Spelled(o)[i] = o.tools[i].name
      BY <1>1 DEF Spelled
    <3> QED BY <2>1, <3>1 DEF SameNames
  <2>2. ASSUME SameNames(b.tools, o.tools) PROVE Spelled(b) = Spelled(o)
    BY <1>1, <2>2 DEF Spelled, SameNames
  <2> QED BY <2>1, <2>2
<1> QED BY <1>2, <1>3

LEMMA OriginalTyped ==
  ASSUME Route
  PROVE  /\ original \in BodyType /\ original.tools \in Seq(ToolType)
         /\ original.context_management # "filled"
  BY BodiesAssumption DEF Route, BodyType

(* Each stage under its own toggle keeps the rule of the toggles.          *)
LEMMA TogglesKept ==
  ASSUME IInv, NEW on \in SUBSET Toggles, Effect(body, body', on),
         asked' = asked \cup on, original' = original
  PROVE  Shape' /\ Settled' /\ TogglesRule'
<1>1. /\ body \in BodyType /\ body' \in BodyType /\ original \in BodyType
      /\ body.tools \in Seq(ToolType) /\ body'.tools \in Seq(ToolType)
      /\ original.tools \in Seq(ToolType)
  BY OriginalTyped DEF IInv, Shape, Effect, BodyType
<1>2. /\ SamePlaces(body.tools, original.tools) /\ SamePlaces(body'.tools, body.tools)
      /\ SamePlaces(body'.tools, original.tools)
  BY DEF IInv, Shape, Effect, SamePlaces
<1>3. Len(body.tools) = Len(original.tools) /\ Len(body'.tools) = Len(original.tools)
  BY <1>2 DEF SamePlaces
<1>4. /\ Len(original.tools) \in Nat
      /\ \A i \in 1..Len(original.tools) : body.tools[i] \in ToolType
      /\ DOMAIN body.tools = 1..Len(original.tools)
      /\ DOMAIN body'.tools = 1..Len(original.tools)
  BY <1>1, <1>3, ToolsShape
<1>5. Shape'
  BY <1>2 DEF IInv, Shape, Effect
<1>6. Settled'
  BY DEF IInv, Settled, Effect
<1>7. /\ Caches(body) = Caches(original) <=> SameCaches(body.tools, original.tools)
      /\ Caches(body') = Caches(original) <=> SameCaches(body'.tools, original.tools)
      /\ Spelled(body) = Spelled(original) <=> SameNames(body.tools, original.tools)
      /\ Spelled(body') = Spelled(original) <=> SameNames(body'.tools, original.tools)
  BY <1>1, <1>3, PerTool
<1>8. OffMeansUntouched'
  <2>1. OffMeansUntouched
    BY DEF IInv, TogglesRule
  <2>2. "inject_system_prompt" \notin asked' =>
          body'.system = original.system /\ body'.messages = original.messages
    BY <2>1 DEF OffMeansUntouched, Effect
  <2>3. "fill_fingerprint" \notin asked' =>
          /\ body'.temperature = original.temperature /\ body'.max_tokens = original.max_tokens
          /\ body'.context_management \in {"absent", original.context_management}
    BY <2>1 DEF OffMeansUntouched, Effect
  <2>4. "cache_breakpoints" \notin asked' => Caches(body') = Caches(original)
    BY <1>3, <1>7, <2>1 DEF OffMeansUntouched, Effect, SameCaches
  <2>5. "obfuscate_tool_names" \notin asked' => Spelled(body') = Spelled(original)
    BY <1>3, <1>7, <2>1 DEF OffMeansUntouched, Effect, SameNames
  <2> QED BY <2>2, <2>3, <2>4, <2>5 DEF OffMeansUntouched, Caches, Spelled
<1>9. BreakpointOnLast'
  <2> SUFFICES ASSUME "cache_breakpoints" \in asked', NEW i \in 1..Len(original.tools)
               PROVE  /\ body'.tools[i].cache # original.tools[i].cache =>
                           i = Len(original.tools) /\ original.tools[i].cache # "ttl"
                      /\ i = Len(original.tools) =>
                           body'.tools[i].cache \in {"ttl", "full", "extended"}
    BY <1>3, <1>4 DEF BreakpointOnLast
  <2> DEFINE old == body.tools[i].cache
             was == original.tools[i].cache
  <2>1. body'.tools[i].cache = IF "cache_breakpoints" \in on /\ i = Len(original.tools)
                               THEN WithTTL(old) ELSE old
    BY <1>3 DEF Effect
  <2>2. old \in {"absent", "bare", "ttl", "full", "extended"}
    BY <1>4 DEF ToolType
  <2>3. "cache_breakpoints" \notin asked => old = was
    BY <1>7 DEF IInv, TogglesRule, OffMeansUntouched, SameCaches
  <2>4. "cache_breakpoints" \in asked =>
          /\ old # was => i = Len(original.tools) /\ was # "ttl"
          /\ i = Len(original.tools) => old \in {"ttl", "full", "extended"}
    BY <1>3, <1>4 DEF IInv, TogglesRule, BreakpointOnLast
  <2>5. "cache_breakpoints" \in asked \/ "cache_breakpoints" \in on
    OBVIOUS
  <2> HIDE DEF old, was
  <2>6. /\ WithTTL(old) \in {"ttl", "full", "extended"}
        /\ old \in {"ttl", "full", "extended"} => WithTTL(old) = old
    BY <2>2 DEF WithTTL
  <2>7. \/ body'.tools[i].cache = WithTTL(old) /\ i = Len(original.tools)
        \/ body'.tools[i].cache = old /\ "cache_breakpoints" \in asked
        \/ body'.tools[i].cache = old /\ i # Len(original.tools)
    BY <2>1, <2>5
  <2>8. /\ body'.tools[i].cache # was => i = Len(original.tools) /\ was # "ttl"
        /\ i = Len(original.tools) => body'.tools[i].cache \in {"ttl", "full", "extended"}
    BY <2>3, <2>4, <2>6, <2>7
  <2> QED BY <2>8 DEF was
<1>10. ChosenValuesKept'
  <2>1. \A f \in Fields : /\ Filled(f) # "absent"
                          /\ f # "absent" => Filled(f) = f
    BY DEF Filled, Fields
  <2>2. body.temperature \in Fields /\ body.max_tokens \in Fields
    BY <1>1 DEF BodyType
  <2>3. /\ original.temperature = "client" => body.temperature = "client"
        /\ original.max_tokens = "client" => body.max_tokens = "client"
        /\ "fill_fingerprint" \in asked =>
             body.temperature # "absent" /\ body.max_tokens # "absent"
    BY DEF IInv, TogglesRule, ChosenValuesKept
  <2>4. /\ original.temperature = "client" => body'.temperature = "client"
        /\ original.max_tokens = "client" => body'.max_tokens = "client"
        /\ "fill_fingerprint" \in asked' =>
             body'.temperature # "absent" /\ body'.max_tokens # "absent"
    BY <2>1, <2>2, <2>3 DEF Effect
  <2> QED BY <2>4 DEF ChosenValuesKept
<1> QED BY <1>5, <1>6, <1>8, <1>9, <1>10 DEF TogglesRule

-----------------------------------------------------------------------------
LEMMA GateTyped ==
  ASSUME NEW lines \in HeaderType
  PROVE  /\ contextMgmtEnabled(lines) \in BOOLEAN
         /\ contextMgmtEnabled(lines) <=> (lines # << >> /\ Token \in lines[1])
         /\ contextMgmtEnabled(lines) => CarriesToken(lines)
<1>1. lines \in Seq(SUBSET Betas)
  BY DEF HeaderType
<1>2. lines # << >> => 1 \in DOMAIN lines
  BY <1>1
<1> QED BY <1>2 DEF contextMgmtEnabled, headerValue, betaTokensContain, CarriesToken

(* What a gateway sees next to what was seen before.                       *)
LEMMA SeenNext ==
  ASSUME Route, pc = "arrived", seen' = Append(seen, header)
  PROVE  /\ header \in HeaderType
         /\ seen' \in Seq(HeaderType) /\ Len(seen') = hop
         /\ Last(seen') = header
         /\ AllOpen' <=> AllOpen /\ contextMgmtEnabled(header)
<1>1. header \in HeaderType
  <2>1. <<{Token}>> \in HeaderType
    BY HeadersAssumption DEF HeaderType
  <2> QED BY <2>1, HeadersAssumption DEF Route
<1>2. /\ seen \in Seq(HeaderType) /\ Len(seen) \in Nat /\ Len(seen) = hop - 1 /\ hop \in Nat
      /\ DOMAIN seen = 1..Len(seen)
  BY HopsAssumption, LenProperties DEF Route
<1>3. /\ seen' \in Seq(HeaderType) /\ Len(seen') = Len(seen) + 1
      /\ DOMAIN seen' = 1..(Len(seen) + 1)
      /\ \A i \in 1..Len(seen) : seen'[i] = seen[i]
      /\ seen'[Len(seen) + 1] = header
  BY <1>1, <1>2
<1>4. Len(seen') = hop
  BY <1>2, <1>3
<1>5. Last(seen') = header
  BY <1>3 DEF Last
<1>6. AllOpen' <=> AllOpen /\ contextMgmtEnabled(header)
  <2>1. \A i \in 1..(Len(seen) + 1) : i \in 1..Len(seen) \/ i = Len(seen) + 1
    BY <1>2
  <2>2. 1..Len(seen) \subseteq 1..(Len(seen) + 1) /\ Len(seen) + 1 \in 1..(Len(seen) + 1)
    BY <1>2
  <2>3. AllOpen' <=> \A h \in 1..(Len(seen) + 1) : contextMgmtEnabled(seen'[h])
    BY <1>3 DEF AllOpen, contextMgmtEnabled, headerValue, betaTokensContain
  <2> QED BY <1>2, <1>3, <2>1, <2>2, <2>3 DEF AllOpen
<1> QED BY <1>1, <1>3, <1>4, <1>5, <1>6

(* The gate after the hook on a body with messages.                        *)
LEMMA GateKept ==
  ASSUME IInv, interceptRequestBefore
  PROVE  Gated'
<1> DEFINE fill    == "fill_fingerprint" \in config.on
           enabled == contextMgmtEnabled(header)
<1>1. /\ Route /\ pc = "arrived" /\ body.messages # Missing /\ seen' = Append(seen, header)
      /\ body \in BodyType /\ MimicableNames(body.tools) \in ToolLists
      /\ config \in ConfigType /\ asked' = asked \cup config.on
      /\ original' = original /\ pc' = "rewritten"
  BY DEF IInv, Shape, Route, interceptRequestBefore
<1>2. /\ header \in HeaderType /\ Last(seen') = header
      /\ AllOpen' <=> AllOpen /\ contextMgmtEnabled(header)
  BY <1>1, SeenNext
<1>3. enabled \in BOOLEAN /\ (enabled => CarriesToken(header))
  BY <1>2, GateTyped
<1>4. body' = stripContextManagementIfUnsupported(
                applyRequestMimicry(body, config, enabled), enabled)
  BY DEF interceptRequestBefore
<1> HIDE DEF enabled
<1>5. /\ body'.messages # Missing
      /\ body'.context_management =
           IF ~enabled THEN "absent"
           ELSE IF fill /\ Thinks(body) THEN Filled(body.context_management)
           ELSE body.context_management
  BY <1>1, <1>3, <1>4, BodyAfter
<1>6. /\ Thinks(body) <=> Thinks(original)
      /\ body.context_management \in Fields
  BY <1>1 DEF IInv, Shape, Thinks, BodyType
<1>7. /\ (body.context_management = "client") <=>
           (original.context_management = "client" /\ AllOpen)
      /\ body.context_management = "filled" => "fill_fingerprint" \in asked /\ Thinks(original)
      /\ "fill_fingerprint" \in asked /\ Thinks(original) /\ AllOpen =>
           body.context_management # "absent"
  BY <1>1 DEF IInv, Gated
<1>8. AllOpen' <=> AllOpen /\ enabled
  BY <1>2 DEF enabled
<1>9. \A f \in Fields : /\ Filled(f) = "client" <=> f = "client"
                        /\ Filled(f) # "absent"
                        /\ Filled(f) = "filled" => f \in {"absent", "filled"}
  BY DEF Filled, Fields
<1>10. "fill_fingerprint" \in asked' <=> "fill_fingerprint" \in asked \/ fill
  BY <1>1
<1> DEFINE old == body.context_management
           new == body'.context_management
           was == original.context_management
           before == "fill_fingerprint" \in asked
           after  == "fill_fingerprint" \in asked'
<1> HIDE DEF fill, old, new, was, before, after
<1>11. /\ new # "absent" => enabled
       /\ new = "client" <=> old = "client" /\ enabled
       /\ new = "filled" => (fill /\ Thinks(original)) \/ old = "filled"
       /\ enabled /\ new = "absent" => old = "absent" /\ ~(fill /\ Thinks(original))
  <2>1. CASE ~enabled
    BY <1>5, <2>1 DEF new
  <2>2. CASE enabled /\ fill /\ Thinks(body)
    <3>1. new = Filled(old) /\ old \in Fields
      BY <1>5, <1>6, <2>2 DEF new, old
    <3> QED BY <1>6, <1>9, <2>2, <3>1
  <2>3. CASE enabled /\ ~(fill /\ Thinks(body))
    <3>1. new = old
      BY <1>5, <2>3 DEF new, old
    <3> QED BY <1>6, <2>3, <3>1
  <2> QED BY <2>1, <2>2, <2>3
<1>12. /\ new # "absent" => CarriesToken(header)
       /\ (new = "client") <=> (was = "client" /\ AllOpen')
       /\ new = "filled" => after /\ Thinks(original)
       /\ after /\ Thinks(original) /\ AllOpen' => new # "absent"
  <2>1. /\ (old = "client") <=> (was = "client" /\ AllOpen)
        /\ old = "filled" => before /\ Thinks(original)
        /\ before /\ Thinks(original) /\ AllOpen => old # "absent"
        /\ after <=> before \/ fill
    BY <1>7, <1>10 DEF old, was, before, after
  <2>2. (new = "client") <=> (was = "client" /\ AllOpen')
    BY <1>8, <1>11, <2>1
  <2>3. after /\ Thinks(original) /\ AllOpen' => new # "absent"
    BY <1>8, <1>11, <2>1
  <2> QED BY <1>3, <1>11, <2>1, <2>2, <2>3
<1>13. /\ pc' # "arrived" /\ new # "absent" => CarriesToken(Last(seen'))
       /\ Thinks(original') <=> Thinks(original)
  BY <1>1, <1>2, <1>12
<1> QED BY <1>1, <1>12, <1>13 DEF Gated, Thinks, new, was, after, CarriesToken, Last

(* What the hook does on either kind of body.                              *)
LEMMA RequestEffect ==
  ASSUME IInv, interceptRequestBefore
  PROVE  Effect(body, body', config.on) /\ config.on \in SUBSET Toggles
<1> DEFINE enabled == contextMgmtEnabled(header)
<1>1. /\ Route /\ pc = "arrived" /\ body.messages # Missing /\ seen' = Append(seen, header)
      /\ body \in BodyType /\ MimicableNames(body.tools) \in ToolLists
      /\ config \in ConfigType
  BY DEF IInv, Shape, Route, interceptRequestBefore
<1>2. enabled \in BOOLEAN
  BY <1>1, SeenNext, GateTyped
<1>3. body' = stripContextManagementIfUnsupported(
                applyRequestMimicry(body, config, enabled), enabled)
  BY DEF interceptRequestBefore
<1> HIDE DEF enabled
<1> DEFINE fill == "fill_fingerprint" \in config.on
<1>4. /\ body' \in BodyType
      /\ body'.tools = mimicTools(body.tools, config.on)
      /\ body'.thinking = body.thinking
      /\ body'.temperature = IF fill THEN Filled(body.temperature) ELSE body.temperature
      /\ body'.max_tokens = IF fill THEN Filled(body.max_tokens) ELSE body.max_tokens
      /\ body'.context_management =
           IF ~enabled THEN "absent"
           ELSE IF fill /\ Thinks(body) THEN Filled(body.context_management)
           ELSE body.context_management
      /\ "inject_system_prompt" \notin config.on =>
           body'.system = body.system /\ body'.messages = body.messages
  BY <1>1, <1>2, <1>3, BodyAfter
<1>5. body.tools \in Seq(ToolType)
  BY <1>1 DEF BodyType
<1>6. /\ SamePlaces(body'.tools, body.tools)
      /\ MimicableNames(body'.tools) \in ToolLists
      /\ \A i \in 1..Len(body.tools) :
           body'.tools[i].cache = IF "cache_breakpoints" \in config.on /\ i = Len(body.tools)
                                  THEN WithTTL(body.tools[i].cache) ELSE body.tools[i].cache
      /\ "obfuscate_tool_names" \notin config.on => SameNames(body'.tools, body.tools)
      /\ "obfuscate_tool_names" \in config.on \/ Done(body.tools) => Done(body'.tools)
  <2> DEFINE tools == body.tools
             on    == config.on
             then  == mimicTools(tools, on)
  <2>1. /\ SamePlaces(then, tools)
        /\ MimicableNames(then) \in ToolLists
        /\ \A i \in 1..Len(tools) :
             then[i].cache = IF "cache_breakpoints" \in on /\ i = Len(tools)
                             THEN WithTTL(tools[i].cache) ELSE tools[i].cache
        /\ "obfuscate_tool_names" \notin on => SameNames(then, tools)
        /\ "obfuscate_tool_names" \in on \/ Done(tools) => Done(then)
    <3>1. tools \in Seq(ToolType) /\ MimicableNames(tools) \in ToolLists
      BY <1>1, <1>5
    <3> HIDE DEF tools, on
    <3> QED BY <3>1, MimicToolsShape
  <2>2. body'.tools = then
    BY <1>4
  <2> HIDE DEF then
  <2> QED BY <2>1, <2>2
<1>7. config.on \in SUBSET Toggles
  BY <1>1 DEF ConfigType
<1> QED BY <1>4, <1>6, <1>7 DEF Effect

LEMMA CountTokensEffect ==
  ASSUME IInv, interceptCountTokens
  PROVE  /\ Effect(body, body', config.on \cap {"obfuscate_tool_names"})
         /\ body'.messages = body.messages
<1> DEFINE on == config.on \cap {"obfuscate_tool_names"}
<1>1. /\ body \in BodyType /\ body.tools \in Seq(ToolType)
      /\ MimicableNames(body.tools) \in ToolLists
  BY DEF IInv, Shape, BodyType
<1>2. CASE "obfuscate_tool_names" \in config.on
  <2> DEFINE named == RenamedTools(body.tools, FALSE)
  <2>1. /\ named \in Seq(ToolType) /\ SamePlaces(named, body.tools)
        /\ SameCaches(named, body.tools) /\ MimicableNames(named) \in ToolLists /\ Done(named)
    BY <1>1, RenamedToolsShape
  <2>2. body' = [body EXCEPT !.tools = named]
    BY <1>2 DEF interceptCountTokens
  <2> HIDE DEF named
  <2>3. /\ body' \in BodyType /\ body'.tools = named
        /\ body'.system = body.system /\ body'.messages = body.messages
        /\ body'.thinking = body.thinking /\ body'.temperature = body.temperature
        /\ body'.max_tokens = body.max_tokens
        /\ body'.context_management = body.context_management
    BY <1>1, <2>1, <2>2 DEF BodyType
  <2> QED BY <1>2, <2>1, <2>3 DEF Effect, SameCaches
<1>3. CASE "obfuscate_tool_names" \notin config.on
  <2>1. body' = body
    BY <1>3 DEF interceptCountTokens
  <2> QED BY <1>1, <1>3, <2>1 DEF Effect, SamePlaces, SameNames
<1> QED BY <1>2, <1>3

-----------------------------------------------------------------------------
LEMMA InitIInv == Init => IInv
<1> SUFFICES ASSUME Init PROVE IInv
  OBVIOUS
<1> USE DEF Init
<1>1. /\ original \in BodyType /\ original.context_management # "filled"
      /\ MimicableNames(original.tools) \in ToolLists
  BY BodiesAssumption
<1>2. Route
  <2>1. << >> \in Seq(HeaderType) /\ Len(<< >>) = 0
    OBVIOUS
  <2> QED BY <2>1, HopsAssumption, ConfigsAssumption DEF Route
<1>3. Shape
  BY <1>1 DEF Shape, SamePlaces
<1>4. Gated
  <2>1. AllOpen
    BY DEF AllOpen
  <2> QED BY <1>1, <2>1 DEF Gated
<1>5. Settled /\ TogglesRule
  BY DEF Settled, TogglesRule, OffMeansUntouched, BreakpointOnLast, ChosenValuesKept
<1> QED BY <1>2, <1>3, <1>4, <1>5 DEF IInv

LEMMA NextIInv == IInv /\ [Next]_vars => IInv'
<1> SUFFICES ASSUME IInv, [Next]_vars PROVE IInv'
  OBVIOUS
<1>1. /\ Route /\ hop \in Nat /\ MaxHops \in Nat
  BY HopsAssumption DEF IInv, Route
<1>2. CASE interceptRequestBefore
  <2>1. /\ pc = "arrived" /\ seen' = Append(seen, header) /\ asked' = asked \cup config.on
        /\ pc' = "rewritten" /\ UNCHANGED <<hop, config, original, header>>
    BY <1>2 DEF interceptRequestBefore
  <2>2. Effect(body, body', config.on) /\ config.on \in SUBSET Toggles
    BY <1>2, RequestEffect
  <2>3. Shape' /\ Settled' /\ TogglesRule'
    BY <2>1, <2>2, TogglesKept
  <2>4. Gated'
    BY <1>2, GateKept
  <2>5. seen' \in Seq(HeaderType) /\ Len(seen') = hop
    BY <1>1, <2>1, SeenNext
  <2>6. Route'
    BY <1>1, <2>1, <2>2, <2>5 DEF Route
  <2> QED BY <2>3, <2>4, <2>6 DEF IInv
<1>3. CASE interceptCountTokens
  <2> DEFINE on == config.on \cap {"obfuscate_tool_names"}
  <2>1. /\ pc = "arrived" /\ seen' = Append(seen, header) /\ asked' = asked \cup on
        /\ pc' = "rewritten" /\ UNCHANGED <<hop, config, original, header>>
        /\ body.messages = Missing
    BY <1>3 DEF interceptCountTokens
  <2>2. Effect(body, body', on) /\ body'.messages = Missing
    BY <1>3, <2>1, CountTokensEffect
  <2>3. on \in SUBSET Toggles
    BY DEF Toggles
  <2> HIDE DEF on
  <2>4. Shape' /\ Settled' /\ TogglesRule'
    BY <2>1, <2>2, <2>3, TogglesKept
  <2>5. Gated'
    BY <2>2 DEF Gated
  <2>6. seen' \in Seq(HeaderType) /\ Len(seen') = hop
    BY <1>1, <2>1, SeenNext
  <2>7. Route'
    BY <1>1, <2>1, <2>3, <2>6 DEF Route
  <2> QED BY <2>4, <2>5, <2>7 DEF IInv
<1>4. CASE interceptEgressHeaders
  <2>1. /\ pc = "rewritten" /\ header' = <<{Token}>> /\ pc' = "sent"
        /\ UNCHANGED <<hop, config, original, body, seen, asked>>
    BY <1>4 DEF interceptEgressHeaders
  <2>2. Route'
    BY <1>1, <2>1 DEF Route
  <2>3. Gated'
    BY <2>1 DEF IInv, Gated, AllOpen, Thinks, CarriesToken, contextMgmtEnabled, headerValue,
                betaTokensContain, Last
  <2>4. Shape' /\ Settled' /\ TogglesRule'
    BY <2>1 DEF IInv, Shape, Settled, TogglesRule, OffMeansUntouched, BreakpointOnLast,
                ChosenValuesKept, Caches, Spelled
  <2> QED BY <2>2, <2>3, <2>4 DEF IInv
<1>5. CASE ReachNextGateway
  <2>1. /\ pc = "sent" /\ hop < MaxHops /\ hop' = hop + 1 /\ config' \in ConfigType
        /\ pc' = "arrived"
        /\ UNCHANGED <<original, body, header, seen, asked>>
    BY <1>5, ConfigsAssumption DEF ReachNextGateway
  <2>2. Route'
    BY <1>1, <2>1 DEF Route
  <2>3. Gated'
    BY <2>1 DEF IInv, Gated, AllOpen, Thinks, CarriesToken, contextMgmtEnabled, headerValue,
                betaTokensContain, Last
  <2>4. Shape' /\ Settled' /\ TogglesRule'
    BY <2>1 DEF IInv, Shape, Settled, TogglesRule, OffMeansUntouched, BreakpointOnLast,
                ChosenValuesKept, Caches, Spelled
  <2> QED BY <2>2, <2>3, <2>4 DEF IInv
<1>6. CASE UNCHANGED vars
  <2>1. UNCHANGED <<pc, hop, config, original, body, header, seen, asked>>
    BY <1>6 DEF vars
  <2>2. Route'
    BY <1>1, <2>1 DEF Route
  <2>3. Gated'
    BY <2>1 DEF IInv, Gated, AllOpen, Thinks, CarriesToken, contextMgmtEnabled, headerValue,
                betaTokensContain, Last
  <2>4. Shape' /\ Settled' /\ TogglesRule'
    BY <2>1 DEF IInv, Shape, Settled, TogglesRule, OffMeansUntouched, BreakpointOnLast,
                ChosenValuesKept, Caches, Spelled
  <2> QED BY <2>2, <2>3, <2>4 DEF IInv
<1> QED BY <1>2, <1>3, <1>4, <1>5, <1>6 DEF Next

LEMMA AlwaysIInv == Spec => []IInv
<1> QED BY InitIInv, NextIInv, PTL DEF Spec

-----------------------------------------------------------------------------
(* Every body at every gateway is one, with the client's tools in their    *)
(* places, and the request is where the gateways say it is.                *)
THEOREM BodyTypeOK == Spec => []TypeOK
<1>1. IInv => TypeOK
  <2> SUFFICES ASSUME IInv PROVE TypeOK
    OBVIOUS
  <2>1. hop \in Nat /\ Len(seen) <= hop
    BY HopsAssumption DEF IInv, Route
  <2> QED BY <2>1 DEF IInv, Route, Shape, SamePlaces, TypeOK
<1> QED BY <1>1, AlwaysIInv, PTL

(* POL-001, 2: context_management goes upstream only behind a header that  *)
(* has the token, the client's exactly if every gate on its way was open,  *)
(* the plugin's only where it was asked for.                               *)
THEOREM BodyContextGated == Spec => []ContextGated
<1>1. IInv => ContextGated
  <2> SUFFICES ASSUME IInv, pc # "arrived", body.messages # Missing
               PROVE  /\ body.context_management # "absent" => CarriesToken(Last(seen))
                      /\ (body.context_management = "client") <=>
                           (original.context_management = "client"
                            /\ \A h \in DOMAIN seen : seen[h] # << >> /\ Token \in seen[h][1])
                      /\ body.context_management = "filled" =>
                           /\ "fill_fingerprint" \in asked
                           /\ original.thinking \in {"enabled", "adaptive"}
    BY DEF ContextGated
  <2>1. \A h \in DOMAIN seen : seen[h] \in HeaderType
    BY ElementOfSeq, LenProperties DEF IInv, Route
  <2>2. AllOpen <=> \A h \in DOMAIN seen : seen[h] # << >> /\ Token \in seen[h][1]
    BY <2>1, GateTyped DEF AllOpen
  <2> QED BY <2>2 DEF IInv, Gated, Thinks
<1> QED BY <1>1, AlwaysIInv, PTL

(* SPEC-001: each toggle alone decides over its stage, however many        *)
(* gateways with whatever other toggles the body passes.                   *)
THEOREM BodyTogglesRule == Spec => []TogglesRule
<1>1. IInv => TogglesRule
  BY DEF IInv
<1> QED BY <1>1, AlwaysIInv, PTL

(* However many gateways a request passes, the model reads the client's    *)
(* instructions and turns once each and in their order, and a conversation *)
(* in which the turns alternate stays one.                                 *)
THEOREM BodyConversationKept == Spec => []ConversationKept
<1>1. Init => ConversationKept
  BY DEF Init, ConversationKept
<1>2. IInv /\ ConversationKept /\ [Next]_vars => ConversationKept'
  <2> SUFFICES ASSUME IInv, ConversationKept, [Next]_vars
               PROVE  ConversationKept'
    OBVIOUS
  <2>1. original' = original
    BY DEF Next, vars, interceptRequestBefore, interceptCountTokens, interceptEgressHeaders,
           ReachNextGateway
  <2>2. Reading(body') = Reading(body) /\ (Alternates(body.messages) => Alternates(body'.messages))
    <3>1. CASE interceptRequestBefore
      <4> DEFINE enabled == contextMgmtEnabled(header)
                 on      == config.on
                 surface == config.surface
                 said    == rewriteSystemForClaudeCode(body, surface)
      <4>1. /\ Route /\ pc = "arrived" /\ body.messages # Missing /\ seen' = Append(seen, header)
            /\ body \in BodyType /\ MimicableNames(body.tools) \in ToolLists
            /\ config \in ConfigType /\ surface \in Surfaces
        BY <3>1 DEF IInv, Shape, Route, interceptRequestBefore, ConfigType
      <4>2. enabled \in BOOLEAN
        BY <4>1, SeenNext, GateTyped
      <4>3. body' = stripContextManagementIfUnsupported(
                      applyRequestMimicry(body, config, enabled), enabled)
        BY <3>1 DEF interceptRequestBefore
      <4> HIDE DEF enabled
      <4>4. /\ "inject_system_prompt" \notin on =>
                 body'.system = body.system /\ body'.messages = body.messages
            /\ "inject_system_prompt" \in on =>
                 body'.system = said.system /\ body'.messages = said.messages
        BY <4>1, <4>2, <4>3, BodyAfter
      <4>5. /\ Reading(said) = Reading(body)
            /\ Alternates(body.messages) => Alternates(said.messages)
        BY <4>1, RewriteKeeps
      <4> HIDE DEF said, on
      <4>6. CASE "inject_system_prompt" \in on
        BY <4>4, <4>5, <4>6, SameReading
      <4>7. CASE "inject_system_prompt" \notin on
        BY <4>4, <4>7, SameReading
      <4> QED BY <4>6, <4>7
    <3>2. CASE interceptCountTokens
      <4>1. body'.messages = body.messages /\ body'.system = body.system
        BY <3>2, CountTokensEffect DEF Effect
      <4> QED BY <4>1, SameReading
    <3>3. CASE interceptEgressHeaders \/ ReachNextGateway \/ UNCHANGED vars
      BY <3>3 DEF interceptEgressHeaders, ReachNextGateway, vars
    <3> QED BY <3>1, <3>2, <3>3 DEF Next
  <2>3. /\ Reading(body) = Reading(original)
        /\ Alternates(original.messages) => Alternates(body.messages)
    BY DEF ConversationKept
  <2>4. Reading(body') = Reading(original')
    BY <2>1, <2>2, <2>3
  <2>5. Alternates(original'.messages) => Alternates(body'.messages)
    BY <2>1, <2>2, <2>3
  <2> QED BY <2>4, <2>5 DEF ConversationKept, Reading, Sections, Told, Alternates
<1> QED BY <1>1, <1>2, AlwaysIInv, PTL DEF Spec

LEMMA SameBody ==
  ASSUME NEW b \in BodyType, NEW next \in BodyType,
         next.system = b.system, next.messages = b.messages,
         next.temperature = b.temperature, next.max_tokens = b.max_tokens,
         next.context_management = b.context_management, next.thinking = b.thinking,
         next.tools = b.tools
  PROVE  next = b
BY DEF BodyType

(* The hook with nothing new to do leaves the tools as they are.           *)
LEMMA IdleTools ==
  ASSUME IInv, NEW on \in SUBSET asked, Len(MimicableNames(body.tools)) <= Threshold,
         Effect(body, body', on),
         "obfuscate_tool_names" \in on => SameNames(body'.tools, body.tools)
  PROVE  body'.tools = body.tools
<1>1. /\ body.tools \in Seq(ToolType) /\ body'.tools \in Seq(ToolType)
      /\ SamePlaces(body'.tools, body.tools)
  BY DEF IInv, Shape, Effect, BodyType
<1>2. SameNames(body'.tools, body.tools)
  BY DEF Effect
<1>3. SameCaches(body'.tools, body.tools)
  <2> SUFFICES ASSUME NEW i \in 1..Len(body.tools)
               PROVE  body'.tools[i].cache = body.tools[i].cache
    BY DEF SameCaches
  <2>1. i \in DOMAIN body.tools
    BY <1>1, ToolsShape
  <2>2. body'.tools[i].cache = IF "cache_breakpoints" \in on /\ i = Len(body.tools)
                               THEN WithTTL(body.tools[i].cache) ELSE body.tools[i].cache
    BY DEF Effect
  <2>3. "cache_breakpoints" \in on /\ i = Len(body.tools) =>
          body.tools[i].cache \in {"ttl", "full", "extended"}
    BY <2>1 DEF IInv, TogglesRule, BreakpointOnLast
  <2>4. \A c \in {"ttl", "full", "extended"} : WithTTL(c) = c
    BY DEF WithTTL
  <2> QED BY <2>2, <2>3, <2>4
<1> QED BY <1>1, <1>2, <1>3, SameTools

LEMMA IdleRequest ==
  ASSUME IInv, interceptRequestBefore, hop > 1,
         config.on \subseteq asked \ {"inject_system_prompt"}, AllOpen,
         Len(MimicableNames(body.tools)) <= Threshold
  PROVE  body' = body
<1> DEFINE fill == "fill_fingerprint" \in config.on
<1>1. /\ header = <<{Token}>> /\ body.messages # Missing
      /\ body \in BodyType /\ MimicableNames(body.tools) \in ToolLists
      /\ config \in ConfigType /\ body.tools \in Seq(ToolType)
  BY DEF IInv, Shape, Route, interceptRequestBefore, BodyType
<1>2. contextMgmtEnabled(header)
  BY <1>1 DEF contextMgmtEnabled, headerValue, betaTokensContain
<1>3. body' = stripContextManagementIfUnsupported(
                applyRequestMimicry(body, config, TRUE), TRUE)
  BY <1>2 DEF interceptRequestBefore, stripContextManagementIfUnsupported, applyRequestMimicry,
              fillRequestFingerprint
<1>4. /\ body' \in BodyType
      /\ body'.tools = mimicTools(body.tools, config.on)
      /\ body'.thinking = body.thinking
      /\ body'.temperature = IF fill THEN Filled(body.temperature) ELSE body.temperature
      /\ body'.max_tokens = IF fill THEN Filled(body.max_tokens) ELSE body.max_tokens
      /\ body'.context_management =
           IF fill /\ Thinks(body) THEN Filled(body.context_management)
           ELSE body.context_management
      /\ body'.system = body.system /\ body'.messages = body.messages
  BY <1>1, <1>3, BodyAfter
<1>5. \A f \in Fields : f # "absent" => Filled(f) = f
  BY DEF Filled, Fields
<1>6. /\ body.temperature \in Fields /\ body.max_tokens \in Fields
      /\ body.context_management \in Fields
  BY <1>1 DEF BodyType
<1>7. fill => body.temperature # "absent" /\ body.max_tokens # "absent"
  BY DEF IInv, TogglesRule, ChosenValuesKept
<1>8. fill /\ Thinks(body) => body.context_management # "absent"
  BY <1>1 DEF IInv, Gated, Shape, Thinks
<1>9. /\ body'.temperature = body.temperature /\ body'.max_tokens = body.max_tokens
      /\ body'.context_management = body.context_management
  BY <1>4, <1>5, <1>6, <1>7, <1>8
<1>10. body'.tools = body.tools
  <2>1. Effect(body, body', config.on) /\ config.on \in SUBSET asked
    BY RequestEffect
  <2>2. "obfuscate_tool_names" \in config.on => SameNames(body'.tools, body.tools)
    <3> SUFFICES ASSUME "obfuscate_tool_names" \in config.on
                 PROVE  SameNames(body'.tools, body.tools)
      OBVIOUS
    <3>1. Renamed(MimicableNames(body.tools), TRUE) = {}
      BY DEF IInv, Settled, Done
    <3>2. SameNames(mimicTools(body.tools, config.on), body.tools)
      BY <1>1, <3>1, MimicToolsShape
    <3> QED BY <1>4, <3>2
  <2> QED BY <2>1, <2>2, IdleTools
<1> QED BY <1>1, <1>4, <1>9, <1>10, SameBody

LEMMA IdleCountTokens ==
  ASSUME IInv, interceptCountTokens,
         config.on \subseteq asked \ {"inject_system_prompt"},
         Len(MimicableNames(body.tools)) <= Threshold
  PROVE  body' = body
<1> SUFFICES ASSUME "obfuscate_tool_names" \in config.on PROVE body' = body
  BY DEF interceptCountTokens
<1> DEFINE on    == config.on \cap {"obfuscate_tool_names"}
           named == RenamedTools(body.tools, FALSE)
<1>1. /\ body \in BodyType /\ body.tools \in Seq(ToolType)
      /\ MimicableNames(body.tools) \in ToolLists
  BY DEF IInv, Shape, BodyType
<1>2. body' = [body EXCEPT !.tools = named]
  BY DEF interceptCountTokens
<1>3. SameNames(named, body.tools)
  <2>1. Renamed(MimicableNames(body.tools), FALSE) = {}
    BY DEF IInv, Settled, Done
  <2> QED BY <1>1, <2>1, RenamedToolsShape
<1> HIDE DEF named
<1>4. body'.tools = named
  BY <1>1, <1>2 DEF BodyType
<1>5. body'.tools = body.tools
  <2>1. Effect(body, body', on) /\ on \in SUBSET asked
    BY CountTokensEffect
  <2> QED BY <1>3, <1>4, <2>1, IdleTools
<1>6. named = body.tools
  BY <1>4, <1>5
<1> QED BY <1>1, <1>2, <1>6 DEF BodyType

(* No stage undoes or repeats an earlier one, at whichever gateway it was. *)
THEOREM BodySecondPassIdle == Spec => SecondPassIdle
<1>1. ASSUME IInv, [Next]_vars
      PROVE  [(/\ pc = "arrived" /\ hop > 1 /\ config.on \subseteq asked \ {"inject_system_prompt"}
               /\ \A h \in DOMAIN seen : contextMgmtEnabled(seen[h])
               /\ Len(MimicableNames(body.tools)) <= Threshold)
              => body' = body]_vars
  <2> SUFFICES ASSUME Next, pc = "arrived", hop > 1,
                      config.on \subseteq asked \ {"inject_system_prompt"},
                      \A h \in DOMAIN seen : contextMgmtEnabled(seen[h]),
                      Len(MimicableNames(body.tools)) <= Threshold
               PROVE  body' = body
    BY <1>1
  <2>1. CASE interceptRequestBefore
    BY <1>1, <2>1, IdleRequest DEF AllOpen
  <2>2. CASE interceptCountTokens
    BY <1>1, <2>2, IdleCountTokens
  <2>3. CASE interceptEgressHeaders
    BY <2>3 DEF interceptEgressHeaders
  <2>4. CASE ReachNextGateway
    BY <2>4 DEF ReachNextGateway
  <2> QED BY <2>1, <2>2, <2>3, <2>4 DEF Next
<1> QED BY <1>1, AlwaysIInv, PTL DEF Spec, SecondPassIdle
================================================================================
