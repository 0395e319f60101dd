-------------------------- MODULE NativeRouteProofs --------------------------
(***************************************************************************)
(* The native route, for every number of requests, every capacity and      *)
(* every alias rule that meets the assumptions.  On a host that sends a    *)
(* RequestID (IInv) a request is plain, and then no map is kept for it, or *)
(* it is aliased, and then the store holds its own map until Capacity      *)
(* later requests have entered; so a name in a response is restored by its *)
(* own map, needs none, or passes as the alias it is.  On a host that does *)
(* not (OldInv) the map that is found was built from a list with the same  *)
(* aliases, and what it makes of a name is what its own map would, unless  *)
(* the name is spelled like an alias; without a map the static prefixes    *)
(* undo in an alias what they undo in its name.                            *)
(***************************************************************************)
EXTENDS NativeRoute, RewriteLemmas

Rewrites == {buildToolNameRewrite(list, TRUE) : list \in ToolLists} \ {EmptyRewrite}

(* What is assumed of the static prefixes read backwards keeps the two     *)
(* kinds of aliases apart.                                                 *)
LEMMA Apart == ApartFromStatic
<1> SUFFICES ASSUME NEW list \in ToolLists, NEW i \in 1..Len(list),
                    DynamicAlias(list, i) \in Range(StaticAlias)
             PROVE  FALSE
  BY DEF ApartFromStatic
<1>1. PICK n \in DOMAIN StaticAlias : DynamicAlias(list, i) = StaticAlias[n]
  BY DEF Range
<1> QED BY <1>1, FallbackAssumption

(* The static prefixes undo in an undeclared alias of a list what they     *)
(* undo in its name, or leave the alias.                                   *)
LEMMA ReplacedWithoutMap ==
  ASSUME NEW list \in ToolLists, NEW i \in 1..Len(list),
         Aliases(list)[i] \notin Range(list)
  PROVE  StaticReplaced(Aliases(list)[i])
           \in {StaticReplaced(list[i]), Aliases(list)[i]}
<1> DEFINE n == list[i]
           w == Aliases(list)[i]
<1>1. n \in Renamed(list, TRUE) /\ w = sanitizeToolName(n, list, TRUE)
  BY AliasInPlace
<1>2. CASE Len(list) > Threshold
  <2>1. w = DynamicAlias(list, LastIndex(list, n)) /\ LastIndex(list, n) \in 1..Len(list)
    BY <1>1, <1>2, LastIndexHolds DEF sanitizeToolName, Renamed
  <2>2. w \notin DOMAIN StaticWithin
    BY <2>1, FallbackAssumption
  <2> QED BY <2>2 DEF StaticReplaced
<1>3. CASE ~(Len(list) > Threshold)
  <2>1. n \in DOMAIN StaticAlias /\ w = StaticAlias[n]
    BY <1>1, <1>3, Apart, DynamicOrStatic
  <2> QED BY <2>1, FallbackAssumption
<1> QED BY <1>2, <1>3

(* What the static prefixes make of a name is a name. *)
LEMMA ReplacedIsName ==
  ASSUME NEW w \in Names
  PROVE  StaticReplaced(w) \in Names
  BY FallbackAssumption DEF StaticReplaced

Types ==
  /\ hostSendsId \in BOOLEAN
  /\ obfuscate \in BOOLEAN
  /\ phase \in [Requests -> {"idle", "sent", "done"}]
  /\ context \in [Requests -> Contexts]
  /\ names \in [Requests -> ToolLists \cup {<< >>}]
  /\ wire \in [Requests -> Seq(Names)]
  /\ delivered \in [Requests -> SUBSET (Int \X Names)]
  /\ newer \in [Requests -> 0..Capacity]

\* A request whose body went upstream with the client's names, or not yet.
Plain(r) == wire[r] = names[r] /\ r \notin DOMAIN store.items

Aliased(r) ==
  /\ names[r] \in ToolLists
  /\ wire[r] = AliasedList(buildToolNameRewrite(names[r], TRUE), names[r])
  /\ r \in DOMAIN store.items => store.items[r] = buildToolNameRewrite(names[r], TRUE)
  /\ r \notin DOMAIN store.items => newer[r] = Capacity

Maps == \A r \in Requests : Plain(r) \/ Aliased(r)

IdleIsBlank ==
  \A r \in Requests : phase[r] = "idle" =>
    r \notin DOMAIN store.items /\ delivered[r] = {}

PositionIsAge ==
  \A i \in 1..Len(store.order) : newer[store.order[i]] = Len(store.order) - i

Delivered ==
  \A r \in Requests : \A d \in delivered[r] :
    /\ d[1] \in 1..Len(names[r])
    /\ \/ d[2] = names[r][d[1]]
       \/ d[2] = wire[r][d[1]] /\ newer[r] = Capacity

IInv ==
  /\ hostSendsId = TRUE
  /\ Types
  /\ Sound(store, Requests, Rewrites)
  /\ Maps
  /\ IdleIsBlank
  /\ PositionIsAge
  /\ Delivered

-----------------------------------------------------------------------------
LEMMA WireShape ==
  ASSUME Types, Maps, NEW r \in Requests
  PROVE  /\ Len(wire[r]) = Len(names[r])
         /\ Len(names[r]) \in Nat
         /\ DOMAIN names[r] = 1..Len(names[r])
<1>1. names[r] \in Seq(Names)
  <2>1. << >> \in Seq(Names)
    BY EmptySeq
  <2> QED BY <2>1, ListsAssumption DEF Types
<1>2. Len(names[r]) \in Nat /\ DOMAIN names[r] = 1..Len(names[r])
  BY <1>1, LenProperties
<1>3. Len(wire[r]) = Len(names[r])
  BY AliasedListShape DEF Maps, Plain, Aliased
<1> QED BY <1>2, <1>3

(* What a reverse hook makes of a name on the wire of a request. *)
LEMMA RestoredOrAlias ==
  ASSUME IInv, NEW r \in Requests, NEW i \in 1..Len(wire[r]),
         NEW told, told \in {AfterResponse(r, i), AfterChunk(r, i)}
  PROVE  /\ <<i, told>> \in Int \X Names
         /\ i \in 1..Len(names[r])
         /\ \/ told = names[r][i]
            \/ told = wire[r][i] /\ newer[r] = Capacity
<1>1. told = restoreWith(Get(store, r), wire[r][i])
  BY DEF IInv, AfterResponse, AfterChunk, rewriteKey
<1>2. r # NoKey
  BY HostAssumption
<1>3. /\ i \in 1..Len(names[r]) /\ i \in Int
      /\ names[r] # << >> => names[r] \in ToolLists
      /\ names[r][i] \in Range(names[r])
  <2>1. i \in 1..Len(names[r])
    BY WireShape DEF IInv
  <2> QED BY <2>1, WireShape DEF IInv, Types, Range
<1>4. wire[r][i] \in Names
  BY ElementOfSeq DEF IInv, Types
<1>5. CASE Plain(r)
  <2>1. told = wire[r][i]
    BY <1>1, <1>5 DEF IInv, Plain, Get, restoreWith
  <2> QED BY <1>3, <1>4, <1>5, <2>1 DEF Plain
<1>6. CASE Aliased(r) /\ r \in DOMAIN store.items
  <2> DEFINE rw == buildToolNameRewrite(names[r], TRUE)
  <2>1. store.items[r] = rw /\ rw # NoRewrite
    BY <1>6, NilAssumption DEF Aliased, IInv, Sound, Rewrites
  <2>2. told = Unalias(rw, wire[r][i])
    <3> HIDE DEF rw
    <3> QED BY <1>1, <1>2, <1>6, <2>1, NilAssumption
       DEF Get, restoreWith, restoreToolNamesInBytes
  <2>3. wire[r][i] = Alias(rw, names[r][i])
    BY <1>3, <1>6, AliasedListShape DEF Aliased
  <2>4. told = names[r][i]
    BY <1>3, <1>6, <2>2, <2>3, RoundTrip DEF Aliased
  <2>5. names[r][i] \in Names
    BY <1>3, <1>6, ListsAssumption, ElementOfSeq DEF Aliased
  <2> QED BY <1>3, <2>4, <2>5
<1>7. CASE Aliased(r) /\ r \notin DOMAIN store.items
  <2>1. told = wire[r][i]
    BY <1>1, <1>7 DEF IInv, Get, restoreWith
  <2> QED BY <1>3, <1>4, <1>7, <2>1 DEF Aliased
<1> QED BY <1>5, <1>6, <1>7 DEF IInv, Maps
-----------------------------------------------------------------------------
(* No request, no map, nothing delivered. *)
LEMMA InitIInv == Init /\ hostSendsId = TRUE => IInv
<1> SUFFICES ASSUME Init, hostSendsId = TRUE PROVE IInv
  OBVIOUS
<1>1. Types
  <2>1. << >> \in Seq(Names)
    BY EmptySeq
  <2> QED BY <2>1, CapacityAssumption DEF Init, Types
<1>2. /\ Sound(store, Requests, Rewrites)
      /\ DOMAIN store.items = {} /\ Len(store.order) = 0
  BY EmptyStoreSound DEF Init
<1>3. Maps /\ IdleIsBlank /\ Delivered
  BY <1>2 DEF Init, Maps, Plain, IdleIsBlank, Delivered
<1>4. PositionIsAge
  BY <1>2 DEF PositionIsAge
<1> QED BY <1>1, <1>2, <1>3, <1>4 DEF IInv

(* A step that leaves the store and the bodies alone and tells one request *)
(* one more restored name, or none, preserves the invariant.               *)
LEMMA ReverseIInv ==
  ASSUME IInv, NEW r \in Requests, phase[r] = "sent",
         UNCHANGED <<hostSendsId, obfuscate, store, context, names, wire, newer>>,
         phase' \in {phase, [phase EXCEPT ![r] = "done"]},
         \/ delivered' = delivered
         \/ \E i \in 1..Len(wire[r]) :
              \E told \in {AfterResponse(r, i), AfterChunk(r, i)} :
                delivered' = [delivered EXCEPT ![r] = @ \cup {<<i, told>>}]
  PROVE  IInv'
<1>1. Types'
  <2>1. delivered' \in [Requests -> SUBSET (Int \X Names)]
    BY RestoredOrAlias DEF IInv, Types
  <2> QED BY <2>1 DEF IInv, Types
<1>2. Sound(store, Requests, Rewrites)' /\ Maps' /\ PositionIsAge'
  BY DEF IInv, Sound, Maps, Plain, Aliased, PositionIsAge
<1>3. IdleIsBlank'
  BY DEF IInv, Types, IdleIsBlank
<1>4. Delivered'
  <2> SUFFICES ASSUME NEW q \in Requests, NEW d \in delivered'[q]
               PROVE  /\ d[1] \in 1..Len(names[q])
                      /\ \/ d[2] = names[q][d[1]]
                         \/ d[2] = wire[q][d[1]] /\ newer[q] = Capacity
    BY DEF Delivered
  <2>1. CASE d \in delivered[q]
    BY <2>1 DEF IInv, Delivered
  <2>2. CASE d \notin delivered[q]
    <3>1. PICK i \in 1..Len(wire[r]) :
            \E told \in {AfterResponse(r, i), AfterChunk(r, i)} :
              delivered' = [delivered EXCEPT ![r] = @ \cup {<<i, told>>}]
      BY <2>2
    <3>2. PICK told \in {AfterResponse(r, i), AfterChunk(r, i)} :
            delivered' = [delivered EXCEPT ![r] = @ \cup {<<i, told>>}]
      BY <3>1
    <3>3. q = r /\ d = <<i, told>>
      BY <2>2, <3>2 DEF IInv, Types
    <3> QED BY <3>3, RestoredOrAlias
  <2> QED BY <2>1, <2>2
<1> QED BY <1>1, <1>2, <1>3, <1>4 DEF IInv

(* Reconfiguration reaches nothing the invariant speaks of. *)
LEMMA ReconfigureIInv ==
  ASSUME IInv, Reconfigure
  PROVE  IInv'
<1>1. obfuscate' \in BOOLEAN /\ UNCHANGED <<hostSendsId, store, phase, context, names, wire, delivered, newer>>
  BY DEF Reconfigure
<1>2. Types'
  BY <1>1 DEF IInv, Types
<1>3. Sound(store, Requests, Rewrites)' /\ Maps' /\ PositionIsAge'
  BY <1>1 DEF IInv, Sound, Maps, Plain, Aliased, PositionIsAge
<1>4. IdleIsBlank' /\ Delivered'
  BY <1>1 DEF IInv, IdleIsBlank, Delivered
<1> QED BY <1>1, <1>2, <1>3, <1>4 DEF IInv

(* A foreign request is plain. *)
LEMMA PassForeignIInv ==
  ASSUME IInv, NEW r \in Requests, NEW list \in ToolLists, PassForeign(r, list)
  PROVE  IInv'
<1>1. Types'
  BY ListsAssumption DEF IInv, Types, PassForeign
<1>2. Sound(store, Requests, Rewrites)' /\ PositionIsAge'
  BY DEF IInv, Sound, PositionIsAge, PassForeign
<1>3. \A q \in Requests : q # r =>
        names'[q] = names[q] /\ wire'[q] = wire[q] /\ phase'[q] = phase[q]
  BY DEF IInv, Types, PassForeign
<1>4. names'[r] = list /\ wire'[r] = list /\ phase'[r] = "sent"
  BY DEF IInv, Types, PassForeign
<1>5. /\ r \notin DOMAIN store.items /\ delivered[r] = {}
      /\ UNCHANGED <<store, delivered, newer>>
  BY DEF IInv, IdleIsBlank, PassForeign
<1>6. Maps'
  BY <1>3, <1>4, <1>5 DEF IInv, Maps, Plain, Aliased
<1>7. IdleIsBlank'
  BY <1>3, <1>4, <1>5 DEF IInv, IdleIsBlank
<1>8. Delivered'
  BY <1>3, <1>5 DEF IInv, Delivered
<1> QED BY <1>1, <1>2, <1>6, <1>7, <1>8 DEF IInv, PassForeign

(* A request that renames nothing puts nothing: it is plain as well.       *)
LEMMA ForwardPlain ==
  ASSUME IInv, NEW r \in Requests, NEW list \in ToolLists,
         interceptRequestBefore(r, list),
         ~obfuscate \/ buildToolNameRewrite(list, TRUE) = EmptyRewrite
  PROVE  PassForeign(r, list)
<1> DEFINE rw == IF obfuscate THEN buildToolNameRewrite(list, TRUE) ELSE EmptyRewrite
<1>1. rw = EmptyRewrite
  OBVIOUS
<1>2. AliasedList(rw, list) = list
  BY <1>1, EmptyRewriteIsIdentity
<1>3. \A key : Put(store, key, rw) = store
  BY <1>1, NilAssumption DEF Put
<1> HIDE DEF rw
<1>4. /\ phase[r] = "idle"
      /\ phase' = [phase EXCEPT ![r] = "sent"]
      /\ names' = [names EXCEPT ![r] = list]
      /\ wire' = [wire EXCEPT ![r] = AliasedList(rw, list)]
      /\ store' = Put(store, rewriteKey(r, AliasedList(rw, list)), rw)
      /\ rw = EmptyRewrite => newer' = newer
      /\ UNCHANGED <<hostSendsId, obfuscate, context, delivered>>
  BY DEF interceptRequestBefore, rw
<1> QED BY <1>1, <1>2, <1>3, <1>4 DEF PassForeign

(* A request that renames something enters the store behind all others:    *)
(* they age by one, and the one that drops out is the one whose age        *)
(* becomes Capacity.                                                       *)
LEMMA ForwardAliased ==
  ASSUME IInv, NEW r \in Requests, NEW list \in ToolLists,
         interceptRequestBefore(r, list),
         obfuscate, buildToolNameRewrite(list, TRUE) # EmptyRewrite
  PROVE  IInv'
<1> DEFINE rw   == buildToolNameRewrite(list, TRUE)
           body == AliasedList(rw, list)
           L    == Len(store.order)
           n    == Dropped(store)
<1>1. /\ phase[r] = "idle"
      /\ phase' = [phase EXCEPT ![r] = "sent"]
      /\ names' = [names EXCEPT ![r] = list]
      /\ wire' = [wire EXCEPT ![r] = body]
      /\ store' = Put(store, r, rw)
      /\ UNCHANGED <<hostSendsId, obfuscate, context, delivered>>
  BY DEF IInv, interceptRequestBefore, rewriteKey
<1>2. r \notin DOMAIN store.items /\ delivered[r] = {} /\ r # NoKey
  BY <1>1, HostAssumption DEF IInv, IdleIsBlank
<1>3. newer' = [q \in Requests |-> IF q = r THEN 0 ELSE OneMore(newer[q])]
  BY <1>2 DEF IInv, interceptRequestBefore, rewriteKey
<1>4. rw \in Rewrites /\ rw # NoRewrite
  BY NilAssumption DEF Rewrites
<1>5. /\ Len(store'.order) = L + 1 - n
      /\ \A i \in 1..Len(store'.order) :
           store'.order[i] = IF i = Len(store'.order) THEN r ELSE store.order[i + n]
      /\ DOMAIN store'.items = {r} \cup
           (DOMAIN store.items \ {store.order[i] : i \in 1..n})
      /\ \A k \in DOMAIN store'.items :
           store'.items[k] = IF k = r THEN rw ELSE store.items[k]
      /\ Sound(store', Requests, Rewrites)
  <2> HIDE DEF rw
  <2> QED BY <1>1, <1>2, <1>4, PutNew DEF IInv
<1>6. Sound(store, Requests, Rewrites)'
  BY <1>5 DEF Sound
<1>7. /\ L \in Nat /\ L <= Capacity /\ Capacity \in Nat /\ Capacity > 0
      /\ n \in 0..1 /\ (n = 1 <=> L = Capacity)
      /\ DOMAIN store.order = 1..L
      /\ \A i \in 1..L : store.order[i] \in DOMAIN store.items
      /\ \A i \in 1..L : store.order[i] \in Requests
  BY LenProperties, CapacityAssumption, ElementOfSeq DEF IInv, Sound, Dropped, Range
<1>8. body \in Seq(Names)
  BY AliasedListShape
<1>9. Types'
  <2>1. newer' \in [Requests -> 0..Capacity]
    BY <1>3, <1>7 DEF OneMore, IInv, Types
  <2> HIDE DEF body
  <2> QED BY <1>1, <1>8, <2>1 DEF IInv, Types
<1>10. \A q \in Requests : q # r =>
         /\ names'[q] = names[q] /\ wire'[q] = wire[q] /\ phase'[q] = phase[q]
         /\ delivered'[q] = delivered[q]
         /\ newer[q] = Capacity => newer'[q] = Capacity
  <2> HIDE DEF body
  <2> QED BY <1>1, <1>3 DEF IInv, Types, OneMore
<1>11. names'[r] = list /\ wire'[r] = body /\ phase'[r] = "sent" /\ delivered'[r] = {}
  <2> HIDE DEF body
  <2> QED BY <1>1, <1>2 DEF IInv, Types
<1>12. \A k \in DOMAIN store.items \ DOMAIN store'.items : newer'[k] = Capacity
  <2> SUFFICES ASSUME NEW k \in DOMAIN store.items, k \notin DOMAIN store'.items
               PROVE  newer'[k] = Capacity
    OBVIOUS
  <2>1. PICK i \in 1..n : k = store.order[i]
    BY <1>5
  <2>2. i = 1 /\ n = 1 /\ L = Capacity /\ 1 \in 1..L
    BY <1>7, <2>1
  <2>3. newer[k] = Capacity - 1
    BY <2>1, <2>2 DEF IInv, PositionIsAge
  <2>4. k \in Requests /\ k # r
    BY <1>2, <1>7, <2>1, <2>2
  <2>5. newer[k] < Capacity /\ newer[k] + 1 = Capacity
    BY <1>7, <2>3
  <2> QED BY <1>3, <2>4, <2>5 DEF OneMore
<1>13. Maps'
  <2> SUFFICES ASSUME NEW q \in Requests PROVE (Plain(q) \/ Aliased(q))'
    BY DEF Maps
  <2>1. CASE q = r
    BY <1>5, <1>11, <2>1 DEF Aliased
  <2>2. CASE q # r
    <3>1. /\ names'[q] = names[q] /\ wire'[q] = wire[q]
          /\ newer[q] = Capacity => newer'[q] = Capacity
      BY <1>10, <2>2
    <3>2. /\ q \in DOMAIN store'.items =>
               q \in DOMAIN store.items /\ store'.items[q] = store.items[q]
          /\ q \notin DOMAIN store'.items =>
               q \notin DOMAIN store.items \/ newer'[q] = Capacity
      BY <1>5, <1>12, <2>2
    <3>3. Plain(q) \/ Aliased(q)
      BY DEF IInv, Maps
    <3> QED BY <3>1, <3>2, <3>3 DEF Plain, Aliased
  <2> QED BY <2>1, <2>2
<1>14. IdleIsBlank'
  BY <1>5, <1>10, <1>11 DEF IInv, IdleIsBlank
<1>15. PositionIsAge'
  <2> DEFINE M == Len(store'.order)
  <2>0. M = L + 1 - n
    BY <1>5
  <2> SUFFICES ASSUME NEW i \in 1..M PROVE newer'[store'.order[i]] = M - i
    BY DEF PositionIsAge
  <2>1. CASE i = M
    <3>1. store'.order[i] = r
      BY <1>5, <2>1
    <3>2. newer'[r] = 0
      BY <1>3
    <3>3. M - i = 0
      BY <1>7, <2>0, <2>1
    <3> QED BY <3>1, <3>2, <3>3
  <2>2. CASE i # M
    <3>1. i + n \in 1..L
      BY <1>7, <2>0, <2>2
    <3>2. store'.order[i] = store.order[i + n]
      BY <1>5, <2>2
    <3>3. newer[store.order[i + n]] = L - (i + n)
      BY <3>1 DEF IInv, PositionIsAge
    <3>4. L - (i + n) < Capacity
      BY <1>7, <3>1
    <3>5. store.order[i + n] \in Requests /\ store.order[i + n] # r
      BY <1>2, <1>7, <3>1
    <3>6. newer'[store.order[i + n]] = L - (i + n) + 1
      BY <1>3, <3>3, <3>4, <3>5 DEF OneMore
    <3>7. L - (i + n) + 1 = M - i
      BY <1>7, <2>0, <3>1
    <3> QED BY <3>2, <3>6, <3>7
  <2> QED BY <2>1, <2>2
<1>16. Delivered'
  <2> SUFFICES ASSUME NEW q \in Requests, NEW d \in delivered'[q]
               PROVE  /\ d[1] \in 1..Len(names'[q])
                      /\ \/ d[2] = names'[q][d[1]]
                         \/ d[2] = wire'[q][d[1]] /\ newer'[q] = Capacity
    BY DEF Delivered
  <2>1. q # r
    BY <1>11
  <2> QED BY <1>10, <2>1 DEF IInv, Delivered
<1> QED BY <1>1, <1>6, <1>9, <1>13, <1>14, <1>15, <1>16 DEF IInv

-----------------------------------------------------------------------------
(* The forward hook, and so every step, preserves the invariant.           *)
LEMMA ForwardIInv ==
  ASSUME IInv, NEW r \in Requests, NEW list \in ToolLists,
         interceptRequestBefore(r, list)
  PROVE  IInv'
<1>1. CASE obfuscate /\ buildToolNameRewrite(list, TRUE) # EmptyRewrite
  BY <1>1, ForwardAliased
<1>2. CASE ~(obfuscate /\ buildToolNameRewrite(list, TRUE) # EmptyRewrite)
  BY <1>2, ForwardPlain, PassForeignIInv
<1> QED BY <1>1, <1>2

LEMMA NextIInv ==
  ASSUME IInv, [Next]_vars
  PROVE  IInv'
<1>1. CASE Reconfigure
  BY <1>1, ReconfigureIInv
<1>2. ASSUME NEW r \in Requests, NEW list \in ToolLists, PassForeign(r, list)
      PROVE  IInv'
  BY <1>2, PassForeignIInv
<1>3. ASSUME NEW r \in Requests, NEW list \in ToolLists, interceptRequestBefore(r, list)
      PROVE  IInv'
  BY <1>3, ForwardIInv
<1>4. ASSUME NEW r \in Requests, interceptResponse(r)
      PROVE  IInv'
  BY <1>4, ReverseIInv DEF interceptResponse
<1>5. ASSUME NEW r \in Requests, interceptStreamChunk(r)
      PROVE  IInv'
  BY <1>5, ReverseIInv DEF interceptStreamChunk
<1>6. ASSUME NEW r \in Requests, Finish(r)
      PROVE  IInv'
  BY <1>6, ReverseIInv DEF Finish
<1>7. CASE UNCHANGED vars
  <2>1. Types'
    BY <1>7 DEF vars, IInv, Types
  <2>2. Sound(store, Requests, Rewrites)' /\ Maps' /\ PositionIsAge'
    BY <1>7 DEF vars, IInv, Sound, Maps, Plain, Aliased, PositionIsAge
  <2>3. IdleIsBlank' /\ Delivered'
    BY <1>7 DEF vars, IInv, IdleIsBlank, Delivered
  <2> QED BY <1>7, <2>1, <2>2, <2>3 DEF IInv, vars
<1> QED BY <1>1, <1>2, <1>3, <1>4, <1>5, <1>6, <1>7 DEF Next

-----------------------------------------------------------------------------
(* A host from before RequestID.  A map is kept under the aliases of the   *)
(* list it was built from and a context, so the map a hook finds may be of *)
(* another request, but of one whose body has the same aliases.            *)
OldMaps ==
  \A k \in DOMAIN store.items : \E list \in ToolLists, c \in Contexts :
    store.items[k] = Own(list) /\ Own(list) # EmptyRewrite /\ k = <<Aliases(list), c>>

Wired(r) ==
  \/ wire[r] = names[r]
  \/ names[r] \in ToolLists /\ wire[r] = Aliases(names[r])

OldDelivered ==
  \A r \in Requests : \A d \in delivered[r] :
    /\ d[1] \in 1..Len(names[r])
    /\ \/ d[2] \in {names[r][d[1]], wire[r][d[1]], StaticReplaced(names[r][d[1]])}
       \/ LooksLikeAlias(names[r][d[1]])

OldInv ==
  /\ hostSendsId = FALSE
  /\ Types
  /\ Sound(store, Seq(Names) \X Contexts, Rewrites)
  /\ OldMaps
  /\ \A r \in Requests : Wired(r)
  /\ \A r \in Requests : phase[r] = "idle" => delivered[r] = {}
  /\ OldDelivered

LEMMA OldShape ==
  ASSUME OldInv, NEW r \in Requests
  PROVE  /\ Len(wire[r]) = Len(names[r])
         /\ \A i \in 1..Len(names[r]) :
              /\ names[r] \in ToolLists /\ names[r][i] \in Range(names[r])
              /\ names[r][i] \in Names /\ wire[r][i] \in Names /\ i \in Int
<1>1. << >> \in Seq(Names) /\ Len(<< >>) = 0
  BY EmptySeq
<1>2. names[r] \in Seq(Names) /\ wire[r] \in Seq(Names)
  BY <1>1, ListsAssumption DEF OldInv, Types
<1>3. Len(names[r]) \in Nat /\ DOMAIN names[r] = 1..Len(names[r])
  BY <1>2, LenProperties
<1>4. Len(wire[r]) = Len(names[r])
  BY AliasedListShape DEF OldInv, Wired, Aliases, Own
<1>5. \A i \in 1..Len(names[r]) : names[r] \in ToolLists
  BY <1>1 DEF OldInv, Types
<1>6. \A i \in 1..Len(names[r]) : names[r][i] \in Names /\ wire[r][i] \in Names
  BY <1>2, <1>4, ElementOfSeq
<1> QED BY <1>3, <1>4, <1>5, <1>6 DEF Range

(* The alias of a renamed name looks like one. *)
LEMMA AliasLooksIt ==
  ASSUME NEW list \in ToolLists, NEW n \in Renamed(list, TRUE)
  PROVE  LooksLikeAlias(sanitizeToolName(n, list, TRUE))
<1>1. n \in Range(list) /\ sanitizeToolName(n, list, TRUE) # n
  BY DEF Renamed
<1>2. CASE Len(list) > Threshold
  <2>1. sanitizeToolName(n, list, TRUE) = DynamicAlias(list, LastIndex(list, n))
    BY <1>2 DEF sanitizeToolName
  <2> QED BY <1>1, <2>1, LastIndexHolds DEF LooksLikeAlias
<1>3. CASE ~(Len(list) > Threshold)
  <2>1. n \in DOMAIN StaticAlias /\ sanitizeToolName(n, list, TRUE) = StaticAlias[n]
    BY <1>1, <1>3 DEF sanitizeToolName
  <2> QED BY <2>1 DEF LooksLikeAlias, Range
<1> QED BY <1>2, <1>3

(* What a reverse hook makes of a name on the wire, through the map of any *)
(* request with the same aliases or through the static prefixes.           *)
LEMMA OldRestored ==
  ASSUME OldInv, NEW r \in Requests, NEW i \in 1..Len(wire[r]),
         NEW told, told \in {AfterResponse(r, i), AfterChunk(r, i)}
  PROVE  /\ <<i, told>> \in Int \X Names
         /\ i \in 1..Len(names[r])
         /\ \/ told \in {names[r][i], wire[r][i], StaticReplaced(names[r][i])}
            \/ LooksLikeAlias(names[r][i])
<1> DEFINE n == names[r][i]
           w == wire[r][i]
<1>1. PICK body \in {wire[r], NoBody} :
        told = restoreWith(Get(store, <<body, context[r]>>), w)
  BY DEF OldInv, AfterResponse, AfterChunk, rewriteKey
<1> DEFINE rw == Get(store, <<body, context[r]>>)
<1>2. /\ i \in 1..Len(names[r]) /\ i \in Int
      /\ names[r] \in ToolLists /\ n \in Range(names[r])
      /\ n \in Names /\ w \in Names
  BY OldShape
<1>3. \/ w = n
      \/ w # n /\ w = Aliases(names[r])[i] /\ wire[r] = Aliases(names[r])
           /\ w \notin Range(names[r])
  <2> SUFFICES ASSUME w # n
               PROVE  /\ w = Aliases(names[r])[i] /\ wire[r] = Aliases(names[r])
                      /\ w \notin Range(names[r])
    OBVIOUS
  <2>1. wire[r] = Aliases(names[r])
    BY DEF OldInv, Wired
  <2>2. w = Alias(Own(names[r]), n)
    BY <1>2, <2>1, AliasedListShape DEF Aliases, Own
  <2>3. n \in DOMAIN Own(names[r]).forward /\ w = Own(names[r]).forward[n]
    BY <2>2 DEF Alias
  <2>4. /\ DOMAIN Own(names[r]).forward = Renamed(names[r], TRUE)
        /\ \A m \in Renamed(names[r], TRUE) :
             Own(names[r]).forward[m] = sanitizeToolName(m, names[r], TRUE)
    BY <1>2, RewriteMaps DEF Own
  <2>5. n \in Renamed(names[r], TRUE) /\ w = sanitizeToolName(n, names[r], TRUE)
    BY <2>3, <2>4
  <2> QED BY <2>1, <2>5 DEF Renamed
<1>4. CASE rw = NoRewrite
  <2>1. told \in {w, StaticReplaced(w)}
    BY <1>1, <1>4, NilAssumption DEF restoreWith, restoreToolNamesInBytes
  <2>2. StaticReplaced(w) \in {StaticReplaced(n), w}
    BY <1>2, <1>3, ReplacedWithoutMap
  <2> QED BY <1>2, <2>1, <2>2, ReplacedIsName
<1>5. CASE rw # NoRewrite
  <2>1. <<body, context[r]>> \in DOMAIN store.items /\ rw = store.items[<<body, context[r]>>]
    BY <1>5 DEF Get
  <2>2. PICK other \in ToolLists : rw = Own(other) /\ body = Aliases(other)
    BY <2>1 DEF OldInv, OldMaps
  <2>3. wire[r] = Aliases(other)
    BY <2>2, HostAssumption DEF Aliases, Own
  <2>4. told = Unalias(Own(other), w)
    <3>1. told = Unalias(rw, w)
      <4> HIDE DEF rw, w, n
      <4> QED BY <1>1, <1>5, NilAssumption DEF restoreWith, restoreToolNamesInBytes, rw
    <3> HIDE DEF rw
    <3> QED BY <2>2, <3>1
  <2>5. CASE w # n
    <3>1. Unalias(Own(other), w) \in {n, w}
      BY <1>2, <1>3, <2>3, <2>5, BackThroughShared, Apart, ChanceAssumption
    <3> QED BY <1>2, <2>4, <3>1
  <2>6. CASE w = n /\ w \notin DOMAIN Own(other).reverse
    <3>1. told = w
      BY <2>4, <2>6 DEF Unalias
    <3> QED BY <1>2, <3>1
  <2>7. CASE w = n /\ w \in DOMAIN Own(other).reverse
    <3>1. PICK m \in Renamed(other, TRUE) :
            w = sanitizeToolName(m, other, TRUE) /\ Own(other).reverse[w] = m
      BY <2>7, ReverseFrom DEF Own
    <3>2. LooksLikeAlias(n)
      BY <2>7, <3>1, AliasLooksIt
    <3>3. told = m
      BY <2>4, <2>7, <3>1 DEF Unalias
    <3>4. m \in Names
      BY AliasIsName DEF Renamed
    <3> QED BY <1>2, <3>2, <3>3, <3>4
  <2> QED BY <2>5, <2>6, <2>7
<1> QED BY <1>4, <1>5

LEMMA InitOldInv == Init /\ hostSendsId = FALSE => OldInv
<1> SUFFICES ASSUME Init, hostSendsId = FALSE PROVE OldInv
  OBVIOUS
<1>1. << >> \in Seq(Names)
  BY EmptySeq
<1>2. Types
  BY <1>1, CapacityAssumption DEF Init, Types
<1>3. Sound(store, Seq(Names) \X Contexts, Rewrites) /\ DOMAIN store.items = {}
  BY EmptyStoreSound DEF Init
<1>4. OldMaps /\ OldDelivered /\ (\A r \in Requests : Wired(r) /\ delivered[r] = {})
  BY <1>3 DEF Init, OldMaps, OldDelivered, Wired
<1> QED BY <1>2, <1>3, <1>4 DEF OldInv

LEMMA OldReverse ==
  ASSUME OldInv, NEW r \in Requests, phase[r] = "sent",
         UNCHANGED <<hostSendsId, obfuscate, store, context, names, wire, newer>>,
         phase' \in {phase, [phase EXCEPT ![r] = "done"]},
         \/ delivered' = delivered
         \/ \E i \in 1..Len(wire[r]) :
              \E told \in {AfterResponse(r, i), AfterChunk(r, i)} :
                delivered' = [delivered EXCEPT ![r] = @ \cup {<<i, told>>}]
  PROVE  OldInv'
<1>1. Types'
  <2>1. delivered' \in [Requests -> SUBSET (Int \X Names)]
    <3>1. delivered \in [Requests -> SUBSET (Int \X Names)]
      BY DEF OldInv, Types
    <3>2. \A i \in 1..Len(wire[r]) : \A told \in {AfterResponse(r, i), AfterChunk(r, i)} :
            <<i, told>> \in Int \X Names
      BY OldRestored
    <3>3. CASE delivered' = delivered
      BY <3>1, <3>3
    <3>4. CASE delivered' # delivered
      <4>1. PICK i \in 1..Len(wire[r]) :
              \E told \in {AfterResponse(r, i), AfterChunk(r, i)} :
                delivered' = [delivered EXCEPT ![r] = @ \cup {<<i, told>>}]
        BY <3>4
      <4>2. PICK told \in {AfterResponse(r, i), AfterChunk(r, i)} :
              delivered' = [delivered EXCEPT ![r] = @ \cup {<<i, told>>}]
        BY <4>1
      <4>3. <<i, told>> \in Int \X Names
        BY <3>2
      <4> QED BY <3>1, <4>2, <4>3
    <3> QED BY <3>3, <3>4
  <2> QED BY <2>1 DEF OldInv, Types
<1>2. /\ Sound(store, Seq(Names) \X Contexts, Rewrites)' /\ OldMaps'
      /\ \A q \in Requests : Wired(q)'
  BY DEF OldInv, Sound, OldMaps, Wired
<1>3. \A q \in Requests : phase'[q] = "idle" => delivered'[q] = {}
  BY DEF OldInv, Types
<1>4. OldDelivered'
  <2> SUFFICES ASSUME NEW q \in Requests, NEW d \in delivered'[q]
               PROVE  /\ d[1] \in 1..Len(names[q])
                      /\ \/ d[2] \in {names[q][d[1]], wire[q][d[1]],
                                   StaticReplaced(names[q][d[1]])}
                         \/ LooksLikeAlias(names[q][d[1]])
    BY DEF OldDelivered, LooksLikeAlias, StaticReplaced
  <2>1. CASE d \in delivered[q]
    BY <2>1 DEF OldInv, OldDelivered
  <2>2. CASE d \notin delivered[q]
    <3>1. PICK i \in 1..Len(wire[r]) :
            \E told \in {AfterResponse(r, i), AfterChunk(r, i)} :
              delivered' = [delivered EXCEPT ![r] = @ \cup {<<i, told>>}]
      BY <2>2
    <3>2. PICK told \in {AfterResponse(r, i), AfterChunk(r, i)} :
            delivered' = [delivered EXCEPT ![r] = @ \cup {<<i, told>>}]
      BY <3>1
    <3>3. q = r /\ d = <<i, told>>
      BY <2>2, <3>2 DEF OldInv, Types
    <3> QED BY <3>3, OldRestored
  <2> QED BY <2>1, <2>2
<1> QED BY <1>1, <1>2, <1>3, <1>4 DEF OldInv

(* Both ways of sending a request. *)
LEMMA OldForward ==
  ASSUME OldInv, NEW r \in Requests, NEW list \in ToolLists,
         PassForeign(r, list) \/ interceptRequestBefore(r, list)
  PROVE  OldInv'
<1>1. PICK body \in {list, Aliases(list)} :
        /\ phase[r] = "idle" /\ phase' = [phase EXCEPT ![r] = "sent"]
        /\ names' = [names EXCEPT ![r] = list]
        /\ wire' = [wire EXCEPT ![r] = body]
        /\ UNCHANGED <<hostSendsId, obfuscate, context, delivered>>
        /\ newer' \in {newer, [q \in Requests |-> IF q = r THEN 0 ELSE OneMore(newer[q])]}
        /\ \/ store' = store
           \/ /\ Own(list) # EmptyRewrite
              /\ store' = Put(store, <<Aliases(list), context[r]>>, Own(list))
  <2>1. CASE PassForeign(r, list)
    BY <2>1 DEF PassForeign
  <2>2. CASE interceptRequestBefore(r, list) /\ obfuscate
    <3>1. Own(list) = EmptyRewrite => \A k : Put(store, k, Own(list)) = store
      BY NilAssumption DEF Put
    <3>2. rewriteKey(r, Aliases(list)) = <<Aliases(list), context[r]>>
      BY DEF OldInv, rewriteKey
    <3> QED BY <2>2, <3>1, <3>2 DEF interceptRequestBefore, Own, Aliases
  <2>3. CASE interceptRequestBefore(r, list) /\ ~obfuscate
    <3>1. \A k : Put(store, k, EmptyRewrite) = store
      BY NilAssumption DEF Put
    <3>2. AliasedList(EmptyRewrite, list) = list
      BY EmptyRewriteIsIdentity
    <3> QED BY <2>3, <3>1, <3>2 DEF interceptRequestBefore
  <2> QED BY <2>1, <2>2, <2>3
<1>2. Aliases(list) \in Seq(Names) /\ list \in Seq(Names)
  BY AliasedListShape, ListsAssumption DEF Aliases, Own
<1>3. Types'
  <2>1. newer' \in [Requests -> 0..Capacity]
    <3>1. newer \in [Requests -> 0..Capacity] /\ Capacity \in Nat
      BY CapacityAssumption DEF OldInv, Types
    <3>2. \A q \in Requests : OneMore(newer[q]) \in 0..Capacity
      BY <3>1 DEF OneMore
    <3>3. newer' \in {newer, [q \in Requests |-> IF q = r THEN 0 ELSE OneMore(newer[q])]}
      BY <1>1
    <3>4. [q \in Requests |-> IF q = r THEN 0 ELSE OneMore(newer[q])]
            \in [Requests -> 0..Capacity]
      BY <3>1, <3>2
    <3> QED BY <3>1, <3>3, <3>4
  <2>2. body \in Seq(Names)
    BY <1>2
  <2> QED BY <1>1, <2>1, <2>2 DEF OldInv, Types
<1>4. Sound(store', Seq(Names) \X Contexts, Rewrites) /\ OldMaps'
  <2> DEFINE key == <<Aliases(list), context[r]>>
             rw  == Own(list)
  <2>1. Sound(store, Seq(Names) \X Contexts, Rewrites) /\ OldMaps
    BY DEF OldInv
  <2>2. CASE store' = store
    BY <2>1, <2>2 DEF OldMaps
  <2>3. CASE rw # EmptyRewrite /\ store' = Put(store, key, rw)
    <3>1. /\ key \in Seq(Names) \X Contexts /\ context[r] \in Contexts
          /\ rw \in Rewrites /\ rw # NoRewrite
      BY <1>2, <2>3, NilAssumption DEF OldInv, Types, Own, Rewrites
    <3>2. CASE key = NoKey
      <4>1. store' = store
        BY <2>3, <3>2 DEF Put
      <4> QED BY <2>1, <4>1 DEF OldMaps
    <3>3. CASE key # NoKey
      <4>1. \A k \in DOMAIN store'.items :
              \/ k = key /\ store'.items[k] = rw
              \/ k \in DOMAIN store.items /\ store'.items[k] = store.items[k]
        <5> HIDE DEF key, rw
        <5>1. CASE key \in DOMAIN store.items
          BY <2>1, <2>3, <3>1, <3>3, <5>1, PutStored
        <5>2. CASE key \notin DOMAIN store.items
          <6>1. /\ DOMAIN Put(store, key, rw).items = {key} \cup
                     (DOMAIN store.items \ {store.order[i] : i \in 1..Dropped(store)})
                /\ \A k \in DOMAIN Put(store, key, rw).items :
                     Put(store, key, rw).items[k] = IF k = key THEN rw ELSE store.items[k]
            BY <2>1, <3>1, <3>3, <5>2, PutNew
          <6> QED BY <2>3, <6>1
        <5> QED BY <5>1, <5>2
      <4>2. Sound(store', Seq(Names) \X Contexts, Rewrites)
        <5> HIDE DEF key, rw
        <5> QED BY <2>1, <2>3, <3>1, <3>3, PutStored, PutNew
      <4>3. OldMaps'
        <5> SUFFICES ASSUME NEW k \in DOMAIN store'.items
                     PROVE  \E l \in ToolLists, c \in Contexts :
                              /\ store'.items[k] = Own(l)
                              /\ Own(l) # EmptyRewrite /\ k = <<Aliases(l), c>>
          BY DEF OldMaps
        <5>1. CASE k = key /\ store'.items[k] = rw
          BY <2>3, <3>1, <5>1
        <5>2. CASE k \in DOMAIN store.items /\ store'.items[k] = store.items[k]
          BY <2>1, <5>2 DEF OldMaps
        <5> QED BY <4>1, <5>1, <5>2
      <4> QED BY <4>2, <4>3
    <3> QED BY <3>2, <3>3
  <2> QED BY <1>1, <2>2, <2>3
<1>5. \A q \in Requests :
        /\ q = r => /\ names'[q] = list /\ wire'[q] = body
                    /\ phase'[q] = "sent" /\ delivered'[q] = {}
        /\ q # r => /\ names'[q] = names[q] /\ wire'[q] = wire[q]
                    /\ phase'[q] = phase[q] /\ delivered'[q] = delivered[q]
  BY <1>1 DEF OldInv, Types
<1>6. \A q \in Requests : Wired(q)' /\ (phase'[q] = "idle" => delivered'[q] = {})
  BY <1>5 DEF OldInv, Wired
<1>7. OldDelivered'
  BY <1>5 DEF OldInv, OldDelivered, LooksLikeAlias, StaticReplaced
<1> QED BY <1>1, <1>3, <1>4, <1>6, <1>7 DEF OldInv

LEMMA NextOldInv ==
  ASSUME OldInv, [Next]_vars
  PROVE  OldInv'
<1>1. ASSUME NEW r \in Requests, NEW list \in ToolLists,
             PassForeign(r, list) \/ interceptRequestBefore(r, list)
      PROVE  OldInv'
  BY <1>1, OldForward
<1>2. ASSUME NEW r \in Requests, interceptResponse(r)
      PROVE  OldInv'
  BY <1>2, OldReverse DEF interceptResponse
<1>3. ASSUME NEW r \in Requests, interceptStreamChunk(r)
      PROVE  OldInv'
  BY <1>3, OldReverse DEF interceptStreamChunk
<1>4. ASSUME NEW r \in Requests, Finish(r)
      PROVE  OldInv'
  BY <1>4, OldReverse DEF Finish
<1>5. CASE Reconfigure \/ UNCHANGED vars
  <2>1. /\ obfuscate' \in BOOLEAN
        /\ UNCHANGED <<hostSendsId, store, phase, context, names, wire, delivered, newer>>
    BY <1>5 DEF Reconfigure, vars, OldInv, Types
  <2>2. Types'
    BY <2>1 DEF OldInv, Types
  <2>3. /\ Sound(store, Seq(Names) \X Contexts, Rewrites)' /\ OldMaps'
        /\ \A q \in Requests : Wired(q)' /\ (phase'[q] = "idle" => delivered'[q] = {})
    BY <2>1 DEF OldInv, Sound, OldMaps, Wired
  <2>4. OldDelivered'
    BY <2>1 DEF OldInv, OldDelivered, LooksLikeAlias, StaticReplaced
  <2> QED BY <2>1, <2>2, <2>3, <2>4 DEF OldInv
<1> QED BY <1>1, <1>2, <1>3, <1>4, <1>5 DEF Next

-----------------------------------------------------------------------------
(* A host is of one kind or the other, and stays so.                       *)
LEMMA NativeInvariant == Spec => [](IInv \/ OldInv)
<1>1. Init => IInv \/ OldInv
  <2>1. Init => hostSendsId \in BOOLEAN
    BY DEF Init
  <2> QED BY <2>1, InitIInv, InitOldInv
<1>2. (IInv \/ OldInv) /\ [Next]_vars => (IInv \/ OldInv)'
  BY NextIInv, NextOldInv
<1> QED BY <1>1, <1>2, PTL DEF Spec

LEMMA TypesOfStore ==
  ASSUME Types, NEW K, Sound(store, K, Rewrites),
         \A r \in Requests : /\ Len(wire[r]) = Len(names[r])
                             /\ \A d \in delivered[r] : d[1] \in 1..Len(names[r])
  PROVE  TypeOK
<1>1. ASSUME NEW k \in DOMAIN store.items PROVE store.items[k].forward # << >>
  <2>1. PICK list \in ToolLists : store.items[k] = buildToolNameRewrite(list, TRUE)
                                  /\ store.items[k] # EmptyRewrite
    BY <1>1 DEF Sound, Rewrites
  <2>2. DOMAIN << >> = {}
    OBVIOUS
  <2>3. /\ DOMAIN ForwardMap(list, TRUE) # {}
        /\ store.items[k] = [forward |-> ForwardMap(list, TRUE),
                             reverse |-> ReverseMap(list, ForwardMap(list, TRUE))]
    BY <2>1 DEF buildToolNameRewrite
  <2>4. store.items[k].forward = ForwardMap(list, TRUE)
    BY <2>3
  <2> QED BY <2>2, <2>3, <2>4
<1>2. \A r \in Requests :
        /\ wire[r] \in Seq(Names)
        /\ delivered[r] \subseteq (1..Len(names[r])) \X Names
  BY DEF Types
<1> QED BY <1>1, <1>2 DEF TypeOK, Types

(* Each variable has its type: names that arrive are names of tools the    *)
(* request has, and no stored rewrite is empty.                            *)
THEOREM NativeTypeOK == Spec => []TypeOK
<1>1. IInv => TypeOK
  BY WireShape, TypesOfStore DEF IInv, Delivered
<1>2. OldInv => TypeOK
  BY OldShape, TypesOfStore DEF OldInv, OldDelivered
<1> QED BY <1>1, <1>2, NativeInvariant, PTL

(* On a host that sends a RequestID a client is never told to call a tool  *)
(* other than the one meant.                                               *)
THEOREM NativeNeverWrongTool == Spec => []NeverWrongTool
<1>1. IInv => NeverWrongTool
  BY DEF IInv, Delivered, NeverWrongTool
<1>2. OldInv => NeverWrongTool
  BY DEF OldInv, NeverWrongTool
<1> QED BY <1>1, <1>2, NativeInvariant, PTL

(* On such a host a client sees an alias only after Capacity later         *)
(* requests entered the store.                                             *)
THEOREM NativeLeakMeansEvicted == Spec => []LeakMeansEvicted
<1>1. IInv => LeakMeansEvicted
  BY DEF IInv, Delivered, LeakMeansEvicted
<1>2. OldInv => LeakMeansEvicted
  BY DEF OldInv, LeakMeansEvicted
<1> QED BY <1>1, <1>2, NativeInvariant, PTL

(* On a host of either kind a client reads its own name, the alias as it   *)
(* was sent, or its own name with the static prefixes in it undone, unless *)
(* the whole name is an alias the rules make; although requests of a host  *)
(* without RequestID may find the map of another request.                  *)
THEOREM NativeOnlyLookalikesConfused == Spec => []OnlyLookalikesConfused
<1>1. IInv => OnlyLookalikesConfused
  BY DEF IInv, Delivered, OnlyLookalikesConfused
<1>2. OldInv => OnlyLookalikesConfused
  BY DEF OldInv, OldDelivered, OnlyLookalikesConfused
<1> QED BY <1>1, <1>2, NativeInvariant, PTL

(* On a host that sends a RequestID reconfiguring changes nothing of what  *)
(* is in flight.                                                           *)
THEOREM NativeReconfigureInvisible == Spec => ReconfigureInvisible
<1>1. ASSUME Next, hostSendsId, obfuscate' # obfuscate,
             NEW r \in Requests, NEW i \in 1..Len(wire[r])
      PROVE  /\ AfterResponse(r, i)' = AfterResponse(r, i)
             /\ AfterChunk(r, i)' = AfterChunk(r, i)
  <2>1. UNCHANGED <<hostSendsId, store, wire, context>>
    BY <1>1 DEF Next, Reconfigure, PassForeign, interceptRequestBefore,
       interceptResponse, interceptStreamChunk, Finish
  <2>2. \A rw, w : restoreWith(rw, w)' = restoreWith(rw, w)
    BY <1>1, <2>1 DEF restoreWith
  <2> QED BY <2>1, <2>2 DEF AfterResponse, AfterChunk, rewriteKey, Get
<1>2. [Next]_vars => [hostSendsId /\ obfuscate' # obfuscate =>
         \A r \in Requests : phase[r] = "sent" =>
           \A i \in 1..Len(wire[r]) :
             /\ AfterResponse(r, i)' = AfterResponse(r, i)
             /\ AfterChunk(r, i)' = AfterChunk(r, i)]_vars
  BY <1>1
<1> QED BY <1>2, PTL DEF Spec, ReconfigureInvisible

-----------------------------------------------------------------------------
(* The steps of the promise that the steps of the route make.  A request   *)
(* that is sent, in either way, is admitted: it had received nothing.      *)
LEMMA SendingAdmits ==
  ASSUME Types, NEW r \in Requests, NEW list \in ToolLists, delivered[r] = {},
         PassForeign(r, list) \/ interceptRequestBefore(r, list)
  PROVE  Promise!Next
<1> DEFINE T == 1..Len(list)
<1>1. /\ phase[r] = "idle" /\ phase' = [phase EXCEPT ![r] = "sent"]
      /\ names' = [names EXCEPT ![r] = list]
      /\ \A q \in Requests : q # r => wire'[q] = wire[q]
      /\ UNCHANGED <<hostSendsId, delivered>>
      /\ \/ newer' = newer
         \/ newer' = [q \in Requests |-> IF q = r THEN 0 ELSE OneMore(newer[q])]
  BY DEF PassForeign, interceptRequestBefore, Types
<1>2. \A q \in Requests : names'[q] = IF q = r THEN list ELSE names[q]
  BY <1>1 DEF Types
<1>3. [q \in Requests |-> 1..Len(names'[q])]
        = [[q \in Requests |-> 1..Len(names[q])] EXCEPT ![r] = T]
  BY <1>2
<1>4. T \in SUBSET UNION {1..Len(l) : l \in ToolLists}
  OBVIOUS
<1>5. \A q \in Requests : Seen(q)' = Seen(q)
  <2> SUFFICES ASSUME NEW q \in Requests PROVE Seen(q)' = Seen(q)
    OBVIOUS
  <2>1. CASE q = r
    BY <1>1, <2>1 DEF Seen
  <2>2. CASE q # r
    <3>1. \A d \in delivered[q] : Kind(q, d)' = Kind(q, d)
      BY <1>1, <1>2, <2>2 DEF Kind
    <3>2. {<<d[1], Kind(q, d)'>> : d \in delivered'[q]}
            = {<<d[1], Kind(q, d)>> : d \in delivered[q]}
      BY <1>1, <3>1
    <3> QED BY <1>1, <3>2 DEF Seen
  <2> QED BY <2>1, <2>2
<1>6. \/ newer' = newer
      \/ newer' = [q \in Requests |-> IF q = r THEN 0 ELSE Promise!Older(newer[q])]
  BY <1>1 DEF OneMore, Promise!Older
<1> HIDE DEF T
<1>7. Promise!Admit(r)
  BY <1>1, <1>3, <1>4, <1>5, <1>6 DEF Promise!Admit
<1> QED BY <1>7 DEF Promise!Next

(* What a reverse hook adds to what a client received, it is told; that it *)
(* is its own name or an excused alias is the invariant after the step.    *)
LEMMA DeliveringTells ==
  ASSUME IInv, IInv', NEW r \in Requests, NEW i \in 1..Len(wire[r]), NEW w,
         phase[r] = "sent",
         phase' \in {phase, [phase EXCEPT ![r] = "done"]},
         delivered' = [delivered EXCEPT ![r] = @ \cup {<<i, w>>}],
         UNCHANGED <<names, wire, newer>>
  PROVE  Promise!Next
<1> DEFINE how == Kind(r, <<i, w>>)
<1>1. delivered'[r] = delivered[r] \cup {<<i, w>>}
      /\ \A q \in Requests : q # r => delivered'[q] = delivered[q]
  BY DEF IInv, Types
<1>2. /\ i \in 1..Len(names[r])
      /\ \/ w = names[r][i]
         \/ w = wire[r][i] /\ newer[r] = Capacity
  <2>1. <<i, w>> \in delivered'[r]
    BY <1>1
  <2> QED BY <2>1 DEF IInv, Delivered
<1>3. how \in {"own", "alias"} /\ (how = "alias" => newer[r] = Capacity)
  BY <1>2 DEF Kind
<1>4. i \in UNION {1..Len(l) : l \in ToolLists}
  <2>1. names[r] # << >>
    BY <1>2, EmptySeq
  <2> QED BY <1>2, <2>1 DEF IInv, Types
<1>5. \A q \in Requests : \A d : Kind(q, d)' = Kind(q, d)
  BY DEF Kind
<1>6. \A q \in Requests :
        Seen(q)' = IF q = r THEN Seen(r) \cup {<<i, how>>} ELSE Seen(q)
  <2>1. \A q \in Requests :
          {<<d[1], Kind(q, d)'>> : d \in delivered'[q]}
            = IF q = r THEN {<<d[1], Kind(r, d)>> : d \in delivered[r]} \cup {<<i, how>>}
              ELSE {<<d[1], Kind(q, d)>> : d \in delivered[q]}
    BY <1>1, <1>5
  <2>2. \A q \in Requests :
          /\ Seen(q) = {<<d[1], Kind(q, d)>> : d \in delivered[q]}
          /\ Seen(q)' = {<<d[1], Kind(q, d)'>> : d \in delivered'[q]}
    BY DEF IInv, Seen
  <2> HIDE DEF how
  <2> QED BY <2>1, <2>2
<1> HIDE DEF how
<1>7. [q \in Requests |-> Seen(q)'] = [[q \in Requests |-> Seen(q)]
                                         EXCEPT ![r] = @ \cup {<<i, how>>}]
  BY <1>6
<1>8. PICK h \in {"own", "alias"} : h = how
  BY <1>3
<1>9. Promise!Tell(r, i, h)
  BY <1>2, <1>3, <1>7, <1>8 DEF Promise!Tell
<1> QED BY <1>4, <1>9 DEF Promise!Next

(* A step after which the clients have seen what they had seen before.     *)
LEMMA ClosingOrNothing ==
  ASSUME \A q \in Requests : Seen(q)' = Seen(q), UNCHANGED <<names, newer>>,
         \/ phase' = phase
         \/ \E r \in Requests : phase[r] = "sent" /\ phase' = [phase EXCEPT ![r] = "done"]
  PROVE  [Promise!Next]_(Promise!vars)
<1>1. /\ [q \in Requests |-> Seen(q)'] = [q \in Requests |-> Seen(q)]
      /\ [q \in Requests |-> 1..Len(names'[q])] = [q \in Requests |-> 1..Len(names[q])]
  OBVIOUS
<1>2. CASE phase' = phase
  BY <1>1, <1>2 DEF Promise!vars
<1>3. ASSUME NEW r \in Requests, phase[r] = "sent", phase' = [phase EXCEPT ![r] = "done"]
      PROVE  Promise!Next
  <2>1. Promise!Close(r)
    BY <1>1, <1>3 DEF Promise!Close
  <2> QED BY <2>1 DEF Promise!Next
<1> QED BY <1>2, <1>3

LEMMA NextKeepsPromise ==
  ASSUME (IInv \/ OldInv), (IInv \/ OldInv)', [Next]_vars
  PROVE  [Promise!Next]_(Promise!vars)
<1>1. ASSUME NEW r \in Requests, NEW list \in ToolLists,
             PassForeign(r, list) \/ interceptRequestBefore(r, list)
      PROVE  Promise!Next
  <2>1. phase[r] = "idle"
    BY <1>1 DEF PassForeign, interceptRequestBefore
  <2>2. Types /\ delivered[r] = {}
    BY <2>1 DEF IInv, IdleIsBlank, OldInv
  <2> QED BY <1>1, <2>2, SendingAdmits
<1>2. ASSUME NEW r \in Requests, interceptResponse(r) \/ interceptStreamChunk(r)
      PROVE  [Promise!Next]_(Promise!vars)
  <2>1. /\ phase[r] = "sent" /\ phase' \in {phase, [phase EXCEPT ![r] = "done"]}
        /\ UNCHANGED <<hostSendsId, names, wire, newer>>
    BY <1>2 DEF interceptResponse, interceptStreamChunk
  <2>2. CASE IInv
    <3>1. IInv'
      BY <2>1, <2>2 DEF IInv, OldInv
    <3>2. PICK i \in 1..Len(wire[r]) : \E w \in {AfterResponse(r, i), AfterChunk(r, i)} :
            delivered' = [delivered EXCEPT ![r] = @ \cup {<<i, w>>}]
      BY <1>2 DEF interceptResponse, interceptStreamChunk
    <3> QED BY <2>1, <2>2, <3>1, <3>2, DeliveringTells
  <2>3. CASE OldInv
    <3>1. \A q \in Requests : Seen(q)' = Seen(q)
      BY <2>1, <2>3 DEF OldInv, Seen
    <3> QED BY <2>1, <3>1, ClosingOrNothing
  <2> QED BY <2>2, <2>3
<1>3. ASSUME NEW r \in Requests, Finish(r)
      PROVE  [Promise!Next]_(Promise!vars)
  <2>1. \A q \in Requests : Seen(q)' = Seen(q)
    BY <1>3 DEF Finish, Seen, Kind
  <2> QED BY <1>3, <2>1, ClosingOrNothing DEF Finish
<1>4. CASE UNCHANGED <<hostSendsId, phase, names, wire, delivered, newer>>
  <2>1. \A q \in Requests : Seen(q)' = Seen(q)
    BY <1>4 DEF Seen, Kind
  <2> QED BY <1>4, <2>1, ClosingOrNothing
<1> QED BY <1>1, <1>2, <1>3, <1>4 DEF Next, Reconfigure, vars

(* The native route keeps the promise of TransparentNames: the store, the  *)
(* config and the renaming are invisible to its clients, on a host that    *)
(* sends a RequestID.                                                      *)
THEOREM NativeKeepsPromise == Spec => KeepsPromise
<1>1. Init => Promise!Init
  BY EmptySeq DEF Init, Promise!Init, Seen
<1>2. (IInv \/ OldInv) /\ (IInv \/ OldInv)' /\ [Next]_vars
        => [Promise!Next]_(Promise!vars)
  BY NextKeepsPromise
<1> QED BY <1>1, <1>2, NativeInvariant, PTL DEF Spec, KeepsPromise, Promise!Spec
=============================================================================
