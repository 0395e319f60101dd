------------------------ MODULE TranslatedRouteProofs ------------------------
(***************************************************************************)
(* The translated routes, for any number of clients, every capacity and    *)
(* every pair of alias rules that meets the assumptions.  The store may    *)
(* hold, under the aliases of a client, the map of another client with the *)
(* same aliases, or none.  What protects a client then is that its own     *)
(* names are quoted in its request, and that equal aliases of different    *)
(* names can only come from the static rules, which are injective.  An     *)
(* alias that a client quotes itself is the one it may see in any case.    *)
(***************************************************************************)
EXTENDS TranslatedRoute, RewriteLemmas

Rewrites == {Own(list) : list \in ToolLists} \ {EmptyRewrite}

Types ==
  /\ obfuscate \in BOOLEAN
  /\ tools \in [Clients -> ToolLists]
  /\ quotes \in [Clients -> SUBSET Quotable]
  /\ history \in [Clients -> SUBSET Names]
  /\ phase \in [Clients -> {"idle", "sent"}]
  /\ original \in [Clients -> SUBSET Names]
  /\ wire \in [Clients -> Seq(Names)]
  /\ delivered \in [Clients -> SUBSET (Int \X Names)]
  /\ missed \in [Clients -> BOOLEAN]
  /\ everMissed \in [Clients -> BOOLEAN]

\* A map is stored under the aliases of the list it was built from.
Maps ==
  \A k \in DOMAIN store.items : \E list \in ToolLists :
    store.items[k] = Own(list) /\ Own(list) # EmptyRewrite /\ k = Aliases(list)

Pending(c) ==
  phase[c] = "sent" =>
    /\ wire[c] \in {tools[c], Aliases(tools[c])}
    /\ Range(tools[c]) \subseteq original[c]
    /\ original[c] \subseteq Range(tools[c]) \cup history[c] \cup quotes[c]

IsStatic(c) == Len(tools[c]) <= Threshold /\ tools[c] \in UnsharedLists

Remembered(c) ==
  /\ NoMap(c) => everMissed[c]
  /\ ~everMissed[c] \/ IsStatic(c) =>
       history[c] \subseteq Range(tools[c]) \cup quotes[c]

Told(c) ==
  /\ phase[c] = "idle" => delivered[c] = {}
  /\ \A d \in delivered[c] :
       /\ d[1] \in 1..Len(tools[c])
       /\ d[2] \in {tools[c][d[1]], wire[c][d[1]]}
       /\ ~everMissed[c] \/ IsStatic(c) =>
            d[2] = tools[c][d[1]] \/ wire[c][d[1]] \in quotes[c]

IInv ==
  /\ Types
  /\ Sound(store, Seq(Names), Rewrites)
  /\ Maps
  /\ \A c \in Clients : Pending(c) /\ Remembered(c) /\ Told(c)

-----------------------------------------------------------------------------
(* What is assumed of the static prefixes read backwards keeps the two     *)
(* kinds of aliases apart.                                                 *)
LEMMA Apart == ApartFromStatic
<1> SUFFICES ASSUME NEW list \in ToolLists, NEW i \in 1..Len(list),
                    DynamicAlias(list, i) \in Range(StaticAlias)
             PROVE  FALSE
  BY DEF ApartFromStatic
<1>1. PICK n \in DOMAIN StaticAlias : DynamicAlias(list, i) = StaticAlias[n]
  BY DEF Range
<1> QED BY <1>1, FallbackAssumption

(* The static prefixes bring an undeclared alias of a list back, or leave  *)
(* it; below the threshold they bring it back.                             *)
LEMMA BackWithoutMap ==
  ASSUME NEW list \in ToolLists, NEW i \in 1..Len(list),
         Aliases(list)[i] \notin Range(list)
  PROVE  /\ unaliasToolName(Aliases(list)[i]) \in {list[i], Aliases(list)[i]}
         /\ ~(Len(list) > Threshold) => unaliasToolName(Aliases(list)[i]) = list[i]
<1> DEFINE n == list[i]
           w == Aliases(list)[i]
<1>1. n \in Renamed(list, TRUE) /\ w = sanitizeToolName(n, list, TRUE)
  BY AliasInPlace
<1>2. CASE Len(list) > Threshold
  <2>1. w = DynamicAlias(list, LastIndex(list, n)) /\ LastIndex(list, n) \in 1..Len(list)
    BY <1>1, <1>2, LastIndexHolds DEF sanitizeToolName, Renamed
  <2>2. w \notin DOMAIN StaticPrefixed
    BY <2>1, FallbackAssumption
  <2> QED BY <1>2, <2>2 DEF unaliasToolName
<1>3. CASE ~(Len(list) > Threshold)
  <2>1. n \in DOMAIN StaticAlias /\ w = StaticAlias[n]
    BY <1>1, <1>3, Apart, DynamicOrStatic
  <2> QED BY <2>1, FallbackAssumption
<1> QED BY <1>2, <1>3

(* A rewrite that is not empty changes the list it was built from. *)
LEMMA RenamesSomething ==
  ASSUME NEW list \in ToolLists, Own(list) # EmptyRewrite
  PROVE  Aliases(list) # list
<1>1. PICK n \in Renamed(list, TRUE) : TRUE
  BY DEF Own, buildToolNameRewrite, ForwardMap
<1>2. n \in Range(list) /\ sanitizeToolName(n, list, TRUE) # n
  BY DEF Renamed
<1>3. PICK i \in 1..Len(list) : list[i] = n
  BY <1>2, ListsAssumption, LenProperties DEF Range
<1>4. Aliases(list)[i] = Alias(Own(list), n)
  BY <1>3, AliasedListShape DEF Aliases, Own
<1>5. /\ DOMAIN Own(list).forward = Renamed(list, TRUE)
      /\ Own(list).forward[n] = sanitizeToolName(n, list, TRUE)
  BY RewriteMaps DEF Own
<1> QED BY <1>2, <1>3, <1>4, <1>5 DEF Alias

-----------------------------------------------------------------------------
(* The shape of what is pending. *)
LEMMA PendingShape ==
  ASSUME IInv, NEW c \in Clients, phase[c] = "sent"
  PROVE  /\ tools[c] \in ToolLists
         /\ Len(wire[c]) = Len(tools[c]) /\ Len(tools[c]) \in Nat
         /\ \A i \in 1..Len(tools[c]) :
              tools[c][i] \in Range(tools[c]) /\ tools[c][i] \in Names /\ wire[c][i] \in Names
<1>1. tools[c] \in ToolLists /\ wire[c] \in Seq(Names)
  BY DEF IInv, Types
<1>2. tools[c] \in Seq(Names) /\ DOMAIN tools[c] = 1..Len(tools[c]) /\ Len(tools[c]) \in Nat
  BY <1>1, ListsAssumption, LenProperties
<1>3. Len(wire[c]) = Len(tools[c])
  BY <1>1, AliasedListShape DEF IInv, Pending, Aliases, Own
<1>4. \A i \in 1..Len(tools[c]) : tools[c][i] \in Names /\ wire[c][i] \in Names
  BY <1>1, <1>2, <1>3, ElementOfSeq
<1> QED BY <1>1, <1>2, <1>3, <1>4 DEF Range

(* What a client is told of one name in a line. *)
LEMMA Restored ==
  ASSUME IInv, NEW c \in Clients, phase[c] = "sent", NEW i \in 1..Len(wire[c]),
         NEW name, name = restoreToolUseName(Get(store, translatedToolsKey(wire[c])),
                                             wire[c][i], original[c])
  PROVE  /\ name \in {tools[c][i], wire[c][i]}
         /\ ~everMissed[c] \/ IsStatic(c) =>
              name = tools[c][i] \/ wire[c][i] \in quotes[c]
<1> DEFINE rw == Get(store, translatedToolsKey(wire[c]))
           w  == wire[c][i]
           n  == tools[c][i]
<1>1. /\ tools[c] \in ToolLists /\ i \in 1..Len(tools[c])
      /\ n \in Range(tools[c]) /\ Len(tools[c]) \in Nat
  BY PendingShape
<1>2. /\ wire[c] \in {tools[c], Aliases(tools[c])}
      /\ Range(tools[c]) \subseteq original[c]
      /\ original[c] \subseteq Range(tools[c]) \cup history[c] \cup quotes[c]
      /\ ~everMissed[c] \/ IsStatic(c) =>
           original[c] \subseteq Range(tools[c]) \cup quotes[c]
      /\ NoMap(c) => everMissed[c]
  BY DEF IInv, Pending, Remembered
<1>3. CASE w \in Range(tools[c])
  <2>1. name = w
    BY <1>2, <1>3 DEF restoreToolUseName
  <2>2. w = n
    <3>1. CASE wire[c] = tools[c]
      BY <3>1
    <3>2. CASE wire[c] = Aliases(tools[c])
      <4>1. w = Alias(Own(tools[c]), n)
        BY <1>1, <3>2, AliasedListShape DEF Aliases, Own
      <4>2. w \notin DOMAIN Own(tools[c]).reverse
        BY <1>1, <1>3, RewriteMaps DEF Own
      <4>3. Unalias(Own(tools[c]), w) = n
        BY <1>1, <4>1, RoundTrip DEF Own
      <4> QED BY <4>2, <4>3 DEF Unalias
    <3> QED BY <1>2, <3>1, <3>2
  <2> QED BY <2>1, <2>2
<1>4. CASE w \notin Range(tools[c])
  <2>1. wire[c] = Aliases(tools[c]) /\ w = Aliases(tools[c])[i]
    BY <1>1, <1>2, <1>4
  <2>2. wire[c] # << >> /\ wire[c] # tools[c]
    <3>1. Len(wire[c]) # 0  BY <1>1, PendingShape
    <3>2. wire[c] # << >>  BY <3>1, EmptySeq
    <3> QED BY <1>1, <1>4, <3>2
  <2>3. translatedToolsKey(wire[c]) = wire[c]
    BY <2>2 DEF translatedToolsKey
  <2>4. rw = NoRewrite \/ (wire[c] \in DOMAIN store.items /\ rw = store.items[wire[c]])
    BY <2>3 DEF Get
  <2>5. CASE rw = NoRewrite
    <3>1. /\ unaliasToolName(w) \in {n, w}
          /\ ~(Len(tools[c]) > Threshold) => unaliasToolName(w) = n
      BY <1>1, <1>4, <2>1, BackWithoutMap
    <3>2. unaliasTranslatedName(rw, w) = unaliasToolName(w)
      BY <2>5, NilAssumption DEF unaliasTranslatedName
    <3>3. name \in {w, unaliasToolName(w)}
      BY <3>2 DEF restoreToolUseName
    <3>4. everMissed[c]
      <4>1. AliasedBack(rw, wire[c])[i] = w
        <5>1. \A x : Unalias(EmptyRewrite, x) = x
          <6>1. DOMAIN << >> = {}  OBVIOUS
          <6> QED BY <6>1 DEF Unalias, EmptyRewrite
        <5>2. i \in DOMAIN wire[c]
          BY <1>1, LenProperties DEF IInv, Types
        <5> QED BY <2>5, <5>1, <5>2, NilAssumption DEF AliasedBack
      <4>2. AliasedBack(rw, wire[c]) # tools[c]
        BY <1>1, <1>4, <4>1
      <4>3. NoMap(c)
        BY <2>2, <4>2 DEF NoMap
      <4> QED BY <1>2, <4>3
    <3>5. IsStatic(c) => name = n \/ w \in quotes[c]
      <4> SUFFICES ASSUME IsStatic(c), w \notin quotes[c] PROVE name = n
        OBVIOUS
      <4>1. ~(Len(tools[c]) > Threshold)
        BY <1>1, ThresholdAssumption DEF IsStatic
      <4>2. w \notin original[c]
        BY <1>2, <1>4
      <4> QED BY <3>1, <3>2, <4>1, <4>2 DEF restoreToolUseName
    <3> HIDE DEF rw
    <3> QED BY <3>1, <3>3, <3>4, <3>5
  <2>6. CASE wire[c] \in DOMAIN store.items /\ rw = store.items[wire[c]] /\ rw # NoRewrite
    <3>1. PICK other \in ToolLists :
            rw = Own(other) /\ Own(other) # EmptyRewrite /\ wire[c] = Aliases(other)
      BY <2>6 DEF IInv, Maps
    <3>2. Unalias(rw, w) \in {n, w}
      BY <1>1, <1>4, <2>1, <3>1, BackThroughShared, Apart, ChanceAssumption
    <3>3. unaliasTranslatedName(rw, w) = Unalias(rw, w)
      BY <2>6, NilAssumption DEF unaliasTranslatedName
    <3>4. name \in {w, Unalias(rw, w)}
      BY <3>3 DEF restoreToolUseName
    <3>5. ~everMissed[c] => name = n \/ w \in quotes[c]
      <4> SUFFICES ASSUME ~everMissed[c], w \notin quotes[c] PROVE name = n
        OBVIOUS
      <4>1. AliasedBack(rw, wire[c]) = tools[c]
        BY <1>2, <2>2 DEF NoMap
      <4>2. i \in DOMAIN wire[c]
        BY <1>1, LenProperties DEF IInv, Types
      <4>3. Unalias(rw, w) = n
        <5> HIDE DEF rw
        <5> QED BY <4>1, <4>2 DEF AliasedBack
      <4>4. w \notin original[c]
        BY <1>2, <1>4
      <4> QED BY <3>3, <4>3, <4>4 DEF restoreToolUseName
    <3>6. IsStatic(c) => name = n \/ w \in quotes[c]
      <4> SUFFICES ASSUME IsStatic(c), w \notin quotes[c] PROVE name = n
        OBVIOUS
      <4>1. other = tools[c]
        <5>1. Aliases(other) = Aliases(tools[c]) /\ other \in ToolLists
          BY <2>1, <3>1
        <5>2. Aliases(other) # other
          BY <3>1, RenamesSomething
        <5> QED BY <5>1, <5>2 DEF IsStatic, UnsharedLists, Aliases, Own
      <4>2. Unalias(rw, w) = n
        <5>1. w = Alias(Own(tools[c]), n)
          BY <1>1, <2>1, AliasedListShape DEF Aliases, Own
        <5>2. Unalias(Own(tools[c]), Alias(Own(tools[c]), n)) = n
          BY <1>1, RoundTrip DEF Own
        <5>3. rw = Own(tools[c])
          BY <3>1, <4>1
        <5> HIDE DEF rw
        <5> QED BY <5>1, <5>2, <5>3
      <4>3. w \notin original[c]
        BY <1>2, <1>4
      <4> QED BY <3>3, <4>2, <4>3 DEF restoreToolUseName
    <3> HIDE DEF rw
    <3> QED BY <3>2, <3>4, <3>5, <3>6
  <2> QED BY <2>4, <2>5, <2>6
<1> QED BY <1>3, <1>4

-----------------------------------------------------------------------------
LEMMA InitIInv == Init => IInv
<1> SUFFICES ASSUME Init PROVE IInv
  OBVIOUS
<1>1. /\ Sound(store, Seq(Names), Rewrites) /\ DOMAIN store.items = {}
  BY EmptyStoreSound DEF Init
<1>2. Types
  <2>1. << >> \in Seq(Names)
    BY EmptySeq
  <2> QED BY <2>1 DEF Init, Types
<1>3. Maps
  BY <1>1 DEF Maps
<1>4. \A c \in Clients : Pending(c) /\ Remembered(c) /\ Told(c)
  BY DEF Init, Pending, Remembered, Told, NoMap
<1> QED BY <1>1, <1>2, <1>3, <1>4 DEF IInv

(* The put of normalizeRequest. *)
LEMMA PutKeepsMaps ==
  ASSUME IInv, NEW list \in ToolLists, Own(list) # EmptyRewrite,
         store' = Put(store, translatedToolsKey(Aliases(list)), Own(list))
  PROVE  Sound(store', Seq(Names), Rewrites) /\ Maps'
<1> DEFINE key == Aliases(list)
           rw  == Own(list)
<1>1. Sound(store, Seq(Names), Rewrites) /\ Maps
  BY DEF IInv
<1>2. key \in Seq(Names) /\ rw \in Rewrites /\ rw # NoRewrite
  BY AliasedListShape, NilAssumption DEF Aliases, Own, Rewrites
<1>3. key # << >>
  <2>1. list # << >>
    <3> SUFFICES ASSUME list = << >> PROVE FALSE
      OBVIOUS
    <3>1. Aliases(list) = << >>
      BY AliasedListShape, EmptySeq DEF Aliases, Own
    <3> QED BY <3>1, RenamesSomething
  <2>2. Len(list) # 0
    BY <2>1, ListsAssumption, EmptySeq
  <2>3. Len(key) = Len(list)
    BY AliasedListShape DEF Aliases, Own
  <2> QED BY <2>2, <2>3, EmptySeq
<1>4. translatedToolsKey(key) = key
  BY <1>3 DEF translatedToolsKey
<1>5. CASE key = NoKey
  <2>1. store' = store
    BY <1>4, <1>5 DEF Put
  <2> QED BY <1>1, <2>1 DEF Maps
<1>6. CASE key # NoKey
  <2> HIDE DEF key, rw
  <2>1. store' = Put(store, key, rw)
    BY <1>4 DEF key, rw
  <2>2. /\ Sound(store', Seq(Names), Rewrites)
        /\ \A k \in DOMAIN store'.items :
             \/ k = key /\ store'.items[k] = rw
             \/ k \in DOMAIN store.items /\ store'.items[k] = store.items[k]
    <3>1. CASE key \in DOMAIN store.items
      BY <1>1, <1>2, <1>6, <2>1, <3>1, PutStored
    <3>2. CASE key \notin DOMAIN store.items
      <4>1. /\ Sound(Put(store, key, rw), Seq(Names), Rewrites)
            /\ DOMAIN Put(store, key, rw).items = {key} \cup
                 (DOMAIN store.items \ {store.order[i] : i \in 1..Dropped(store)})
            /\ \A k \in DOMAIN Put(store, key, rw).items :
                 Put(store, key, rw).items[k] = IF k = key THEN rw ELSE store.items[k]
        BY <1>1, <1>2, <1>6, <3>2, PutNew
      <4> QED BY <2>1, <4>1
    <3> QED BY <3>1, <3>2
  <2>3. Maps'
    <3> SUFFICES ASSUME NEW k \in DOMAIN store'.items
                 PROVE  \E l \in ToolLists : /\ store'.items[k] = Own(l)
                                            /\ Own(l) # EmptyRewrite /\ k = Aliases(l)
      BY DEF Maps
    <3>1. CASE k = key /\ store'.items[k] = rw
      BY <3>1 DEF key, rw
    <3>2. CASE k \in DOMAIN store.items /\ store'.items[k] = store.items[k]
      BY <1>1, <3>2 DEF Maps
    <3> QED BY <2>2, <3>1, <3>2
  <2> QED BY <2>2, <2>3
<1> QED BY <1>5, <1>6

LEMMA NextIInv == IInv /\ [Next]_vars => IInv'
<1> SUFFICES ASSUME IInv, [Next]_vars PROVE IInv'
  OBVIOUS
<1>1. /\ Types /\ Sound(store, Seq(Names), Rewrites) /\ Maps
      /\ \A c \in Clients : Pending(c) /\ Remembered(c) /\ Told(c)
  BY DEF IInv
<1>2. CASE Reconfigure
  <2>1. Types'
    BY <1>1, <1>2 DEF Types, Reconfigure
  <2>2. \A c \in Clients : Pending(c)' /\ Remembered(c)' /\ Told(c)'
    BY <1>1, <1>2 DEF Reconfigure, Pending, Remembered, Told, NoMap, IsStatic
  <2> QED BY <1>1, <1>2, <2>1, <2>2 DEF IInv, Maps, Reconfigure
<1>3. CASE Restart
  <2>1. Sound(store', Seq(Names), Rewrites) /\ DOMAIN store'.items = {}
    BY <1>3, EmptyStoreSound DEF Restart
  <2>2. Maps'
    BY <2>1 DEF Maps
  <2>3. \A c \in Clients : everMissed'[c] = (everMissed[c] \/ NoMap(c)')
    BY <1>3 DEF Restart, NoteMissing
  <2>4. Types'
    BY <1>1, <1>3 DEF Types, Restart, NoteMissing, NoMap
  <2>5. \A c \in Clients : Pending(c)' /\ Told(c)'
    BY <1>1, <1>3, <2>3 DEF Restart, Pending, Told, IsStatic
  <2>6. \A c \in Clients : Remembered(c)'
    BY <1>1, <1>3, <2>3 DEF Restart, Remembered, IsStatic
  <2> QED BY <2>1, <2>2, <2>4, <2>5, <2>6 DEF IInv
<1>4. ASSUME NEW c \in Clients, normalizeRequest(c) PROVE IInv'
  <2> DEFINE rw   == IF obfuscate THEN OwnRewrite(c) ELSE EmptyRewrite
             body == AliasedList(rw, tools[c])
  <2>1. /\ phase[c] = "idle" /\ phase' = [phase EXCEPT ![c] = "sent"]
        /\ original' = [original EXCEPT ![c] = Range(tools[c]) \cup history[c] \cup quotes[c]]
        /\ wire' = [wire EXCEPT ![c] = body]
        /\ store' = IF rw = EmptyRewrite THEN store
                    ELSE Put(store, translatedToolsKey(body), rw)
        /\ UNCHANGED <<obfuscate, tools, quotes, history, delivered>>
        /\ NoteMissing
    BY <1>4 DEF normalizeRequest
  <2>2. tools[c] \in ToolLists
    BY <1>1 DEF Types
  <2>3. body \in {tools[c], Aliases(tools[c])} /\ body \in Seq(Names)
    <3>1. CASE obfuscate
      BY <2>2, <3>1, AliasedListShape DEF OwnRewrite, Aliases, Own
    <3>2. CASE ~obfuscate
      <4>1. body = tools[c]
        BY <2>2, <3>2, EmptyRewriteIsIdentity
      <4> QED BY <2>2, <4>1, ListsAssumption
    <3> QED BY <3>1, <3>2
  <2>4. Sound(store', Seq(Names), Rewrites) /\ Maps'
    <3>1. CASE rw = EmptyRewrite
      <4>1. store' = store
        BY <2>1, <3>1
      <4> QED BY <1>1, <4>1 DEF Maps
    <3>2. CASE rw # EmptyRewrite
      <4>1. /\ rw = Own(tools[c]) /\ Own(tools[c]) # EmptyRewrite
            /\ body = Aliases(tools[c])
        BY <3>2 DEF OwnRewrite, Own, Aliases
      <4>2. store' = Put(store, translatedToolsKey(Aliases(tools[c])), Own(tools[c]))
        <5> HIDE DEF rw, body
        <5> QED BY <2>1, <3>2, <4>1
      <4> QED BY <2>2, <4>1, <4>2, PutKeepsMaps
    <3> QED BY <3>1, <3>2
  <2> HIDE DEF rw, body
  <2>5. \A q \in Clients : everMissed'[q] = (everMissed[q] \/ NoMap(q)')
    BY <2>1 DEF NoteMissing
  <2>6. Range(tools[c]) \subseteq Names
    BY <2>2, ListsAssumption, ElementOfSeq, LenProperties DEF Range
  <2>7. Types'
    <3>1. original' \in [Clients -> SUBSET Names] /\ wire' \in [Clients -> Seq(Names)]
      BY <1>1, <2>1, <2>3, <2>6, QuoteAssumption DEF Types
    <3>2. phase' \in [Clients -> {"idle", "sent"}]
      BY <1>1, <2>1 DEF Types
    <3>3. missed' \in [Clients -> BOOLEAN] /\ everMissed' \in [Clients -> BOOLEAN]
      BY <1>1, <2>1 DEF Types, NoteMissing, NoMap
    <3> QED BY <1>1, <2>1, <3>1, <3>2, <3>3 DEF Types
  <2>8. \A q \in Clients : Pending(q)'
    BY <1>1, <2>1, <2>3 DEF Types, Pending
  <2>9. \A q \in Clients : Remembered(q)'
    BY <1>1, <2>1, <2>5 DEF Remembered, IsStatic
  <2>10. \A q \in Clients : Told(q)'
    <3> SUFFICES ASSUME NEW q \in Clients PROVE Told(q)'
      OBVIOUS
    <3>1. CASE q = c
      BY <1>1, <2>1, <3>1 DEF Told, Types
    <3>2. CASE q # c
      BY <1>1, <2>1, <2>5, <3>2 DEF Told, Types, IsStatic
    <3> QED BY <3>1, <3>2
  <2> QED BY <2>4, <2>7, <2>8, <2>9, <2>10 DEF IInv
<1>5. ASSUME NEW c \in Clients, normalizeResponseBefore(c) PROVE IInv'
  <2>1. phase[c] = "sent"
    BY <1>5 DEF normalizeResponseBefore
  <2>2. PICK i \in 1..Len(wire[c]) :
          LET name == restoreToolUseName(Get(store, translatedToolsKey(wire[c])),
                                         wire[c][i], original[c])
          IN  /\ delivered' = [delivered EXCEPT ![c] = {<<i, name>>}]
              /\ history' = [history EXCEPT ![c] = @ \cup {name}]
    BY <1>5 DEF normalizeResponseBefore
  <2> DEFINE name == restoreToolUseName(Get(store, translatedToolsKey(wire[c])),
                                        wire[c][i], original[c])
  <2>3. /\ name \in {tools[c][i], wire[c][i]}
        /\ ~everMissed[c] \/ IsStatic(c) =>
             name = tools[c][i] \/ wire[c][i] \in quotes[c]
    BY <2>1, Restored
  <2>4. /\ i \in 1..Len(tools[c]) /\ i \in Int
        /\ tools[c][i] \in Range(tools[c]) /\ name \in Names
    BY <2>1, <2>3, PendingShape
  <2>5. /\ delivered' = [delivered EXCEPT ![c] = {<<i, name>>}]
        /\ history' = [history EXCEPT ![c] = @ \cup {name}]
    BY <2>2
  <2> HIDE DEF name
  <2>6. UNCHANGED <<obfuscate, store, tools, quotes, phase, original, wire, missed, everMissed>>
    BY <1>5 DEF normalizeResponseBefore
  <2>7. Types'
    <3>1. delivered' \in [Clients -> SUBSET (Int \X Names)]
      <4>1. {<<i, name>>} \in SUBSET (Int \X Names)  BY <2>4
      <4> QED BY <1>1, <2>5, <4>1 DEF Types
    <3>2. history' \in [Clients -> SUBSET Names]
      BY <1>1, <2>4, <2>5 DEF Types
    <3> QED BY <1>1, <2>6, <3>1, <3>2 DEF Types
  <2>8. \A q \in Clients : history[q] \subseteq history'[q]
    BY <1>1, <2>5 DEF Types
  <2>9. \A q \in Clients : Pending(q)'
    BY <1>1, <2>6, <2>8 DEF Pending
  <2>10. \A q \in Clients : Remembered(q)'
    <3> SUFFICES ASSUME NEW q \in Clients PROVE Remembered(q)'
      OBVIOUS
    <3>1. NoMap(q)' => everMissed'[q]
      BY <1>1, <2>6 DEF Remembered, NoMap
    <3>2. ~everMissed'[q] \/ IsStatic(q)' =>
            history'[q] \subseteq Range(tools'[q]) \cup quotes'[q]
      <4>1. CASE q = c
        <5>1. history'[c] = history[c] \cup {name}
          BY <1>1, <2>5 DEF Types
        <5> QED BY <1>1, <2>3, <2>4, <2>6, <4>1, <5>1 DEF Remembered, IsStatic
      <4>2. CASE q # c
        <5>1. history'[q] = history[q]
          BY <1>1, <2>5, <4>2 DEF Types
        <5> QED BY <1>1, <2>6, <5>1 DEF Remembered, IsStatic
      <4> QED BY <4>1, <4>2
    <3> QED BY <3>1, <3>2 DEF Remembered
  <2>11. \A q \in Clients : Told(q)'
    <3> SUFFICES ASSUME NEW q \in Clients PROVE Told(q)'
      OBVIOUS
    <3>1. CASE q = c
      <4>1. delivered'[c] = {<<i, name>>}
        BY <1>1, <2>5 DEF Types
      <4> QED BY <2>1, <2>3, <2>4, <2>6, <3>1, <4>1 DEF Told, IsStatic
    <3>2. CASE q # c
      <4>1. delivered'[q] = delivered[q]
        BY <1>1, <2>5, <3>2 DEF Types
      <4> QED BY <1>1, <2>6, <4>1 DEF Told, IsStatic
    <3> QED BY <3>1, <3>2
  <2> QED BY <1>1, <2>6, <2>7, <2>9, <2>10, <2>11 DEF IInv, Maps
<1>6. ASSUME NEW c \in Clients, EndTurn(c) PROVE IInv'
  <2>1. << >> \in Seq(Names)
    BY EmptySeq
  <2>2. Types'
    BY <1>1, <1>6, <2>1 DEF Types, EndTurn
  <2>3. \A q \in Clients :
          /\ q = c => phase'[q] = "idle" /\ delivered'[q] = {}
          /\ q # c => /\ phase'[q] = phase[q] /\ delivered'[q] = delivered[q]
                      /\ original'[q] = original[q] /\ wire'[q] = wire[q]
    BY <1>1, <1>6 DEF EndTurn, Types
  <2>4. UNCHANGED <<store, tools, quotes, history, everMissed>>
    BY <1>6 DEF EndTurn
  <2>5. \A q \in Clients : Pending(q)'
    BY <1>1, <2>3, <2>4 DEF Pending
  <2>6. \A q \in Clients : Remembered(q)'
    BY <1>1, <2>3, <2>4 DEF Remembered, NoMap, IsStatic
  <2>7. \A q \in Clients : Told(q)'
    BY <1>1, <2>3, <2>4 DEF Told, IsStatic
  <2> QED BY <1>1, <2>2, <2>4, <2>5, <2>6, <2>7 DEF IInv, Maps
<1>7. CASE UNCHANGED vars
  <2>1. \A q \in Clients : Pending(q)' /\ Remembered(q)' /\ Told(q)'
    BY <1>1, <1>7 DEF vars, Pending, Remembered, Told, NoMap, IsStatic
  <2> QED BY <1>1, <1>7, <2>1 DEF IInv, Types, Maps, vars
<1> QED BY <1>2, <1>3, <1>4, <1>5, <1>6, <1>7 DEF Next

LEMMA TranslatedInvariant == Spec => []IInv
<1> QED BY InitIInv, NextIInv, PTL DEF Spec

-----------------------------------------------------------------------------
(* Type correctness of the translated routes: the store keeps its order    *)
(* and its bound, and every name delivered belongs to a declared slot.     *)
THEOREM TranslatedTypeOK == Spec => []TypeOK
<1>1. ASSUME IInv PROVE TypeOK
  <2>1. /\ IsInjective(store.order) /\ Range(store.order) = DOMAIN store.items
        /\ Len(store.order) <= Capacity
    BY <1>1 DEF IInv, Sound
  <2>2. ASSUME NEW c \in Clients
        PROVE  /\ history[c] \subseteq Names /\ original[c] \subseteq Names
               /\ wire[c] \in Seq(Names)
               /\ delivered[c] \subseteq (1..Len(tools[c])) \X Names
    <3>1. delivered[c] \subseteq Int \X Names
      BY <1>1 DEF IInv, Types
    <3>2. \A d \in delivered[c] : d[1] \in 1..Len(tools[c])
      BY <1>1 DEF IInv, Told
    <3> QED BY <1>1, <3>1, <3>2 DEF IInv, Types
  <2> QED BY <1>1, <2>1, <2>2 DEF IInv, Types, TypeOK
<1> QED BY <1>1, TranslatedInvariant, PTL

(* A client of a translated route is never told to call a tool other than  *)
(* the one meant, whatever other clients, evictions and restarts do to the *)
(* store between its request and its response.                             *)
THEOREM TranslatedNeverWrongTool == Spec => []NeverWrongTool
<1>1. IInv => NeverWrongTool
  BY DEF IInv, Told, NeverWrongTool
<1> QED BY <1>1, TranslatedInvariant, PTL

(* An alias reaches a client only if it quotes that alias itself or if the *)
(* store once did not hold its map during one of its responses; no other   *)
(* event of the system is a reason.                                        *)
THEOREM TranslatedNoLeakWithoutLoss == Spec => []NoLeakWithoutLoss
<1>1. IInv => NoLeakWithoutLoss
  BY DEF IInv, Types, Told, NoLeakWithoutLoss
<1> QED BY <1>1, TranslatedInvariant, PTL

(* Static aliases come back without any map, in every turn, after any      *)
(* eviction and restart, as long as no other list shares them and the      *)
(* client does not quote them.                                             *)
THEOREM TranslatedStaticNeverLeaks == Spec => []StaticNeverLeaks
<1>1. IInv => StaticNeverLeaks
  BY DEF IInv, Told, IsStatic, StaticNeverLeaks
<1> QED BY <1>1, TranslatedInvariant, PTL
=============================================================================
