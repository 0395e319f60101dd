---------------------------- MODULE PluginProofs ----------------------------
(***************************************************************************)
(* The invariants of Plugin, for every number of requests in flight, every *)
(* set of formats and of tool lists.                                       *)
(*                                                                         *)
(* A hook and the host's reading of its answer are two steps, and between  *)
(* them the answer lies on the heap; so the invariant speaks of the body   *)
(* and of the name that a request will have once its answer is read        *)
(* (Upstream, Told), and of the maps that the two stores hold for it by    *)
(* then.  Neither store ever drops one, because each request puts at most  *)
(* one map and there are no more requests than places (RoomAssumption).    *)
(***************************************************************************)
EXTENDS Plugin, RewriteLemmas

FromClaude(r) == isAnthropicClaudeRequest(client[r])
Translated(r) == isTranslatedToClaude(client[r], provider[r])

\* The name in the line as the host will have it.
Told(r) ==
  IF stage[r] \in {"restore", "deliver"}
  THEN Applied(Held(r), <<line[r][2]>>)[1] ELSE line[r][2]

\* The first, or the second, hook of the way up has been called for r.
PastBefore(r) ==
  stage[r] \notin {"new", "before"} \/ (stage[r] = "before" /\ slot[r] # Null)
PastNormalize(r) ==
  \/ stage[r] \notin {"new", "before", "normalize"}
  \/ stage[r] = "normalize" /\ slot[r] # Null

-----------------------------------------------------------------------------
(* The inductive invariant *)

Rewrites == {Own(list) : list \in ToolLists} \ {EmptyRewrite}

Shape ==
  /\ plugin \in {"absent", "loaded", "registered"}
  /\ obfuscate \in BOOLEAN
  /\ stage \in [Requests -> {"new", "before", "normalize", "sent", "restore",
                             "deliver", "told"}]
  /\ client \in [Requests -> ClientFormats \cup {"none"}]
  /\ provider \in [Requests -> Providers \cup {"none"}]
  /\ names \in [Requests -> ToolLists \cup {<< >>}]
  /\ DOMAIN body = Requests /\ DOMAIN line = Requests
  /\ on \in [Requests -> BOOLEAN]

Heap ==
  /\ slot \in [Callers -> 0..Cardinality(Callers)]
  /\ AnswersOwned

\* The stores hold maps of requests that a hook has renamed, each under the
\* key by which the way down will look it up.
NativeHolds ==
  \A r \in DOMAIN native.items :
    PastBefore(r) /\ FromClaude(r) /\ native.items[r] = Own(names[r])

TranslatedHolds ==
  \A k \in DOMAIN translated.items : \E q \in Requests :
    PastNormalize(q) /\ k = Aliases(names[q]) /\ translated.items[k] = Own(names[q])

Stores ==
  /\ Sound(native, Requests, Rewrites) /\ Sound(translated, Seq(Names), Rewrites)
  /\ NativeHolds /\ TranslatedHolds

Began(r) ==
  /\ stage[r] = "new" => names[r] = << >> /\ body[r] = << >> /\ slot[r] = Null
  /\ stage[r] # "new" => names[r] \in ToolLists
  /\ slot[r] # Null => stage[r] \in {"before", "normalize", "restore", "deliver"}

\* RenamedOnce, of one request.
Once(r) ==
  /\ body[r] \in {names[r], Aliases(names[r])}
  /\ ~FromClaude(r) /\ ~Translated(r) => body[r] = names[r]

\* What a request is sent with is what the store will restore it from.
Kept(r) ==
  stage[r] # "new" =>
    /\ FromClaude(r) => Upstream(r) = AliasedList(Get(native, r), names[r])
    /\ Translated(r) =>
         \/ Upstream(r) = names[r]
         \/ /\ PastNormalize(r) /\ Upstream(r) = Aliases(names[r])
            /\ Upstream(r) \in DOMAIN translated.items
    /\ ~FromClaude(r) /\ ~Translated(r) => Upstream(r) = names[r]

Obfuscated(r) ==
  on[r] =>
    /\ stage[r] \in {"before", "normalize"} => obfuscate
    /\ FromClaude(r) /\ PastBefore(r) => Upstream(r) = Aliases(names[r])
    /\ Translated(r) /\ PastNormalize(r) => Upstream(r) = Aliases(names[r])

\* The way down of one line, hook by hook.
Reading(r) ==
  LET i == line[r][1]
  IN  stage[r] \in {"restore", "deliver", "told"} =>
        /\ {1, 2} \subseteq DOMAIN line[r]
        /\ i \in 1..Len(names[r])
        /\ stage[r] = "restore" /\ slot[r] = Null => Told(r) = body[r][i]
        /\ (stage[r] = "restore" /\ slot[r] # Null) \/ (stage[r] = "deliver" /\ slot[r] = Null)
             => Told(r) = IF Translated(r) THEN names[r][i] ELSE body[r][i]
        /\ (stage[r] = "deliver" /\ slot[r] # Null) \/ stage[r] = "told"
             => Told(r) = names[r][i]

Exchange(r) == Began(r) /\ Once(r) /\ Kept(r) /\ Obfuscated(r) /\ Reading(r)

IInv == Shape /\ Heap /\ Stores /\ \A r \in Requests : Exchange(r)

-----------------------------------------------------------------------------
(* The heap *)

(* A caller that holds no answer leaves a block free: there is one for     *)
(* each caller, and every live one is held by another.                     *)
LEMMA FreshBlock ==
  ASSUME Heap, NEW c \in Callers, slot[c] = Null
  PROVE  /\ NewBlock(DOMAIN heap) \in 1..Cardinality(Callers)
         /\ NewBlock(DOMAIN heap) \notin DOMAIN heap
<1> DEFINE N    == Cardinality(Callers)
           busy == {d \in Callers : slot[d] # Null}
           at   == [d \in busy |-> slot[d]]
<1>1. IsFiniteSet(Callers)
  <2>1. IsFiniteSet(Requests \cup {Lifecycle})
    BY RoomAssumption, FS_AddElement
  <2> QED BY <2>1 DEF Callers
<1>2. N \in Nat
  BY <1>1, FS_CardinalityType
<1>3. IsFiniteSet(Callers \ {c}) /\ Cardinality(Callers \ {c}) = N - 1
  BY <1>1, FS_RemoveElement
<1>4. busy \subseteq Callers \ {c}
  OBVIOUS
<1>5. IsFiniteSet(busy) /\ Cardinality(busy) <= N - 1
  <2> HIDE DEF busy, N
  <2> QED BY <1>3, <1>4, FS_Subset
<1>6. at \in Surjection(busy, DOMAIN heap)
  <2>1. DOMAIN heap = {slot[d] : d \in busy}
    BY DEF Heap, AnswersOwned
  <2>2. at \in [busy -> DOMAIN heap]
    BY <2>1
  <2>3. \A a \in DOMAIN heap : \E d \in busy : at[d] = a
    BY <2>1
  <2> HIDE DEF at, busy
  <2> QED BY <2>2, <2>3 DEF Surjection
<1>7. IsFiniteSet(DOMAIN heap) /\ Cardinality(DOMAIN heap) <= Cardinality(busy)
  <2> HIDE DEF at, busy
  <2> QED BY <1>5, <1>6, FS_Surjection
<1>8. Cardinality(busy) \in Nat /\ Cardinality(DOMAIN heap) \in Nat
  BY <1>5, <1>7, FS_CardinalityType
<1>9. Cardinality(1..N) = N
  <2>1. 1 \in Int /\ N \in Int
    BY <1>2
  <2>2. Cardinality(1..N) = IF 1 > N THEN 0 ELSE N - 1 + 1
    <3> HIDE DEF N
    <3> QED BY <2>1, FS_Interval
  <2> HIDE DEF N
  <2> QED BY <1>2, <2>2
<1>10. \E a \in 1..N : a \notin DOMAIN heap
  <2> SUFFICES ASSUME 1..N \subseteq DOMAIN heap PROVE FALSE
    OBVIOUS
  <2>1. Cardinality(1..N) <= Cardinality(DOMAIN heap)
    <3> HIDE DEF N
    <3> QED BY <1>7, FS_Subset
  <2> HIDE DEF N, busy
  <2> QED BY <1>2, <1>5, <1>7, <1>8, <1>9, <2>1
<1> QED BY <1>10 DEF NewBlock

(* A call leaves its answer with its caller and everyone else's as it is.  *)
LEMMA AnswerEffect ==
  ASSUME Heap, NEW c \in Callers, slot[c] = Null, NEW answer, Answer(c, answer)
  PROVE  /\ Heap'
         /\ slot'[c] # Null /\ Held(c)' = answer
         /\ \A d \in Callers \ {c} : slot'[d] = slot[d] /\ Held(d)' = Held(d)
<1> DEFINE a == NewBlock(DOMAIN heap)
<1>1. a \in 1..Cardinality(Callers) /\ a \notin DOMAIN heap
  BY FreshBlock
<1>2. Cardinality(Callers) \in Nat
  <2>1. IsFiniteSet(Requests \cup {Lifecycle})
    BY RoomAssumption, FS_AddElement
  <2> QED BY <2>1, FS_CardinalityType DEF Callers
<1>3. a \in 0..Cardinality(Callers) /\ a # Null
  BY <1>1, <1>2 DEF Null
<1>4. /\ slot' = [slot EXCEPT ![c] = a]
      /\ heap' = [b \in DOMAIN heap \cup {a} |-> IF b = a THEN answer ELSE heap[b]]
  BY DEF Answer
<1> HIDE DEF a
<1>5. /\ slot \in [Callers -> 0..Cardinality(Callers)]
      /\ DOMAIN heap = {slot[d] : d \in Callers} \ {Null}
      /\ \A d, e \in Callers : slot[d] = slot[e] /\ slot[d] # Null => d = e
  BY DEF Heap, AnswersOwned
<1>6. /\ slot' \in [Callers -> 0..Cardinality(Callers)]
      /\ slot'[c] = a /\ \A d \in Callers \ {c} : slot'[d] = slot[d]
  BY <1>3, <1>4, <1>5
<1>7. \A d \in Callers : slot[d] # Null => slot[d] \in DOMAIN heap /\ slot[d] # a
  BY <1>1, <1>5
<1>8. DOMAIN heap' = {slot'[d] : d \in Callers} \ {Null}
  <2>1. DOMAIN heap' = DOMAIN heap \cup {a}
    BY <1>4
  <2>2. \A d \in Callers : slot'[d] # Null => slot'[d] \in DOMAIN heap \cup {a}
    BY <1>6, <1>7
  <2>3. \A b \in DOMAIN heap : \E d \in Callers \ {c} : slot[d] = b
    BY <1>5
  <2>4. \A b \in DOMAIN heap : b # Null
    BY <1>5
  <2> QED BY <1>3, <1>6, <2>1, <2>2, <2>3, <2>4
<1>9. \A d, e \in Callers : slot'[d] = slot'[e] /\ slot'[d] # Null => d = e
  BY <1>5, <1>6, <1>7
<1>10. Held(c)' = answer
  BY <1>3, <1>4, <1>6 DEF Held, Null
<1>11. \A d \in Callers \ {c} : Held(d)' = Held(d)
  BY <1>4, <1>6, <1>7 DEF Held, Null, Ok
<1> QED BY <1>3, <1>6, <1>8, <1>9, <1>10, <1>11 DEF Heap, AnswersOwned, Null

(* The host frees the block that it has read and no other.                 *)
LEMMA TakeEffect ==
  ASSUME Heap, NEW c \in Callers, Take(c)
  PROVE  /\ Heap'
         /\ slot'[c] = Null
         /\ \A d \in Callers \ {c} : slot'[d] = slot[d] /\ Held(d)' = Held(d)
<1>1. /\ slot \in [Callers -> 0..Cardinality(Callers)]
      /\ DOMAIN heap = {slot[d] : d \in Callers} \ {Null}
      /\ \A d, e \in Callers : slot[d] = slot[e] /\ slot[d] # Null => d = e
  BY DEF Heap, AnswersOwned
<1>2. /\ slot[c] # Null
      /\ slot' = [slot EXCEPT ![c] = Null]
      /\ heap' = [b \in DOMAIN heap \ {slot[c]} |-> heap[b]]
  BY DEF Take, Returned, Freed, Restrict
<1>3. Null \in 0..Cardinality(Callers)
  <2>1. IsFiniteSet(Requests \cup {Lifecycle})
    BY RoomAssumption, FS_AddElement
  <2>2. Cardinality(Callers) \in Nat
    BY <2>1, FS_CardinalityType DEF Callers
  <2> QED BY <2>2 DEF Null
<1>4. /\ slot' \in [Callers -> 0..Cardinality(Callers)]
      /\ slot'[c] = Null /\ \A d \in Callers \ {c} : slot'[d] = slot[d]
  BY <1>1, <1>2, <1>3
<1>5. \A d \in Callers \ {c} : slot[d] # Null => slot[d] \in DOMAIN heap \ {slot[c]}
  BY <1>1, <1>2
<1>6. DOMAIN heap' = {slot'[d] : d \in Callers} \ {Null}
  <2>1. DOMAIN heap' = DOMAIN heap \ {slot[c]}
    BY <1>2
  <2>2. \A d \in Callers : slot'[d] # Null => slot'[d] \in DOMAIN heap \ {slot[c]}
    BY <1>4, <1>5
  <2>3. \A b \in DOMAIN heap \ {slot[c]} : \E d \in Callers \ {c} : slot[d] = b
    BY <1>1
  <2>4. \A b \in DOMAIN heap : b # Null
    BY <1>1
  <2> QED BY <1>4, <2>1, <2>2, <2>3, <2>4
<1>7. \A d, e \in Callers : slot'[d] = slot'[e] /\ slot'[d] # Null => d = e
  BY <1>1, <1>4
<1>8. \A d \in Callers \ {c} : Held(d)' = Held(d)
  BY <1>2, <1>4, <1>5 DEF Held, Null, Ok
<1> QED BY <1>4, <1>6, <1>7, <1>8 DEF Heap, AnswersOwned, Null

-----------------------------------------------------------------------------
(* Answers and what becomes of them *)

LEMMA NothingApplied ==
  ASSUME NEW old
  PROVE  Applied(Ok(<< >>), old) = old
BY DEF Applied, Ok

(* The host ends up with the names that the hook made, whether the answer  *)
(* carries them or says that nothing changed.                              *)
LEMMA ChangedApplied ==
  ASSUME NEW new, NEW old, new # << >>
  PROVE  Applied(Changed(new, old), old) = new
BY DEF Applied, Changed, Ok

LEMMA NameApplied ==
  ASSUME NEW n, NEW w
  PROVE  Applied(Changed(<<n>>, <<w>>), <<w>>)[1] = n
<1>1. <<n>> # << >>
  OBVIOUS
<1>2. Applied(Changed(<<n>>, <<w>>), <<w>>) = <<n>>
  BY <1>1, ChangedApplied
<1> QED BY <1>2

-----------------------------------------------------------------------------
(* What a step of another caller leaves of a request *)

Untouched(q) ==
  /\ stage'[q] = stage[q] /\ client'[q] = client[q] /\ provider'[q] = provider[q]
  /\ names'[q] = names[q] /\ body'[q] = body[q] /\ line'[q] = line[q]
  /\ slot'[q] = slot[q] /\ Held(q)' = Held(q)

LEMMA Unmoved ==
  ASSUME NEW q \in Requests, Exchange(q), Untouched(q),
         on'[q] => on[q],
         on'[q] /\ stage[q] \in {"before", "normalize"} => obfuscate',
         Get(native, q)' = Get(native, q),
         DOMAIN translated.items \subseteq DOMAIN translated'.items
  PROVE  Exchange(q)'
<1>1. /\ Upstream(q)' = Upstream(q) /\ Told(q)' = Told(q)
      /\ FromClaude(q)' = FromClaude(q) /\ Translated(q)' = Translated(q)
      /\ PastBefore(q)' = PastBefore(q) /\ PastNormalize(q)' = PastNormalize(q)
  BY DEF Untouched, Upstream, Told, FromClaude, Translated, PastBefore, PastNormalize
<1>2. Began(q)' /\ Once(q)'
  BY <1>1 DEF Exchange, Began, Once, Untouched
<1>3. Kept(q)'
  BY <1>1 DEF Exchange, Kept, Untouched
<1>4. Obfuscated(q)'
  BY <1>1 DEF Exchange, Obfuscated, Untouched
<1>5. Reading(q)'
  BY <1>1 DEF Exchange, Reading, Untouched
<1> QED BY <1>2, <1>3, <1>4, <1>5 DEF Exchange

(* The stores are as good as before when no request falls back and none    *)
(* that has begun changes its names or its format.                         *)
Onward(q) ==
  /\ PastBefore(q) => PastBefore(q)' /\ client'[q] = client[q] /\ names'[q] = names[q]
  /\ PastNormalize(q) => PastNormalize(q)' /\ names'[q] = names[q]

LEMMA StoresStay ==
  ASSUME Stores, UNCHANGED <<native, translated>>, \A q \in Requests : Onward(q)
  PROVE  Stores'
<1>1. NativeHolds'
  <2> SUFFICES ASSUME NEW r \in DOMAIN native.items
               PROVE  PastBefore(r)' /\ FromClaude(r)' /\ native.items[r] = Own(names'[r])
    BY DEF NativeHolds
  <2>1. PastBefore(r) /\ FromClaude(r) /\ native.items[r] = Own(names[r])
    BY DEF Stores, NativeHolds
  <2>2. r \in Requests
    BY LenProperties, ElementOfSeq DEF Stores, Sound, Range
  <2> QED BY <2>1, <2>2 DEF Onward, FromClaude
<1>2. TranslatedHolds'
  <2> SUFFICES ASSUME NEW k \in DOMAIN translated.items
               PROVE  \E q \in Requests :
                        /\ PastNormalize(q)' /\ k = Aliases(names'[q])
                        /\ translated.items[k] = Own(names'[q])
    BY DEF TranslatedHolds
  <2>1. PICK q \in Requests :
          /\ PastNormalize(q) /\ k = Aliases(names[q])
          /\ translated.items[k] = Own(names[q])
    BY DEF Stores, TranslatedHolds
  <2> QED BY <2>1 DEF Onward
<1> QED BY <1>1, <1>2 DEF Stores

LEMMA UntouchedOnward ==
  ASSUME NEW q \in Requests, Untouched(q)
  PROVE  Onward(q)
BY DEF Untouched, Onward, PastBefore, PastNormalize

(* No map is there for a request that has not been through the first hook  *)
(* or does not speak Claude.                                               *)
LEMMA NoNativeMap ==
  ASSUME Stores, NEW r, ~(PastBefore(r) /\ FromClaude(r))
  PROVE  r \notin DOMAIN native.items /\ Get(native, r) = EmptyRewrite
BY NilAssumption DEF Stores, NativeHolds, Get

LEMMA NativeMap ==
  ASSUME Stores, NEW r
  PROVE  Get(native, r) \in {EmptyRewrite, Own(names[r])}
BY NilAssumption DEF Stores, NativeHolds, Get

(* The requests that a step does not touch, while the stores are as they   *)
(* were.                                                                   *)
LEMMA OthersKeep ==
  ASSUME IInv, UNCHANGED <<native, translated>>, NEW S \in SUBSET Requests,
         \A q \in S :
           /\ Untouched(q) /\ (on'[q] => on[q])
           /\ on'[q] /\ stage[q] \in {"before", "normalize"} => obfuscate'
  PROVE  \A q \in S : Exchange(q)' /\ Onward(q)
<1> SUFFICES ASSUME NEW q \in S PROVE Exchange(q)' /\ Onward(q)
  OBVIOUS
<1>1. Get(native, q)' = Get(native, q)
  BY DEF Get
<1>2. Exchange(q)'
  BY <1>1, Unmoved DEF IInv
<1> QED BY <1>2, UntouchedOnward

(* A step of the lifecycle caller that leaves the exchanges alone.         *)
LEMMA LifecycleKeeps ==
  ASSUME IInv, Heap', UNCHANGED <<native, translated, stage, client, provider, names, body, line>>,
         \A q \in Requests : slot'[q] = slot[q] /\ Held(q)' = Held(q),
         \A q \in Requests :
           /\ on'[q] => on[q]
           /\ on'[q] /\ stage[q] \in {"before", "normalize"} => obfuscate',
         plugin' \in {"absent", "loaded", "registered"}, obfuscate' \in BOOLEAN,
         on' \in [Requests -> BOOLEAN]
  PROVE  IInv'
<1>1. \A q \in Requests : Exchange(q)' /\ Onward(q)
  BY OthersKeep DEF Untouched
<1>2. Stores'
  BY <1>1, StoresStay DEF IInv
<1>3. Shape'
  BY DEF IInv, Shape
<1> QED BY <1>1, <1>2, <1>3 DEF IInv

-----------------------------------------------------------------------------
(* The invariant holds at the start ... *)

LEMMA InitIInv == Init => IInv
<1> SUFFICES ASSUME Init PROVE IInv
  OBVIOUS
<1>1. DOMAIN << >> = {}
  OBVIOUS
<1>2. Heap
  <2>1. \A c \in Callers : slot[c] = Null
    BY DEF Init
  <2>2. Null \in 0..Cardinality(Callers)
    <3>1. IsFiniteSet(Requests \cup {Lifecycle})
      BY RoomAssumption, FS_AddElement
    <3>2. Cardinality(Callers) \in Nat
      BY <3>1, FS_CardinalityType DEF Callers
    <3> QED BY <3>2 DEF Null
  <2>3. DOMAIN heap = {}
    BY <1>1 DEF Init
  <2>4. slot \in [Callers -> 0..Cardinality(Callers)]
    BY <2>2 DEF Init
  <2> QED BY <2>1, <2>3, <2>4 DEF Heap, AnswersOwned
<1>3. Stores
  <2>1. Sound(EmptyStore, Requests, Rewrites) /\ DOMAIN EmptyStore.items = {}
    BY EmptyStoreSound
  <2>2. Sound(EmptyStore, Seq(Names), Rewrites)
    BY EmptyStoreSound
  <2> QED BY <2>1, <2>2 DEF Init, Stores, NativeHolds, TranslatedHolds
<1>4. Shape
  BY DEF Init, Shape
<1>5. ASSUME NEW r \in Requests PROVE Exchange(r)
  <2>1. stage[r] = "new" /\ names[r] = << >> /\ body[r] = << >> /\ on[r] = FALSE /\ slot[r] = Null
    BY DEF Init, Callers
  <2>2. ~PastBefore(r) /\ ~PastNormalize(r)
    BY <2>1 DEF PastBefore, PastNormalize
  <2> QED BY <2>1, <2>2 DEF Exchange, Began, Once, Kept, Obfuscated, Reading
<1> QED BY <1>2, <1>3, <1>4, <1>5 DEF IInv

-----------------------------------------------------------------------------
(* ... and each step keeps it.  First the lifecycle. *)

LEMMA RequestsCall ==
  /\ \A q \in Requests : q \in Callers /\ q # Lifecycle
  /\ Lifecycle \in Callers
BY CallersAssumption DEF Callers

LEMMA LoadIInv == IInv /\ cliproxy_plugin_init => IInv'
<1> SUFFICES ASSUME IInv, cliproxy_plugin_init PROVE IInv'
  OBVIOUS
<1>1. /\ plugin' = "loaded"
      /\ UNCHANGED <<obfuscate, native, translated, heap, slot, stage, client,
                     provider, names, body, line, on>>
  BY DEF cliproxy_plugin_init, exchange
<1>2. Heap'
  BY <1>1 DEF IInv, Heap, AnswersOwned
<1>3. \A q \in Requests : Held(q)' = Held(q)
  BY <1>1 DEF Held
<1>4. on \in [Requests -> BOOLEAN] /\ obfuscate \in BOOLEAN
  BY DEF IInv, Shape
<1>5. \A q \in Requests : on[q] /\ stage[q] \in {"before", "normalize"} => obfuscate
  BY DEF IInv, Exchange, Obfuscated
<1> QED BY <1>1, <1>2, <1>3, <1>4, <1>5, LifecycleKeeps

LEMMA ConfigureIInv ==
  ASSUME IInv, NEW value \in BOOLEAN, Configure(value)
  PROVE  IInv'
<1>1. /\ slot[Lifecycle] = Null
      /\ obfuscate' = value
      /\ Answer(Lifecycle, Ok(<<"registration">>))
      /\ on' = [r \in Requests |-> on[r] /\ (value \/ stage[r] \notin {"before", "normalize"})]
      /\ UNCHANGED <<plugin, native, translated, stage, client, provider, names, body, line>>
  BY DEF Configure, Calls
<1>2. /\ Heap'
      /\ \A q \in Requests : slot'[q] = slot[q] /\ Held(q)' = Held(q)
  BY <1>1, AnswerEffect, RequestsCall DEF IInv
<1>3. on \in [Requests -> BOOLEAN] /\ plugin \in {"absent", "loaded", "registered"}
  BY DEF IInv, Shape
<1>4. \A q \in Requests :
        /\ on'[q] \in BOOLEAN
        /\ on'[q] => on[q]
        /\ on'[q] /\ stage[q] \in {"before", "normalize"} => obfuscate'
  BY <1>1, <1>3
<1>5. on' \in [Requests -> BOOLEAN]
  BY <1>1, <1>4
<1>6. plugin' \in {"absent", "loaded", "registered"} /\ obfuscate' \in BOOLEAN
  BY <1>1, <1>3
<1> QED BY <1>1, <1>2, <1>4, <1>5, <1>6, LifecycleKeeps

LEMMA RefusedIInv == IInv /\ Refused => IInv'
<1> SUFFICES ASSUME IInv, Refused PROVE IInv'
  OBVIOUS
<1>1. /\ slot[Lifecycle] = Null /\ Answer(Lifecycle, Error)
      /\ UNCHANGED <<plugin, obfuscate, native, translated, stage, client, provider,
                     names, body, line, on>>
  BY DEF Refused, Calls, exchange
<1>2. /\ Heap'
      /\ \A q \in Requests : slot'[q] = slot[q] /\ Held(q)' = Held(q)
  BY <1>1, AnswerEffect, RequestsCall DEF IInv
<1>3. /\ on \in [Requests -> BOOLEAN] /\ obfuscate \in BOOLEAN
      /\ plugin \in {"absent", "loaded", "registered"}
  BY DEF IInv, Shape
<1>4. \A q \in Requests : on[q] /\ stage[q] \in {"before", "normalize"} => obfuscate
  BY DEF IInv, Exchange, Obfuscated
<1> QED BY <1>1, <1>2, <1>3, <1>4, LifecycleKeeps

LEMMA LifecycleReturnsIInv == IInv /\ LifecycleReturns => IInv'
<1> SUFFICES ASSUME IInv, LifecycleReturns PROVE IInv'
  OBVIOUS
<1>1. /\ Take(Lifecycle)
      /\ plugin' \in {"registered", plugin}
      /\ UNCHANGED <<obfuscate, native, translated, stage, client, provider,
                     names, body, line, on>>
  BY DEF LifecycleReturns, exchange
<1>2. /\ Heap'
      /\ \A q \in Requests : slot'[q] = slot[q] /\ Held(q)' = Held(q)
  BY <1>1, TakeEffect, RequestsCall DEF IInv
<1>3. /\ on \in [Requests -> BOOLEAN] /\ obfuscate \in BOOLEAN
      /\ plugin \in {"absent", "loaded", "registered"}
  BY DEF IInv, Shape
<1>4. \A q \in Requests : on[q] /\ stage[q] \in {"before", "normalize"} => obfuscate
  BY DEF IInv, Exchange, Obfuscated
<1> QED BY <1>1, <1>2, <1>3, <1>4, LifecycleKeeps

-----------------------------------------------------------------------------
(* The exchange of one request, while the stores stay as they are. *)

Elsewhere(r) ==
  \A q \in Requests \ {r} : Untouched(q) /\ on'[q] = on[q]

LEMMA OneMoves ==
  ASSUME IInv, NEW r \in Requests, UNCHANGED <<obfuscate, native, translated>>,
         Shape', Heap', Elsewhere(r), Onward(r), Exchange(r)'
  PROVE  IInv'
<1>1. \A q \in Requests \ {r} : on[q] /\ stage[q] \in {"before", "normalize"} => obfuscate
  BY DEF IInv, Exchange, Obfuscated
<1>2. \A q \in Requests \ {r} : Exchange(q)' /\ Onward(q)
  <2>1. Requests \ {r} \in SUBSET Requests
    OBVIOUS
  <2>2. \A q \in Requests \ {r} :
          /\ Untouched(q) /\ (on'[q] => on[q])
          /\ on'[q] /\ stage[q] \in {"before", "normalize"} => obfuscate'
    BY <1>1 DEF Elsewhere
  <2> QED BY <2>1, <2>2, OthersKeep
<1>3. Stores'
  BY <1>2, StoresStay DEF IInv
<1> QED BY <1>2, <1>3 DEF IInv

\* The heap is as it was.
LEMMA HeapStays ==
  ASSUME Heap, UNCHANGED <<heap, slot>>
  PROVE  Heap' /\ \A q : Held(q)' = Held(q)
BY DEF Heap, AnswersOwned, Held

LEMMA BeginIInv ==
  ASSUME IInv, NEW r \in Requests, NEW from \in ClientFormats, NEW to \in Providers,
         NEW list \in ToolLists, Begin(r, from, to, list)
  PROVE  IInv'
<1>1. /\ stage[r] = "new"
      /\ stage' = [stage EXCEPT ![r] = "before"]
      /\ client' = [client EXCEPT ![r] = from]
      /\ provider' = [provider EXCEPT ![r] = to]
      /\ names' = [names EXCEPT ![r] = list]
      /\ body' = [body EXCEPT ![r] = list]
      /\ on' = [on EXCEPT ![r] = obfuscate]
      /\ UNCHANGED <<plugin, obfuscate, native, translated, heap, slot, line>>
  BY DEF Begin
<1>2. Shape
  BY DEF IInv
<1>3. Shape'
  BY <1>1, <1>2 DEF Shape
<1>4. Heap' /\ \A q \in Requests : Held(q)' = Held(q)
  BY <1>1, HeapStays DEF IInv
<1>5. Elsewhere(r)
  BY <1>1, <1>2, <1>4 DEF Shape, Elsewhere, Untouched
<1>6. /\ stage'[r] = "before" /\ names'[r] = list /\ body'[r] = list
      /\ on'[r] = obfuscate /\ slot'[r] = Null
  BY <1>1, <1>2 DEF Shape, IInv, Exchange, Began
<1>7. ~PastBefore(r) /\ ~PastNormalize(r) /\ ~PastBefore(r)' /\ ~PastNormalize(r)'
  BY <1>1, <1>6 DEF PastBefore, PastNormalize
<1>8. Upstream(r)' = list
  BY <1>6, NothingApplied DEF Upstream, Held
<1>9. AliasedList(Get(native', r), list) = list
  <2>1. Get(native, r) = EmptyRewrite
    BY <1>7, NoNativeMap DEF IInv
  <2> QED BY <1>1, <2>1, EmptyRewriteIsIdentity
<1>10. Exchange(r)'
  <2>1. Began(r)' /\ Once(r)'
    BY <1>6 DEF Began, Once
  <2>2. Kept(r)'
    BY <1>6, <1>8, <1>9 DEF Kept
  <2>3. Obfuscated(r)'
    BY <1>1, <1>6, <1>7 DEF Obfuscated
  <2>4. Reading(r)'
    BY <1>6 DEF Reading
  <2> QED BY <2>1, <2>2, <2>3, <2>4 DEF Exchange
<1>11. Onward(r)
  BY <1>7 DEF Onward
<1> QED BY <1>1, <1>3, <1>4, <1>5, <1>10, <1>11, OneMoves

(* The host reads the answer of a hook of the way up: what was about to go *)
(* upstream is now the body.                                               *)
LEMMA RequestReturnsIInv ==
  ASSUME IInv, NEW r \in Requests, RequestReturns(r)
  PROVE  IInv'
<1>1. /\ stage[r] \in {"before", "normalize"}
      /\ Take(r) /\ slot[r] # Null
      /\ body' = [body EXCEPT ![r] = Applied(heap[slot[r]], body[r])]
      /\ stage' = [stage EXCEPT ![r] = IF stage[r] = "before" THEN "normalize" ELSE "sent"]
      /\ UNCHANGED <<plugin, obfuscate, native, translated, client, provider, names, line, on>>
  BY DEF RequestReturns, Take, Returned
<1>2. Shape /\ Heap /\ Stores /\ Exchange(r)
  BY DEF IInv
<1>3. Shape'
  BY <1>1, <1>2 DEF Shape
<1>4. /\ Heap' /\ slot'[r] = Null
      /\ \A q \in Requests \ {r} : slot'[q] = slot[q] /\ Held(q)' = Held(q)
  BY <1>1, <1>2, TakeEffect, RequestsCall
<1>5. Elsewhere(r)
  BY <1>1, <1>2, <1>4 DEF Shape, Elsewhere, Untouched
<1>6. /\ stage[r] = "before" => stage'[r] = "normalize"
      /\ stage[r] = "normalize" => stage'[r] = "sent"
      /\ body'[r] = Applied(heap[slot[r]], body[r])
  BY <1>1, <1>2 DEF Shape
<1>7. /\ PastBefore(r) /\ PastBefore(r)'
      /\ PastNormalize(r)' = PastNormalize(r)
      /\ FromClaude(r)' = FromClaude(r) /\ Translated(r)' = Translated(r)
  BY <1>1, <1>4, <1>6 DEF PastBefore, PastNormalize, FromClaude, Translated
<1>8. Upstream(r)' = Upstream(r) /\ body'[r] = Upstream(r)
  <2>1. Upstream(r) = body'[r]
    BY <1>1, <1>6 DEF Upstream, Held
  <2>2. Upstream(r)' = body'[r]
    BY <1>1, <1>4, <1>6, NothingApplied DEF Upstream, Held
  <2> QED BY <2>1, <2>2
<1>9. Kept(r)'
  BY <1>1, <1>2, <1>7, <1>8 DEF Exchange, Kept
<1>10. Exchange(r)'
  <2>1. Began(r)'
    BY <1>1, <1>2, <1>4, <1>6 DEF Exchange, Began
  <2>2. names[r] \in ToolLists
    BY <1>1, <1>2 DEF Exchange, Began
  <2>3. Once(r)'
    <3>1. FromClaude(r) => Upstream(r) \in {names[r], Aliases(names[r])}
      <4> SUFFICES ASSUME FromClaude(r) PROVE Upstream(r) \in {names[r], Aliases(names[r])}
        OBVIOUS
      <4>1. Upstream(r) = AliasedList(Get(native, r), names[r])
        BY <1>1, <1>2 DEF Exchange, Kept
      <4>2. CASE Get(native, r) = EmptyRewrite
        BY <2>2, <4>1, <4>2, EmptyRewriteIsIdentity
      <4>3. CASE Get(native, r) = Own(names[r])
        BY <4>1, <4>3 DEF Aliases
      <4> QED BY <1>2, <4>2, <4>3, NativeMap
    <3>2. Translated(r) => Upstream(r) \in {names[r], Aliases(names[r])}
      BY <1>1, <1>2 DEF Exchange, Kept
    <3>3. ~FromClaude(r) /\ ~Translated(r) => Upstream(r) = names[r]
      BY <1>1, <1>2 DEF Exchange, Kept
    <3> QED BY <1>1, <1>7, <1>8, <3>1, <3>2, <3>3 DEF Once
  <2>4. Obfuscated(r)'
    BY <1>1, <1>2, <1>6, <1>7, <1>8 DEF Exchange, Obfuscated
  <2>5. Reading(r)'
    BY <1>1, <1>6 DEF Reading
  <2> QED BY <1>9, <2>1, <2>3, <2>4, <2>5 DEF Exchange
<1>11. Onward(r)
  BY <1>1, <1>7 DEF Onward
<1> QED BY <1>1, <1>3, <1>4, <1>5, <1>10, <1>11, OneMoves

(* On the way down the body and everything that was settled on the way up  *)
(* stay: only the line is left to show.                                    *)
LEMMA LineMoves ==
  ASSUME IInv, NEW r \in Requests,
         stage[r] \in {"sent", "restore", "deliver", "told"},
         stage'[r] \in {"sent", "restore", "deliver", "told"},
         stage' \in [Requests -> {"new", "before", "normalize", "sent", "restore",
                                  "deliver", "told"}],
         DOMAIN line' = Requests,
         UNCHANGED <<plugin, obfuscate, native, translated, client, provider, names, body, on>>,
         \A q \in Requests \ {r} :
           /\ stage'[q] = stage[q] /\ line'[q] = line[q]
           /\ slot'[q] = slot[q] /\ Held(q)' = Held(q),
         Heap', slot'[r] # Null => stage'[r] \in {"restore", "deliver"},
         Reading(r)'
  PROVE  IInv'
<1>1. Shape /\ Exchange(r)
  BY DEF IInv
<1>2. Shape'
  BY <1>1 DEF Shape
<1>3. Elsewhere(r)
  BY DEF Elsewhere, Untouched
<1>4. /\ PastBefore(r) /\ PastBefore(r)' /\ PastNormalize(r) /\ PastNormalize(r)'
      /\ FromClaude(r)' = FromClaude(r) /\ Translated(r)' = Translated(r)
      /\ Upstream(r) = body[r] /\ Upstream(r)' = body[r]
  BY DEF PastBefore, PastNormalize, FromClaude, Translated, Upstream
<1>5. Get(native, r)' = Get(native, r)
  BY DEF Get
<1>6. Began(r)' /\ Once(r)'
  BY <1>1, <1>4 DEF Exchange, Began, Once
<1>7. Kept(r)'
  BY <1>1, <1>4, <1>5 DEF Exchange, Kept
<1>8. Obfuscated(r)'
  BY <1>1, <1>4 DEF Exchange, Obfuscated
<1>9. Exchange(r)'
  BY <1>6, <1>7, <1>8 DEF Exchange
<1>10. Onward(r)
  BY <1>4 DEF Onward
<1> QED BY <1>2, <1>3, <1>9, <1>10, OneMoves

\* A body has as many names as the client's list, and they are names.
LEMMA BodyNames ==
  ASSUME IInv, NEW r \in Requests
  PROVE  /\ body[r] \in Seq(Names) /\ Len(body[r]) = Len(names[r])
         /\ stage[r] # "new" => names[r] \in ToolLists
<1>1. Exchange(r)
  BY DEF IInv
<1>2. CASE stage[r] = "new"
  BY <1>1, <1>2, EmptySeq DEF Exchange, Began
<1>3. CASE stage[r] # "new"
  <2>1. names[r] \in ToolLists /\ names[r] \in Seq(Names)
    BY <1>1, <1>3, ListsAssumption DEF Exchange, Began
  <2>2. /\ Aliases(names[r]) \in Seq(Names)
        /\ Len(Aliases(names[r])) = Len(names[r])
    BY <2>1, AliasedListShape DEF Aliases, Own
  <2>3. body[r] = names[r] \/ body[r] = Aliases(names[r])
    BY <1>1 DEF Exchange, Once
  <2> QED BY <2>1, <2>2, <2>3
<1> QED BY <1>2, <1>3

LEMMA UpstreamLineIInv ==
  ASSUME IInv, NEW r \in Requests, UpstreamLine(r)
  PROVE  IInv'
<1>1. /\ stage[r] = "sent"
      /\ stage' = [stage EXCEPT ![r] = "restore"]
      /\ UNCHANGED <<plugin, obfuscate, native, translated, heap, slot, client,
                     provider, names, body, on>>
  BY DEF UpstreamLine
<1>2. PICK i \in 1..Len(body[r]) : line' = [line EXCEPT ![r] = <<i, body[r][i]>>]
  BY DEF UpstreamLine
<1>3. Shape /\ Exchange(r)
  BY DEF IInv
<1>4. /\ stage' \in [Requests -> {"new", "before", "normalize", "sent", "restore",
                                   "deliver", "told"}]
      /\ stage'[r] = "restore" /\ \A q \in Requests \ {r} : stage'[q] = stage[q]
  BY <1>1, <1>3 DEF Shape
<1>5. /\ DOMAIN line' = Requests /\ line'[r] = <<i, body[r][i]>>
      /\ \A q \in Requests \ {r} : line'[q] = line[q]
  BY <1>2, <1>3 DEF Shape
<1>6. Heap' /\ \A q \in Requests : Held(q)' = Held(q)
  BY <1>1, HeapStays DEF IInv
<1>7. slot'[r] = Null
  BY <1>1, <1>3 DEF Exchange, Began
<1>8. Reading(r)'
  <2>1. /\ {1, 2} \subseteq DOMAIN line'[r]
        /\ line'[r][1] = i /\ line'[r][2] = body[r][i]
    BY <1>5
  <2>2. i \in 1..Len(names'[r])
    BY <1>1, BodyNames
  <2>3. Told(r)' = body[r][i]
    <3>1. Held(r)' = Ok(<< >>)
      BY <1>7 DEF Held
    <3>2. Told(r)' = <<line'[r][2]>>[1]
      BY <1>4, <3>1, NothingApplied DEF Told
    <3> QED BY <2>1, <3>2
  <2> QED BY <1>1, <1>4, <1>7, <2>1, <2>2, <2>3 DEF Reading
<1> QED BY <1>1, <1>4, <1>5, <1>6, <1>7, <1>8, LineMoves

LEMMA ContinueIInv ==
  ASSUME IInv, NEW r \in Requests, Continue(r)
  PROVE  IInv'
<1>1. /\ stage[r] = "told"
      /\ stage' = [stage EXCEPT ![r] = "sent"]
      /\ line' = [line EXCEPT ![r] = << >>]
      /\ UNCHANGED <<plugin, obfuscate, native, translated, heap, slot, client,
                     provider, names, body, on>>
  BY DEF Continue
<1>2. Shape /\ Exchange(r)
  BY DEF IInv
<1>3. /\ stage' \in [Requests -> {"new", "before", "normalize", "sent", "restore",
                                   "deliver", "told"}]
      /\ stage'[r] = "sent" /\ \A q \in Requests \ {r} : stage'[q] = stage[q]
  BY <1>1, <1>2 DEF Shape
<1>4. DOMAIN line' = Requests /\ \A q \in Requests \ {r} : line'[q] = line[q]
  BY <1>1, <1>2 DEF Shape
<1>5. Heap' /\ \A q \in Requests : Held(q)' = Held(q)
  BY <1>1, HeapStays DEF IInv
<1>6. slot'[r] = Null
  BY <1>1, <1>2 DEF Exchange, Began
<1>7. Reading(r)'
  BY <1>3 DEF Reading
<1> QED BY <1>1, <1>3, <1>4, <1>5, <1>6, <1>7, LineMoves

(* The host reads the answer of a hook of the way down.                    *)
LEMMA ResponseReturnsIInv ==
  ASSUME IInv, NEW r \in Requests, ResponseReturns(r)
  PROVE  IInv'
<1> DEFINE told == Applied(heap[slot[r]], <<line[r][2]>>)[1]
<1>1. /\ stage[r] \in {"restore", "deliver"}
      /\ Take(r) /\ slot[r] # Null
      /\ line' = [line EXCEPT ![r][2] = told]
      /\ stage' = [stage EXCEPT ![r] = IF stage[r] = "restore" THEN "deliver" ELSE "told"]
      /\ UNCHANGED <<plugin, obfuscate, native, translated, client, provider, names, body, on>>
  BY DEF ResponseReturns, Take, Returned
<1>2. Shape /\ Heap /\ Exchange(r)
  BY DEF IInv
<1>3. /\ stage' \in [Requests -> {"new", "before", "normalize", "sent", "restore",
                                   "deliver", "told"}]
      /\ \A q \in Requests \ {r} : stage'[q] = stage[q]
      /\ stage[r] = "restore" => stage'[r] = "deliver"
      /\ stage[r] = "deliver" => stage'[r] = "told"
  BY <1>1, <1>2 DEF Shape
<1>4. /\ {1, 2} \subseteq DOMAIN line[r]
      /\ line[r][1] \in 1..Len(names[r])
  BY <1>1, <1>2 DEF Exchange, Reading
<1>5. Told(r) = told
  BY <1>1 DEF Told, Held
<1>6. /\ DOMAIN line' = Requests /\ \A q \in Requests \ {r} : line'[q] = line[q]
      /\ DOMAIN line'[r] = DOMAIN line[r]
      /\ line'[r][1] = line[r][1] /\ line'[r][2] = told
  <2> HIDE DEF told
  <2> QED BY <1>1, <1>2, <1>4 DEF Shape
<1>7. /\ Heap' /\ slot'[r] = Null
      /\ \A q \in Requests \ {r} : slot'[q] = slot[q] /\ Held(q)' = Held(q)
  BY <1>1, <1>2, TakeEffect, RequestsCall
<1>8. Told(r)' = told
  <2>1. Held(r)' = Ok(<< >>)
    BY <1>7 DEF Held
  <2>2. CASE stage'[r] = "deliver"
    <3>1. Told(r)' = <<line'[r][2]>>[1]
      BY <2>1, <2>2, NothingApplied DEF Told
    <3> QED BY <1>6, <3>1
  <2>3. CASE stage'[r] = "told"
    BY <1>6, <2>3 DEF Told
  <2> QED BY <1>1, <1>3, <2>2, <2>3
<1>9. Reading(r)'
  <2>1. Translated(r)' = Translated(r)
    BY <1>1 DEF Translated
  <2>2. CASE stage[r] = "restore"
    <3>1. Told(r) = IF Translated(r) THEN names[r][line[r][1]] ELSE body[r][line[r][1]]
      BY <1>1, <1>2, <2>2 DEF Exchange, Reading
    <3> HIDE DEF told
    <3> QED BY <1>1, <1>3, <1>4, <1>5, <1>6, <1>7, <1>8, <2>1, <2>2, <3>1 DEF Reading
  <2>3. CASE stage[r] = "deliver"
    <3>1. Told(r) = names[r][line[r][1]]
      BY <1>1, <1>2, <2>3 DEF Exchange, Reading
    <3> HIDE DEF told
    <3> QED BY <1>1, <1>3, <1>4, <1>5, <1>6, <1>7, <1>8, <2>3, <3>1 DEF Reading
  <2> QED BY <1>1, <2>2, <2>3
<1> HIDE DEF told
<1> QED BY <1>1, <1>3, <1>6, <1>7, <1>9, LineMoves

-----------------------------------------------------------------------------
(* The hooks of the way down *)

\* A hook of the way down leaves an answer and touches nothing else.
LEMMA HookKeeps ==
  ASSUME IInv, NEW r \in Requests, stage[r] \in {"restore", "deliver"}, slot[r] = Null,
         NEW n, Answer(r, Changed(<<n>>, <<line[r][2]>>)),
         UNCHANGED <<plugin, obfuscate, native, translated, stage, client, provider,
                     names, body, line, on>>,
         n = IF stage[r] = "restore"
             THEN IF Translated(r) THEN names[r][line[r][1]] ELSE body[r][line[r][1]]
             ELSE names[r][line[r][1]]
  PROVE  IInv'
<1>1. Shape /\ Heap /\ Exchange(r)
  BY DEF IInv
<1>2. /\ Heap' /\ slot'[r] # Null /\ Held(r)' = Changed(<<n>>, <<line[r][2]>>)
      /\ \A q \in Requests \ {r} : slot'[q] = slot[q] /\ Held(q)' = Held(q)
  BY <1>1, AnswerEffect, RequestsCall
<1>3. Told(r)' = n
  BY <1>2, NameApplied DEF Told
<1>4. Reading(r)'
  BY <1>1, <1>2, <1>3 DEF Exchange, Reading, Translated
<1>5. stage' \in [Requests -> {"new", "before", "normalize", "sent", "restore",
                               "deliver", "told"}]
  BY <1>1 DEF Shape
<1>6. DOMAIN line' = Requests
  BY <1>1 DEF Shape
<1> QED BY <1>2, <1>4, <1>5, <1>6, LineMoves

(* On a translated route the name the upstream wrote comes back as the     *)
(* client's: from the map under the list of aliases, which is the client's *)
(* own by UnsharedAssumption, or because nothing was renamed.              *)
LEMMA RestoredName ==
  ASSUME IInv, NEW r \in Requests, Translated(r), stage[r] # "new",
         NEW i \in 1..Len(names[r])
  PROVE  restoreToolUseName(Get(translated, Upstream(r)), Upstream(r)[i], Range(names[r]))
           = names[r][i]
<1> DEFINE up == Upstream(r)
<1>1. Exchange(r) /\ Stores
  BY DEF IInv
<1>2. names[r] \in ToolLists
  BY <1>1 DEF Exchange, Began
<1>3. names[r][i] \in Range(names[r])
  BY <1>2, ListsAssumption, LenProperties DEF Range
<1> SUFFICES restoreToolUseName(Get(translated, up), up[i], Range(names[r])) = names[r][i]
  OBVIOUS
<1> HIDE DEF up
<1>5. CASE up = names[r]
  BY <1>3, <1>5 DEF restoreToolUseName
<1>6. CASE up # names[r]
  <2>1. up = Aliases(names[r]) /\ up \in DOMAIN translated.items
    BY <1>1, <1>6 DEF Exchange, Kept, up
  <2>2. PICK q \in Requests :
          /\ PastNormalize(q) /\ up = Aliases(names[q])
          /\ translated.items[up] = Own(names[q])
    BY <1>1, <2>1 DEF Stores, TranslatedHolds
  <2>3. names[q] \in ToolLists
    BY <2>2 DEF IInv, Exchange, Began, PastNormalize
  <2>4. Own(names[q]) # EmptyRewrite
    <3>1. translated.items[up] \in Rewrites
      BY <1>1, <2>1 DEF Stores, Sound
    <3> QED BY <2>2, <3>1 DEF Rewrites
  <2>5. names[q] # Aliases(names[q])
    <3> SUFFICES ASSUME names[q] = Aliases(names[q]) PROVE FALSE
      OBVIOUS
    <3>1. \A j \in 1..Len(names[q]) : names[q][j] = Alias(Own(names[q]), names[q][j])
      BY <2>3, AliasedListShape DEF Aliases, Own
    <3>2. \A n \in Renamed(names[q], TRUE) : FALSE
      <4> SUFFICES ASSUME NEW n \in Renamed(names[q], TRUE) PROVE FALSE
        OBVIOUS
      <4>1. n \in Range(names[q]) /\ sanitizeToolName(n, names[q], TRUE) # n
        BY DEF Renamed
      <4>2. Alias(Own(names[q]), n) = sanitizeToolName(n, names[q], TRUE)
        <5>1. /\ DOMAIN Own(names[q]).forward = Renamed(names[q], TRUE)
              /\ Own(names[q]).forward[n] = sanitizeToolName(n, names[q], TRUE)
          BY <2>3, RewriteMaps DEF Own
        <5> QED BY <5>1 DEF Alias
      <4>3. PICK j \in 1..Len(names[q]) : names[q][j] = n
        BY <2>3, <4>1, ListsAssumption, LenProperties DEF Range
      <4> QED BY <3>1, <4>1, <4>2, <4>3
    <3>3. DOMAIN ForwardMap(names[q], TRUE) = {}
      BY <3>2 DEF ForwardMap
    <3> QED BY <2>4, <3>3 DEF Own, buildToolNameRewrite
  <2>6. names[q] = names[r]
    BY <1>2, <1>6, <2>1, <2>2, <2>3, <2>5, UnsharedAssumption DEF Aliases, Own
  <2>7. up # NoKey
    BY <1>2, <2>1, CallersAssumption, AliasedListShape DEF Aliases, Own
  <2>8. Get(translated, up) = Own(names[r])
    BY <2>1, <2>2, <2>6, <2>7 DEF Get
  <2>9. up[i] = Alias(Own(names[r]), names[r][i])
    BY <1>2, <2>1, AliasedListShape DEF Aliases, Own
  <2>10. Unalias(Own(names[r]), up[i]) = names[r][i]
    BY <1>2, <1>3, <2>9, RoundTrip DEF Own
  <2>11. Own(names[r]) # EmptyRewrite
    BY <2>4, <2>6
  <2>12. CASE up[i] \in Range(names[r])
    <3>1. up[i] \notin DOMAIN Own(names[r]).reverse
      BY <1>2, <2>12, RewriteMaps DEF Own
    <3>2. up[i] = names[r][i]
      BY <2>10, <3>1 DEF Unalias
    <3> QED BY <2>12, <3>2 DEF restoreToolUseName
  <2>13. CASE up[i] \notin Range(names[r])
    BY <2>8, <2>10, <2>11, <2>13 DEF restoreToolUseName, unaliasTranslatedName
  <2> QED BY <2>12, <2>13
<1> QED BY <1>5, <1>6

(* On the native route the map under the request's own id brings it back;  *)
(* on a route that neither hook serves there is none and none is needed.   *)
LEMMA NativeBack ==
  ASSUME IInv, NEW r \in Requests, ~Translated(r), stage[r] # "new",
         NEW i \in 1..Len(names[r])
  PROVE  Unalias(Get(native, r), Upstream(r)[i]) = names[r][i]
<1>1. Exchange(r) /\ Stores
  BY DEF IInv
<1>2. names[r] \in ToolLists
  BY <1>1 DEF Exchange, Began
<1>3. /\ names[r] \in Seq(Names) /\ i \in DOMAIN names[r]
      /\ names[r][i] \in Range(names[r])
  BY <1>2, ListsAssumption, LenProperties DEF Range
<1>4. \A n : Unalias(EmptyRewrite, n) = n /\ Alias(EmptyRewrite, n) = n
  BY <1>3, EmptyLeaves
<1>5. CASE FromClaude(r)
  <2>1. Upstream(r) = AliasedList(Get(native, r), names[r])
    BY <1>1, <1>5 DEF Exchange, Kept
  <2>2. Upstream(r)[i] = Alias(Get(native, r), names[r][i])
    BY <1>3, <2>1 DEF AliasedList
  <2>3. CASE Get(native, r) = EmptyRewrite
    BY <1>4, <2>2, <2>3
  <2>4. CASE Get(native, r) = Own(names[r])
    <3>1. Unalias(Own(names[r]), Alias(Own(names[r]), names[r][i])) = names[r][i]
      BY <1>2, <1>3, RoundTrip DEF Own
    <3> QED BY <2>2, <2>4, <3>1
  <2> QED BY <1>1, <2>3, <2>4, NativeMap
<1>6. CASE ~FromClaude(r)
  <2>1. Get(native, r) = EmptyRewrite
    BY <1>1, <1>6, NoNativeMap
  <2>2. Upstream(r) = names[r]
    BY <1>1, <1>6 DEF Exchange, Kept
  <2> QED BY <1>4, <2>1, <2>2
<1> QED BY <1>5, <1>6

LEMMA normalizeResponseBeforeIInv ==
  ASSUME IInv, NEW r \in Requests, normalizeResponseBefore(r)
  PROVE  IInv'
<1> DEFINE w == line[r][2]
           name == IF Translated(r)
                   THEN restoreToolUseName(Get(translated, body[r]), w, Range(names[r]))
                   ELSE w
<1>1. /\ slot[r] = Null /\ stage[r] = "restore"
      /\ Answer(r, Changed(<<name>>, <<w>>))
      /\ UNCHANGED <<plugin, obfuscate, native, translated, stage, client, provider,
                     names, body, line, on>>
  BY DEF normalizeResponseBefore, Calls, exchange, Translated
<1>2. Exchange(r)
  BY DEF IInv
<1>3. line[r][1] \in 1..Len(names[r])
  BY <1>1, <1>2 DEF Exchange, Reading
<1>4. w = body[r][line[r][1]]
  <2>1. Told(r) = <<w>>[1]
    BY <1>1, NothingApplied DEF Told, Held
  <2>2. Told(r) = body[r][line[r][1]]
    BY <1>1, <1>2 DEF Exchange, Reading
  <2> QED BY <2>1, <2>2
<1>5. name = IF Translated(r) THEN names[r][line[r][1]] ELSE body[r][line[r][1]]
  <2>1. Upstream(r) = body[r]
    BY <1>1 DEF Upstream
  <2> QED BY <1>1, <1>3, <1>4, <2>1, RestoredName DEF name
<1> HIDE DEF name
<1> QED BY <1>1, <1>5, HookKeeps

(* On the native route the map under the request's own id brings the name  *)
(* back; on any other there is none and the name stays.                    *)
LEMMA interceptResponseIInv ==
  ASSUME IInv, NEW r \in Requests, interceptResponse(r)
  PROVE  IInv'
<1> DEFINE w == line[r][2]
           i == line[r][1]
           name == Unalias(Get(native, r), w)
<1>1. /\ slot[r] = Null /\ stage[r] = "deliver"
      /\ Answer(r, Changed(<<name>>, <<w>>))
      /\ UNCHANGED <<plugin, obfuscate, native, translated, stage, client, provider,
                     names, body, line, on>>
  BY DEF interceptResponse, Calls, exchange
<1>2. Exchange(r) /\ Stores
  BY DEF IInv
<1>3. i \in 1..Len(names[r]) /\ names[r] \in ToolLists
  BY <1>1, <1>2 DEF Exchange, Reading, Began
<1>4. names[r][i] \in Range(names[r]) /\ names[r] \in Seq(Names) /\ i \in DOMAIN names[r]
  BY <1>3, ListsAssumption, LenProperties DEF Range
<1>5. w = IF Translated(r) THEN names[r][i] ELSE body[r][i]
  <2>1. Told(r) = <<w>>[1]
    BY <1>1, NothingApplied DEF Told, Held
  <2>2. Told(r) = IF Translated(r) THEN names[r][i] ELSE body[r][i]
    BY <1>1, <1>2 DEF Exchange, Reading
  <2> QED BY <2>1, <2>2
<1>6. Upstream(r) = body[r]
  BY <1>1 DEF Upstream
<1>7. \A n : Unalias(EmptyRewrite, n) = n /\ Alias(EmptyRewrite, n) = n
  BY <1>4, EmptyLeaves
<1>8. name = names[r][i]
  <2>1. CASE Translated(r)
    <3>1. Get(native, r) = EmptyRewrite
      BY <1>2, <2>1, NoNativeMap
         DEF FromClaude, Translated, isAnthropicClaudeRequest, isTranslatedToClaude
    <3> QED BY <1>5, <1>7, <2>1, <3>1
  <2>2. CASE ~Translated(r)
    BY <1>1, <1>3, <1>5, <1>6, <2>2, NativeBack
  <2> QED BY <2>1, <2>2
<1> HIDE DEF name
<1>9. name = IF stage[r] = "restore"
             THEN IF Translated(r) THEN names[r][line[r][1]] ELSE body[r][line[r][1]]
             ELSE names[r][line[r][1]]
  BY <1>1, <1>8
<1> QED BY <1>1, <1>9, HookKeeps

-----------------------------------------------------------------------------
(* The hooks of the way up *)

\* The list that a hook makes of a client's names.
LEMMA NewList ==
  ASSUME NEW applies, NEW list \in ToolLists
  PROVE  LET rw  == Rewrite(applies, list)
             new == AliasedList(rw, list)
         IN  /\ rw \in {EmptyRewrite, Own(list)}
             /\ ~applies => rw = EmptyRewrite
             /\ applies /\ obfuscate => rw = Own(list)
             /\ rw = EmptyRewrite => new = list
             /\ rw = Own(list) => new = Aliases(list)
             /\ new \in Seq(Names) /\ new # << >>
<1> DEFINE rw  == Rewrite(applies, list)
           new == AliasedList(rw, list)
<1>1. /\ rw \in {EmptyRewrite, Own(list)}
      /\ ~applies => rw = EmptyRewrite
      /\ applies /\ obfuscate => rw = Own(list)
  BY DEF Rewrite, Own
<1>2. rw = EmptyRewrite => new = list
  BY EmptyRewriteIsIdentity
<1>3. rw = Own(list) => new = Aliases(list)
  BY DEF Aliases
<1>4. list \in Seq(Names) /\ list # << >> /\ Len(list) # 0
  <2>1. list \in Seq(Names) /\ list # << >>
    BY ListsAssumption, CallersAssumption
  <2> QED BY <2>1, EmptySeq, LenProperties
<1>5. Aliases(list) \in Seq(Names) /\ Aliases(list) # << >>
  <2>1. Aliases(list) \in Seq(Names) /\ Len(Aliases(list)) = Len(list)
    BY AliasedListShape DEF Aliases, Own
  <2>2. Len(<< >>) = 0
    OBVIOUS
  <2> QED BY <1>4, <2>1, <2>2
<1> HIDE DEF rw, new
<1> QED BY <1>1, <1>2, <1>3, <1>4, <1>5 DEF rw, new

\* The first hook finds a request as its client sent it, the second one a
\* request of a translated route.
LEMMA StillOwnNames ==
  ASSUME IInv, NEW r \in Requests, slot[r] = Null,
         stage[r] = "before" \/ (stage[r] = "normalize" /\ ~FromClaude(r))
  PROVE  body[r] = names[r] /\ names[r] \in ToolLists
<1>1. Exchange(r) /\ Stores
  BY DEF IInv
<1>2. names[r] \in ToolLists
  BY <1>1 DEF Exchange, Began
<1>3. Upstream(r) = body[r]
  BY NothingApplied DEF Upstream, Held
<1>4. ~PastNormalize(r)
  BY DEF PastNormalize
<1>5. CASE FromClaude(r)
  <2>1. Get(native, r) = EmptyRewrite
    BY <1>1, <1>5, NoNativeMap DEF PastBefore
  <2>2. Upstream(r) = AliasedList(Get(native, r), names[r])
    BY <1>1, <1>5 DEF Exchange, Kept
  <2> QED BY <1>2, <1>3, <2>1, <2>2, EmptyRewriteIsIdentity
<1>6. CASE ~FromClaude(r)
  BY <1>1, <1>2, <1>3, <1>4, <1>6 DEF Exchange, Kept
<1> QED BY <1>5, <1>6

\* A hook of the way up leaves an answer; stores aside, nothing else moves.
LEMMA UpHook ==
  ASSUME IInv, NEW r \in Requests, stage[r] \in {"before", "normalize"}, slot[r] = Null,
         NEW new, new # << >>, Answer(r, Changed(new, body[r])),
         UNCHANGED <<plugin, obfuscate, stage, client, provider, names, body, line, on>>
  PROVE  /\ Shape' /\ Heap' /\ Elsewhere(r)
         /\ slot'[r] # Null /\ Upstream(r)' = new
         /\ Began(r)' /\ Once(r)' /\ Reading(r)'
         /\ FromClaude(r)' = FromClaude(r) /\ Translated(r)' = Translated(r)
<1>1. Shape /\ Heap /\ Exchange(r)
  BY DEF IInv
<1>2. /\ Heap' /\ slot'[r] # Null /\ Held(r)' = Changed(new, body[r])
      /\ \A q \in Requests \ {r} : slot'[q] = slot[q] /\ Held(q)' = Held(q)
  BY <1>1, AnswerEffect, RequestsCall
<1>3. Shape'
  BY <1>1 DEF Shape
<1>4. Elsewhere(r)
  BY <1>2 DEF Elsewhere, Untouched
<1>5. Upstream(r)' = new
  BY <1>2, ChangedApplied DEF Upstream
<1>6. FromClaude(r)' = FromClaude(r) /\ Translated(r)' = Translated(r)
  BY DEF FromClaude, Translated
<1>7. Began(r)' /\ Once(r)'
  BY <1>1, <1>6 DEF Exchange, Began, Once
<1>8. Reading(r)'
  BY DEF Reading
<1> QED BY <1>2, <1>3, <1>4, <1>5, <1>6, <1>7, <1>8

\* The other requests, when a hook of r may have added to a store.
LEMMA OthersAfterPut ==
  ASSUME IInv, NEW r \in Requests, Elsewhere(r), UNCHANGED obfuscate,
         \A q \in Requests \ {r} : Get(native, q)' = Get(native, q),
         DOMAIN translated.items \subseteq DOMAIN translated'.items
  PROVE  \A q \in Requests \ {r} : Exchange(q)' /\ Onward(q)
<1> SUFFICES ASSUME NEW q \in Requests \ {r} PROVE Exchange(q)' /\ Onward(q)
  OBVIOUS
<1>1. Exchange(q) /\ Untouched(q) /\ on'[q] = on[q]
  BY DEF IInv, Elsewhere
<1>2. on'[q] /\ stage[q] \in {"before", "normalize"} => obfuscate'
  BY <1>1 DEF Exchange, Obfuscated
<1>3. Exchange(q)'
  BY <1>1, <1>2, Unmoved
<1> QED BY <1>1, <1>3, UntouchedOnward

\* There are fewer other requests than places in a store.
LEMMA OthersFew ==
  ASSUME NEW r \in Requests
  PROVE  /\ IsFiniteSet(Requests \ {r}) /\ Cardinality(Requests \ {r}) \in Nat
         /\ Cardinality(Requests \ {r}) < Capacity
<1>1. /\ IsFiniteSet(Requests \ {r})
      /\ Cardinality(Requests \ {r}) = Cardinality(Requests) - 1
  BY RoomAssumption, FS_RemoveElement
<1>2. Cardinality(Requests) \in Nat /\ Cardinality(Requests \ {r}) \in Nat
  BY <1>1, RoomAssumption, FS_CardinalityType
<1> QED BY <1>1, <1>2, RoomAssumption, CapacityAssumption

LEMMA NativeRoom ==
  ASSUME Stores, NEW r \in Requests, r \notin DOMAIN native.items
  PROVE  Len(native.order) < Capacity
<1>1. Sound(native, Requests, Rewrites)
  BY DEF Stores
<1>2. DOMAIN native.items \subseteq Requests \ {r}
  <2>1. \A i \in 1..Len(native.order) : native.order[i] \in Requests
    BY <1>1, ElementOfSeq DEF Sound
  <2>2. DOMAIN native.order = 1..Len(native.order)
    BY <1>1, LenProperties DEF Sound
  <2>3. DOMAIN native.items = {native.order[i] : i \in DOMAIN native.order}
    BY <1>1 DEF Sound, Range
  <2> QED BY <2>1, <2>2, <2>3
<1>3. Len(native.order) <= Cardinality(Requests \ {r})
  BY <1>1, <1>2, OthersFew, OrderBound
<1>4. Len(native.order) \in Nat
  BY <1>1, LenProperties DEF Sound
<1>5. /\ Cardinality(Requests \ {r}) \in Nat /\ Cardinality(Requests \ {r}) < Capacity
      /\ Capacity \in Nat
  BY OthersFew, CapacityAssumption
<1> QED BY <1>3, <1>4, <1>5

LEMMA TranslatedRoom ==
  ASSUME Stores, NEW r \in Requests, ~PastNormalize(r)
  PROVE  Len(translated.order) < Capacity
<1> DEFINE key == [q \in Requests \ {r} |-> Aliases(names[q])]
           T   == {Aliases(names[q]) : q \in Requests \ {r}}
<1>1. Sound(translated, Seq(Names), Rewrites)
  BY DEF Stores
<1>2. DOMAIN translated.items \subseteq T
  BY DEF Stores, TranslatedHolds
<1>3. key \in Surjection(Requests \ {r}, T)
  <2>1. \A q \in Requests \ {r} : key[q] = Aliases(names[q]) /\ key[q] \in T
    OBVIOUS
  <2>2. \A k \in T : \E q \in Requests \ {r} : key[q] = k
    BY <2>1
  <2>3. key \in [Requests \ {r} -> T]
    BY <2>1
  <2> HIDE DEF key, T
  <2> QED BY <2>2, <2>3 DEF Surjection
<1> HIDE DEF key, T
<1>4. IsFiniteSet(T) /\ Cardinality(T) <= Cardinality(Requests \ {r})
  BY <1>3, OthersFew, FS_Surjection
<1>5. Cardinality(T) \in Nat
  BY <1>4, FS_CardinalityType
<1>6. Len(translated.order) <= Cardinality(T)
  BY <1>1, <1>2, <1>4, OrderBound
<1>7. Len(translated.order) \in Nat
  BY <1>1, LenProperties DEF Sound
<1>8. /\ Cardinality(Requests \ {r}) \in Nat /\ Cardinality(Requests \ {r}) < Capacity
      /\ Capacity \in Nat
  BY OthersFew, CapacityAssumption
<1> QED BY <1>4, <1>5, <1>6, <1>7, <1>8

(* The first hook renames the tools of a client that speaks Claude and     *)
(* stores the map under the request's id.                                  *)
LEMMA interceptRequestBeforeIInv ==
  ASSUME IInv, NEW r \in Requests, interceptRequestBefore(r)
  PROVE  IInv'
<1> DEFINE list == names[r]
           rw   == Rewrite(FromClaude(r), list)
           new  == AliasedList(rw, list)
<1>1. slot[r] = Null /\ stage[r] = "before"
  BY DEF interceptRequestBefore, Calls
<1>2. body[r] = list /\ list \in ToolLists
  BY <1>1, StillOwnNames
<1>3. /\ native' = Put(native, r, rw)
      /\ Answer(r, Changed(new, body[r]))
      /\ UNCHANGED <<plugin, obfuscate, translated, stage, client, provider,
                     names, body, line, on>>
  BY <1>2 DEF interceptRequestBefore, exchange, FromClaude
<1>4. /\ rw \in {EmptyRewrite, Own(list)}
      /\ ~FromClaude(r) => rw = EmptyRewrite
      /\ FromClaude(r) /\ obfuscate => rw = Own(list)
      /\ rw = EmptyRewrite => new = list
      /\ rw = Own(list) => new = Aliases(list)
      /\ new # << >>
  BY <1>2, NewList
<1>5. Stores /\ Exchange(r)
  BY DEF IInv
<1> HIDE DEF rw, new
<1>6. /\ Shape' /\ Heap' /\ Elsewhere(r)
      /\ slot'[r] # Null /\ Upstream(r)' = new
      /\ Began(r)' /\ Once(r)' /\ Reading(r)'
      /\ FromClaude(r)' = FromClaude(r) /\ Translated(r)' = Translated(r)
  BY <1>1, <1>3, <1>4, UpHook
<1>7. ~PastBefore(r) /\ PastBefore(r)' /\ ~PastNormalize(r) /\ ~PastNormalize(r)'
  BY <1>1, <1>3, <1>6 DEF PastBefore, PastNormalize
<1>8. r \notin DOMAIN native.items
  BY <1>5, <1>7, NoNativeMap
<1>9. r # NoKey /\ r \in Callers
  BY CallersAssumption, RequestsCall
<1>10. /\ Sound(native', Requests, Rewrites)
       /\ rw = EmptyRewrite => native' = native
       /\ rw # EmptyRewrite =>
            /\ rw = Own(list) /\ FromClaude(r)
            /\ DOMAIN native'.items = {r} \cup DOMAIN native.items
            /\ \A k \in {r} \cup DOMAIN native.items :
                 native'.items[k] = IF k = r THEN rw ELSE native.items[k]
  <2>1. CASE rw = EmptyRewrite
    <3>1. native' = native
      BY <1>3, <2>1, NilAssumption DEF Put
    <3> QED BY <1>5, <2>1, <3>1 DEF Stores
  <2>2. CASE rw # EmptyRewrite
    <3>1. rw \in Rewrites /\ rw # NoRewrite
      BY <1>2, <1>4, <2>2, NilAssumption DEF Rewrites
    <3>2. Len(native.order) < Capacity /\ Sound(native, Requests, Rewrites)
      BY <1>5, <1>8, NativeRoom DEF Stores
    <3> QED BY <1>3, <1>4, <1>9, <2>2, <3>1, <3>2, PutWithRoom
  <2> QED BY <2>1, <2>2
<1>11. Get(native, r)' = rw
  <2>1. CASE rw = EmptyRewrite
    BY <1>8, <1>10, <2>1, NilAssumption DEF Get
  <2>2. CASE rw # EmptyRewrite
    BY <1>9, <1>10, <2>2 DEF Get
  <2> QED BY <2>1, <2>2
<1>12. \A q \in Requests \ {r} : Get(native, q)' = Get(native, q)
  BY <1>10 DEF Get
<1>13. \A q \in Requests \ {r} : Exchange(q)' /\ Onward(q)
  BY <1>3, <1>6, <1>12, OthersAfterPut
<1>14. Kept(r)'
  <2>1. FromClaude(r)' => Upstream(r)' = AliasedList(Get(native, r)', names'[r])
    BY <1>3, <1>6, <1>11 DEF new
  <2>2. ~FromClaude(r)' => Upstream(r)' = names'[r]
    BY <1>3, <1>4, <1>6
  <2>3. Translated(r)' => ~FromClaude(r)'
    BY DEF FromClaude, Translated, isAnthropicClaudeRequest, isTranslatedToClaude
  <2> QED BY <2>1, <2>2, <2>3 DEF Kept
<1>15. Obfuscated(r)'
  <2>1. on'[r] => obfuscate
    BY <1>1, <1>3, <1>5 DEF Exchange, Obfuscated
  <2>2. on'[r] /\ FromClaude(r)' => Upstream(r)' = Aliases(names'[r])
    BY <1>3, <1>4, <1>6, <2>1
  <2> QED BY <1>3, <1>7, <2>1, <2>2 DEF Obfuscated
<1>16. Exchange(r)'
  BY <1>6, <1>14, <1>15 DEF Exchange
<1>17. Onward(r)
  BY <1>7 DEF Onward
<1>18. NativeHolds'
  <2> SUFFICES ASSUME NEW k \in DOMAIN native'.items
               PROVE  PastBefore(k)' /\ FromClaude(k)' /\ native'.items[k] = Own(names'[k])
    BY DEF NativeHolds
  <2>1. CASE k = r
    <3>1. rw # EmptyRewrite
      BY <1>8, <1>10, <2>1
    <3> QED BY <1>3, <1>6, <1>7, <1>10, <2>1, <3>1
  <2>2. CASE k # r
    <3>1. k \in DOMAIN native.items /\ native'.items[k] = native.items[k]
      BY <1>10, <2>2
    <3>2. PastBefore(k) /\ FromClaude(k) /\ native.items[k] = Own(names[k])
      BY <1>5, <3>1 DEF Stores, NativeHolds
    <3>3. k \in Requests
      BY <1>5, <3>1, LenProperties, ElementOfSeq DEF Stores, Sound, Range
    <3>4. PastBefore(k)' /\ FromClaude(k)' = FromClaude(k)
      BY <1>3, <1>13, <2>2, <3>2, <3>3 DEF Onward, FromClaude
    <3> QED BY <1>3, <3>1, <3>2, <3>4
  <2> QED BY <2>1, <2>2
<1>19. TranslatedHolds'
  <2> SUFFICES ASSUME NEW k \in DOMAIN translated.items
               PROVE  \E q \in Requests :
                        /\ PastNormalize(q)' /\ k = Aliases(names'[q])
                        /\ translated.items[k] = Own(names'[q])
    BY <1>3 DEF TranslatedHolds
  <2>1. PICK q \in Requests :
          /\ PastNormalize(q) /\ k = Aliases(names[q])
          /\ translated.items[k] = Own(names[q])
    BY <1>5 DEF Stores, TranslatedHolds
  <2>2. q # r
    BY <1>7, <2>1
  <2> QED BY <1>13, <2>1, <2>2 DEF Onward
<1>20. Stores'
  BY <1>3, <1>5, <1>10, <1>18, <1>19 DEF Stores
<1> QED BY <1>6, <1>13, <1>16, <1>20 DEF IInv

(* The second hook renames the tools of a request that was translated into *)
(* the Claude format and stores the map under the list it made.            *)
LEMMA normalizeRequestIInv ==
  ASSUME IInv, NEW r \in Requests, normalizeRequest(r)
  PROVE  IInv'
<1> DEFINE list == body[r]
           rw   == Rewrite(Translated(r), list)
           new  == AliasedList(rw, list)
<1>1. /\ slot[r] = Null /\ stage[r] = "normalize"
      /\ translated' = Put(translated, new, rw)
      /\ Answer(r, Changed(new, body[r]))
      /\ UNCHANGED <<plugin, obfuscate, native, stage, client, provider,
                     names, body, line, on>>
  BY DEF normalizeRequest, Calls, exchange, Translated
<1>2. Stores /\ Exchange(r)
  BY DEF IInv
<1>3. names[r] \in ToolLists /\ list \in Seq(Names) /\ list # << >>
  <2>1. names[r] \in ToolLists /\ list \in Seq(Names) /\ Len(list) = Len(names[r])
    BY <1>1, BodyNames
  <2>2. names[r] \in Seq(Names) /\ names[r] # << >>
    BY <2>1, ListsAssumption, CallersAssumption
  <2> QED BY <2>1, <2>2, EmptySeq, LenProperties
<1>4. Translated(r) => list = names[r]
  <2>1. Translated(r) => ~FromClaude(r)
    BY DEF FromClaude, Translated, isAnthropicClaudeRequest, isTranslatedToClaude
  <2> QED BY <1>1, <2>1, StillOwnNames
<1>5. /\ rw \in {EmptyRewrite, Own(list)}
      /\ ~Translated(r) => rw = EmptyRewrite
      /\ Translated(r) /\ obfuscate => rw = Own(list)
      /\ rw = EmptyRewrite => new = list
      /\ rw = Own(list) => new = Aliases(list)
      /\ rw # EmptyRewrite => new \in Seq(Names)
      /\ new # << >>
  <2>1. CASE Translated(r)
    <3>1. list \in ToolLists
      BY <1>3, <1>4, <2>1
    <3> HIDE DEF list
    <3> QED BY <2>1, <3>1, NewList
  <2>2. CASE ~Translated(r)
    <3>1. rw = EmptyRewrite
      BY <2>2 DEF Rewrite
    <3>2. new = list
      BY <1>3, <3>1, EmptyLeaves
    <3>3. rw = Own(list) => new = Aliases(list)
      BY DEF Aliases
    <3> HIDE DEF rw, new
    <3> QED BY <1>3, <2>2, <3>1, <3>2, <3>3
  <2> QED BY <2>1, <2>2
<1> HIDE DEF rw, new, list
<1>6. /\ Shape' /\ Heap' /\ Elsewhere(r)
      /\ slot'[r] # Null /\ Upstream(r)' = new
      /\ Began(r)' /\ Once(r)' /\ Reading(r)'
      /\ FromClaude(r)' = FromClaude(r) /\ Translated(r)' = Translated(r)
  BY <1>1, <1>5, UpHook
<1>7. PastBefore(r) /\ PastBefore(r)' /\ ~PastNormalize(r) /\ PastNormalize(r)'
  BY <1>1, <1>6 DEF PastBefore, PastNormalize
<1>8. /\ Sound(translated', Seq(Names), Rewrites)
      /\ rw = EmptyRewrite => translated' = translated
      /\ rw # EmptyRewrite =>
           /\ rw = Own(names[r]) /\ new = Aliases(names[r]) /\ Translated(r)
           /\ DOMAIN translated'.items = {new} \cup DOMAIN translated.items
           /\ \A k \in {new} \cup DOMAIN translated.items :
                translated'.items[k] = IF k = new THEN rw ELSE translated.items[k]
  <2>1. CASE rw = EmptyRewrite
    <3>1. translated' = translated
      BY <1>1, <2>1, NilAssumption DEF Put
    <3> QED BY <1>2, <2>1, <3>1 DEF Stores
  <2>2. CASE rw # EmptyRewrite
    <3>1. rw = Own(names[r]) /\ new = Aliases(names[r]) /\ Translated(r)
      BY <1>4, <1>5, <2>2
    <3>2. rw \in Rewrites /\ rw # NoRewrite
      BY <1>3, <2>2, <3>1, NilAssumption DEF Rewrites
    <3>3. new \in Seq(Names) /\ new # NoKey
      BY <1>5, <2>2, CallersAssumption
    <3>4. Len(translated.order) < Capacity /\ Sound(translated, Seq(Names), Rewrites)
      BY <1>2, <1>7, TranslatedRoom DEF Stores
    <3>5. /\ DOMAIN Put(translated, new, rw).items = {new} \cup DOMAIN translated.items
          /\ \A k \in {new} \cup DOMAIN translated.items :
               Put(translated, new, rw).items[k] = IF k = new THEN rw ELSE translated.items[k]
          /\ Sound(Put(translated, new, rw), Seq(Names), Rewrites)
      BY <3>2, <3>3, <3>4, PutWithRoom
    <3> QED BY <1>1, <2>2, <3>1, <3>5
  <2> QED BY <2>1, <2>2
<1>9. DOMAIN translated.items \subseteq DOMAIN translated'.items
  BY <1>8
<1>10. \A q : Get(native, q)' = Get(native, q)
  BY <1>1 DEF Get
<1>11. \A q \in Requests \ {r} : Exchange(q)' /\ Onward(q)
  BY <1>1, <1>6, <1>9, <1>10, OthersAfterPut
<1>12. names'[r] = names[r] /\ Upstream(r) = list
  BY <1>1, NothingApplied DEF Upstream, Held, list
<1>13. Kept(r)'
  <2>1. CASE Translated(r)
    <3>1. ~FromClaude(r)
      BY <2>1 DEF FromClaude, Translated, isAnthropicClaudeRequest, isTranslatedToClaude
    <3>2. \/ Upstream(r)' = names'[r]
          \/ Upstream(r)' = Aliases(names'[r]) /\ Upstream(r)' \in DOMAIN translated'.items
      BY <1>4, <1>5, <1>6, <1>8, <1>12, <2>1
    <3> QED BY <1>6, <1>7, <2>1, <3>1, <3>2 DEF Kept
  <2>2. CASE ~Translated(r)
    <3>1. Upstream(r)' = Upstream(r)
      BY <1>5, <1>6, <1>12, <2>2
    <3>2. /\ FromClaude(r) => Upstream(r) = AliasedList(Get(native, r), names[r])
          /\ ~FromClaude(r) => Upstream(r) = names[r]
      BY <1>1, <1>2, <2>2 DEF Exchange, Kept
    <3> QED BY <1>6, <1>10, <1>12, <2>2, <3>1, <3>2 DEF Kept
  <2> QED BY <2>1, <2>2
<1>14. Obfuscated(r)'
  <2>1. on[r] => obfuscate
    BY <1>1, <1>2 DEF Exchange, Obfuscated
  <2>2. on[r] /\ Translated(r) => Upstream(r)' = Aliases(names'[r])
    BY <1>4, <1>5, <1>6, <1>12, <2>1
  <2>3. on[r] /\ FromClaude(r) => Upstream(r)' = Aliases(names'[r])
    <3>1. FromClaude(r) => ~Translated(r)
      BY DEF FromClaude, Translated, isAnthropicClaudeRequest, isTranslatedToClaude
    <3>2. on[r] /\ FromClaude(r) => Upstream(r) = Aliases(names[r])
      BY <1>2, <1>7 DEF Exchange, Obfuscated
    <3> QED BY <1>5, <1>6, <1>12, <3>1, <3>2
  <2>4. on'[r] = on[r] /\ obfuscate' = obfuscate
    BY <1>1
  <2> QED BY <1>6, <2>1, <2>2, <2>3, <2>4 DEF Obfuscated
<1>15. Exchange(r)'
  BY <1>6, <1>13, <1>14 DEF Exchange
<1>16. \A q \in Requests :
         /\ PastBefore(q) => PastBefore(q)'
         /\ PastNormalize(q) => PastNormalize(q)'
  BY <1>7, <1>11 DEF Onward
<1>17. NativeHolds'
  <2> SUFFICES ASSUME NEW k \in DOMAIN native.items
               PROVE  PastBefore(k)' /\ FromClaude(k)' /\ native.items[k] = Own(names'[k])
    BY <1>1 DEF NativeHolds
  <2>1. PastBefore(k) /\ FromClaude(k) /\ native.items[k] = Own(names[k])
    BY <1>2 DEF Stores, NativeHolds
  <2>2. k \in Requests
    BY <1>2, LenProperties, ElementOfSeq DEF Stores, Sound, Range
  <2> QED BY <1>1, <1>16, <2>1, <2>2 DEF FromClaude
<1>18. TranslatedHolds'
  <2> SUFFICES ASSUME NEW k \in DOMAIN translated'.items
               PROVE  \E q \in Requests :
                        /\ PastNormalize(q)' /\ k = Aliases(names'[q])
                        /\ translated'.items[k] = Own(names'[q])
    BY DEF TranslatedHolds
  <2>1. CASE rw # EmptyRewrite /\ k = new
    BY <1>7, <1>8, <1>12, <2>1
  <2>2. CASE rw = EmptyRewrite \/ k # new
    <3>1. k \in DOMAIN translated.items /\ translated'.items[k] = translated.items[k]
      BY <1>8, <2>2
    <3>2. PICK q \in Requests :
            /\ PastNormalize(q) /\ k = Aliases(names[q])
            /\ translated.items[k] = Own(names[q])
      BY <1>2, <3>1 DEF Stores, TranslatedHolds
    <3> QED BY <1>1, <1>16, <3>1, <3>2
  <2> QED BY <2>1, <2>2
<1>19. Stores'
  BY <1>1, <1>2, <1>8, <1>17, <1>18 DEF Stores
<1> QED BY <1>6, <1>11, <1>15, <1>19 DEF IInv

-----------------------------------------------------------------------------

LEMMA NextIInv == IInv /\ [Next]_vars => IInv'
<1> SUFFICES ASSUME IInv, [Next]_vars PROVE IInv'
  OBVIOUS
<1>1. CASE UNCHANGED vars
  <2>1. UNCHANGED <<plugin, obfuscate, native, translated, heap, slot, stage, client,
                    provider, names, body, line, on>>
    BY <1>1 DEF vars
  <2>2. Heap' /\ \A q : Held(q)' = Held(q)
    BY <2>1, HeapStays DEF IInv
  <2>3. /\ on \in [Requests -> BOOLEAN] /\ obfuscate \in BOOLEAN
        /\ plugin \in {"absent", "loaded", "registered"}
    BY DEF IInv, Shape
  <2>4. \A q \in Requests : on[q] /\ stage[q] \in {"before", "normalize"} => obfuscate
    BY DEF IInv, Exchange, Obfuscated
  <2> QED BY <2>1, <2>2, <2>3, <2>4, LifecycleKeeps
<1>2. CASE Next
  <2>1. CASE cliproxy_plugin_init \/ Refused \/ LifecycleReturns
    BY <2>1, LoadIInv, RefusedIInv, LifecycleReturnsIInv
  <2>2. CASE \E value \in BOOLEAN : Configure(value)
    BY <2>2, ConfigureIInv
  <2>3. ASSUME NEW r \in Requests,
               \E from \in ClientFormats, to \in Providers, list \in ToolLists :
                 Begin(r, from, to, list)
        PROVE  IInv'
    BY <2>3, BeginIInv
  <2>4. ASSUME NEW r \in Requests, interceptRequestBefore(r) PROVE IInv'
    BY <2>4, interceptRequestBeforeIInv
  <2>5. ASSUME NEW r \in Requests, normalizeRequest(r) PROVE IInv'
    BY <2>5, normalizeRequestIInv
  <2>6. ASSUME NEW r \in Requests, RequestReturns(r) PROVE IInv'
    BY <2>6, RequestReturnsIInv
  <2>7. ASSUME NEW r \in Requests, UpstreamLine(r) PROVE IInv'
    BY <2>7, UpstreamLineIInv
  <2>8. ASSUME NEW r \in Requests, normalizeResponseBefore(r) PROVE IInv'
    BY <2>8, normalizeResponseBeforeIInv
  <2>9. ASSUME NEW r \in Requests, interceptResponse(r) PROVE IInv'
    BY <2>9, interceptResponseIInv
  <2>10. ASSUME NEW r \in Requests, ResponseReturns(r) PROVE IInv'
    BY <2>10, ResponseReturnsIInv
  <2>11. ASSUME NEW r \in Requests, Continue(r) PROVE IInv'
    BY <2>11, ContinueIInv
  <2> QED BY <1>2, <2>1, <2>2, <2>3, <2>4, <2>5, <2>6, <2>7, <2>8, <2>9, <2>10, <2>11
          DEF Next
<1> QED BY <1>1, <1>2

LEMMA PluginInvariant == Spec => []IInv
<1>1. Init => IInv
  BY InitIInv
<1>2. IInv /\ [Next]_vars => IInv'
  BY NextIInv
<1> QED BY <1>1, <1>2, PTL DEF Spec

(* The state of the plugin and of the exchanges stays within its types.    *)
THEOREM PluginTypeOK == Spec => []TypeOK
<1>1. IInv => TypeOK
  <2> SUFFICES ASSUME IInv PROVE TypeOK
    OBVIOUS
  <2>1. \A r \in Requests : body[r] \in Seq(Names) /\ Len(body[r]) = Len(names[r])
    BY BodyNames
  <2> QED BY <2>1 DEF IInv, Shape, Heap, TypeOK
<1> QED BY <1>1, PluginInvariant, PTL

(* Whatever calls are in progress, succeed or are refused, each answer is  *)
(* on the heap for its own caller, and nothing else is (main.go).          *)
THEOREM PluginAnswersOwned == Spec => []AnswersOwned
<1>1. IInv => AnswersOwned
  BY DEF IInv, Heap
<1> QED BY <1>1, PluginInvariant, PTL

(* The two hooks of the way up rename a request's tools once at most, by   *)
(* the rule for the client's own list, and not at all off both routes.     *)
THEOREM PluginRenamedOnce == Spec => []RenamedOnce
<1>1. IInv => RenamedOnce
  <2> SUFFICES ASSUME IInv, NEW r \in Requests
               PROVE  /\ body[r] \in {names[r], Aliases(names[r])}
                      /\ client[r] \notin {"claude", "anthropic", ""} /\ provider[r] # "claude"
                           => body[r] = names[r]
    BY DEF RenamedOnce, Aliases, Own
  <2>1. Once(r)
    BY DEF IInv, Exchange
  <2> QED BY <2>1 DEF Once, FromClaude, Translated, isAnthropicClaudeRequest,
                      isTranslatedToClaude
<1> QED BY <1>1, PluginInvariant, PTL

(* From the answer of a hook on, unread or read, the stores hold what      *)
(* gives each name that goes upstream back to its tool.                    *)
THEOREM PluginWayBackKept == Spec => []WayBackKept
<1>1. IInv => WayBackKept
  <2> SUFFICES ASSUME IInv, NEW r \in Requests, stage[r] # "new",
                      NEW i \in 1..Len(names[r])
               PROVE  names[r][i] =
                        IF Translated(r)
                        THEN restoreToolUseName(Get(translated, Upstream(r)),
                                                Upstream(r)[i], Range(names[r]))
                        ELSE Unalias(Get(native, r), Upstream(r)[i])
    BY DEF WayBackKept, Translated
  <2> QED BY RestoredName, NativeBack
<1> QED BY <1>1, PluginInvariant, PTL

(* After both hooks of the way down a client reads its own name for the    *)
(* tool the upstream meant, on either route, with any number of requests   *)
(* in flight and whatever is reconfigured meanwhile.                       *)
THEOREM PluginNamesComeBack == Spec => []NamesComeBack
<1>1. IInv => NamesComeBack
  <2> SUFFICES ASSUME IInv, NEW r \in Requests, stage[r] = "told"
               PROVE  line[r][2] = names[r][line[r][1]]
    BY DEF NamesComeBack
  <2>1. Reading(r)
    BY DEF IInv, Exchange
  <2> QED BY <2>1 DEF Reading, Told
<1> QED BY <1>1, PluginInvariant, PTL

(* What a list looks like upstream when all of it went through the rules:  *)
(* a name the static rules cover is there only if its alias is declared.   *)
LEMMA CoveredInAliases ==
  ASSUME NEW list \in ToolLists,
         NEW n \in Range(Aliases(list)) \cap DOMAIN StaticAlias
  PROVE  sanitizeToolName(n, list, TRUE) \in Range(list)
<1>1. Len(list) \in Nat /\ DOMAIN list = 1..Len(list)
  BY ListsAssumption, LenProperties
<1>2. DOMAIN Aliases(list) = 1..Len(list)
  BY <1>1 DEF Aliases, AliasedList
<1>3. PICK i \in 1..Len(list) : Aliases(list)[i] = n
  BY <1>2 DEF Range
<1>4. n \in Range(list)
  <2> SUFFICES ASSUME n \notin Range(list) PROVE FALSE
    OBVIOUS
  <2>1. list[i] \in Renamed(list, TRUE) /\ n = sanitizeToolName(list[i], list, TRUE)
    BY <1>3, AliasInPlace
  <2>2. list[i] \in Range(list)
    BY <2>1 DEF Renamed
  <2>3. CASE Len(list) > Threshold
    <3>1. n = DynamicAlias(list, LastIndex(list, list[i]))
      BY <2>1, <2>3 DEF sanitizeToolName
    <3> QED BY <2>2, <3>1, LastIndexHolds, ReadableAssumption
  <2>4. CASE ~(Len(list) > Threshold)
    <3>1. list[i] \in DOMAIN StaticAlias /\ n = StaticAlias[list[i]]
      BY <2>1, <2>4 DEF sanitizeToolName, Renamed
    <3>2. n \in Range(StaticAlias)
      BY <3>1 DEF Range
    <3> QED BY <3>2, StaticAssumption
  <2> QED BY <2>3, <2>4
<1>5. n \notin Renamed(list, TRUE)
  <2> SUFFICES ASSUME n \in Renamed(list, TRUE) PROVE FALSE
    OBVIOUS
  <2>1. Aliases(list)[i] = Alias(Own(list), list[i])
    BY AliasedListShape DEF Aliases, Own
  <2>2. /\ DOMAIN Own(list).forward = Renamed(list, TRUE)
        /\ \A m \in Renamed(list, TRUE) :
             Own(list).forward[m] = sanitizeToolName(m, list, TRUE)
    BY RewriteMaps DEF Own
  <2>3. \A m \in Renamed(list, TRUE) : sanitizeToolName(m, list, TRUE) \notin Range(list)
    BY DEF Renamed
  <2> QED BY <1>3, <1>4, <2>1, <2>2, <2>3 DEF Alias
<1>6. sanitizeToolName(n, list, TRUE) = n \/ sanitizeToolName(n, list, TRUE) \in Range(list)
  BY <1>4, <1>5 DEF Renamed
<1> QED BY <1>4, <1>6

(* Between them the hooks leave no request out: with obfuscation on, no    *)
(* covered name reaches a Claude upstream unless its alias is declared.    *)
THEOREM PluginCoveredNeverSent == Spec => []CoveredNeverSent
<1>1. IInv => CoveredNeverSent
  <2> SUFFICES ASSUME IInv, NEW r \in Requests, on[r], provider[r] = "claude",
                      stage[r] \notin {"new", "before", "normalize"},
                      NEW n \in Range(body[r]) \cap DOMAIN StaticAlias
               PROVE  sanitizeToolName(n, names[r], TRUE) \in Range(names[r])
    BY DEF CoveredNeverSent
  <2>1. Exchange(r) /\ names[r] \in ToolLists
    BY DEF IInv, Exchange, Began
  <2>2. PastBefore(r) /\ PastNormalize(r) /\ Upstream(r) = body[r]
    BY DEF PastBefore, PastNormalize, Upstream
  <2>3. FromClaude(r) \/ Translated(r)
    BY DEF FromClaude, Translated, isAnthropicClaudeRequest, isTranslatedToClaude
  <2>4. body[r] = Aliases(names[r])
    BY <2>1, <2>2, <2>3 DEF Exchange, Obfuscated
  <2> QED BY <2>1, <2>4, CoveredInAliases
<1> QED BY <1>1, PluginInvariant, PTL
=============================================================================
