-------------------------- MODULE RewriteStoreLife --------------------------
(***************************************************************************)
(* One store over its life: put called by the forward hooks of requests in *)
(* any order, including for a key that is stored, for the empty key and    *)
(* with an empty rewrite.  Lookups do not change the store.                *)
(*                                                                         *)
(* Two history variables record what the callers did, so that the          *)
(* properties can relate the store to them: the last rewrite put under     *)
(* each key, and how many other keys have entered the store since the key  *)
(* last entered it.                                                        *)
(***************************************************************************)
EXTENDS RewriteStore

CONSTANTS Keys, Rewrites

ASSUME KeysAssumption     == NoKey \notin Keys
ASSUME RewritesAssumption == NoRewrite \notin Rewrites

VARIABLES
  store,    \* the plugin's state
  lastPut,  \* history: key -> the rewrite of the last effective put
  behind    \* history: key -> keys that entered since it did (capped)

storeVars == <<store, lastPut, behind>>

StoreInit ==
  /\ store   = EmptyStore
  /\ lastPut = [k \in Keys |-> NoRewrite]
  /\ behind  = [k \in Keys |-> Capacity]

\* The count stops at Capacity: from there on the entry must be gone.
OneMore(n) == IF n < Capacity THEN n + 1 ELSE n

\* put with an empty key or an empty rewrite returns at once.
PutNothing(key, rw) ==
  /\ key = NoKey \/ rw = NoRewrite
  /\ store' = Put(store, key, rw)
  /\ UNCHANGED <<lastPut, behind>>

PutEntry(key, rw) ==
  /\ store'   = Put(store, key, rw)
  /\ lastPut' = [lastPut EXCEPT ![key] = rw]
  /\ behind'  = IF key \in DOMAIN store.items THEN behind
                ELSE [k \in Keys |-> IF k = key THEN 0 ELSE OneMore(behind[k])]

StoreNext ==
  \/ \E key \in Keys \cup {NoKey}, rw \in Rewrites \cup {NoRewrite} :
       PutNothing(key, rw)
  \/ \E key \in Keys, rw \in Rewrites : PutEntry(key, rw)

StoreSpec == StoreInit /\ [][StoreNext]_storeVars

-----------------------------------------------------------------------------
StoreTyped ==
  /\ DOMAIN store.items \subseteq Keys
  /\ store.items \in [DOMAIN store.items -> Rewrites]
  /\ store.order \in Seq(Keys)
  /\ lastPut \in [Keys -> Rewrites \cup {NoRewrite}]
  /\ behind \in [Keys -> 0..Capacity]

(* The list and the map describe the same entries: no key is listed twice, *)
(* every listed key has an entry and every entry is listed (an unlisted    *)
(* entry would never be evicted and the store would grow without bound),   *)
(* and there are at most Capacity of them.                                 *)
Consistent ==
  /\ IsInjective(store.order)
  /\ Range(store.order) = DOMAIN store.items
  /\ Len(store.order) <= Capacity

(* A lookup never returns a rewrite that a later put replaced: it returns  *)
(* the last one put under the key, or nothing.                             *)
NeverStale ==
  \A k \in Keys : Get(store, k) \in {lastPut[k], NoRewrite}

(* An entry outlives exactly the Capacity - 1 next keys that enter: it is  *)
(* there until then whatever is put or looked up in between, and it is     *)
(* gone afterwards.  This is what the restore side relies on when it       *)
(* treats a missing entry as "nothing was renamed" (ADR-006).              *)
Retention ==
  \A k \in Keys : k \in DOMAIN store.items <=> behind[k] < Capacity

(* The queue position of an entry is the number of keys that entered after *)
(* it, which is why a put of a stored key must not move it.                *)
PositionIsAge ==
  \A i \in 1..Len(store.order) : behind[store.order[i]] = Len(store.order) - i

(* One put drops at most one entry, only to make room for a new key in a   *)
(* full store, and the one it drops is the oldest.                         *)
EvictsOldestOnly ==
  [][\A k \in DOMAIN store.items \ DOMAIN store'.items :
       /\ Len(store.order) = Capacity
       /\ k = Head(store.order)
       /\ DOMAIN store'.items \ DOMAIN store.items # {}]_storeVars
=============================================================================
