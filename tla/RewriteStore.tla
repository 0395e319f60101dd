---------------------------- MODULE RewriteStore ----------------------------
(***************************************************************************)
(* boundedRewriteStore of internal/mimicry/interceptors.go: a bounded FIFO *)
(* that carries a rewrite map from the hook that renamed a request's tools *)
(* to the hook that restores the names in its response.  The plugin keeps  *)
(* two of them, rewriteStore (native route, keyed by request) and          *)
(* translatedRewrites (translated routes, keyed by tool-name list).        *)
(*                                                                         *)
(* This module holds the operators on one store value; the mutex makes     *)
(* each of them one atomic step of the module that uses it.                *)
(***************************************************************************)
EXTENDS Integers, Sequences, FiniteSets, Functions

CONSTANTS
  Capacity,   \* newBoundedRewriteStore(capacity); 2048 in both stores
  NoKey,      \* the empty key ""
  NoRewrite   \* nil, and a rewrite with an empty forward map

ASSUME CapacityAssumption == Capacity \in Nat \ {0}

\* items: key -> rewrite.  order: the keys in the order of first insertion.
EmptyStore == [items |-> << >>, order |-> << >>]

-----------------------------------------------------------------------------
\* Slips in put that the properties of the store must notice.

\* The loop condition with >= for >.
OverflowAtCapacity(order) ==
  IF Len(order) >= Capacity THEN Len(order) - Capacity + 1 ELSE 0

\* Drop the newest entries instead of the oldest.
EvictNewest(store) ==
  LET keep == SubSeq(store.order, 1, IF Len(store.order) > Capacity
                                     THEN Capacity ELSE Len(store.order))
  IN  [items |-> Restrict(store.items, Range(keep)), order |-> keep]

\* No test for presence: a stored key is listed a second time.
InsertTwice(store, key, rw) ==
  [items |-> [k \in DOMAIN store.items \cup {key} |->
                IF k = key THEN rw ELSE store.items[k]],
   order |-> Append(store.order, key)]

\* A stored key keeps its old rewrite.
InsertOnce(store, key, rw) ==
  [items |-> [k \in DOMAIN store.items \cup {key} |->
                IF k \in DOMAIN store.items THEN store.items[k] ELSE rw],
   order |-> IF key \in DOMAIN store.items THEN store.order
             ELSE Append(store.order, key)]

-----------------------------------------------------------------------------
\* The loop at the end of put: drop the head until at most Capacity remain.
Overflow(order) == IF Len(order) > Capacity THEN Len(order) - Capacity ELSE 0

Evict(store) ==
  LET n    == Overflow(store.order)
      gone == {store.order[i] : i \in 1..n}
  IN  [items |-> Restrict(store.items, DOMAIN store.items \ gone),
       order |-> SubSeq(store.order, n + 1, Len(store.order))]

\* items[key] = rw, appending key to order only when it was absent: a key
\* that is put again keeps its place in the eviction order.
Insert(store, key, rw) ==
  [items |-> [k \in DOMAIN store.items \cup {key} |->
                IF k = key THEN rw ELSE store.items[k]],
   order |-> IF key \in DOMAIN store.items THEN store.order
             ELSE Append(store.order, key)]

Put(store, key, rw) ==
  IF key = NoKey \/ rw = NoRewrite THEN store ELSE Evict(Insert(store, key, rw))

\* A lookup changes nothing, the eviction order included.
Get(store, key) ==
  IF key = NoKey \/ key \notin DOMAIN store.items THEN NoRewrite
  ELSE store.items[key]
=============================================================================
