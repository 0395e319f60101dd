----------------------------- MODULE NativeRoute -----------------------------
(***************************************************************************)
(* The native route of internal/mimicry/interceptors.go: requests on       *)
(* /v1/messages in flight together, each renamed by interceptRequestBefore *)
(* on the way up and restored by interceptResponse or, chunk by chunk, by  *)
(* interceptStreamChunk on the way down.  What the two sides share is      *)
(* rewriteStore, found again through rewriteKey, and the active config,    *)
(* which plugin.reconfigure may replace between any two calls.             *)
(*                                                                         *)
(* The host runs each hook call on its own goroutine; config and store are *)
(* read once per call under their locks, so a call is one step here.  A    *)
(* forward call reads the config, then puts, and only calls that read TRUE *)
(* put: between its read and its put each can be moved to a moment when    *)
(* the config is TRUE, keeping the order of the puts.  A reverse call gets *)
(* and, without a map, reads the config, which decides nothing on a host   *)
(* that sends RequestID (README, "Atomicity", for hosts that do not).      *)
(* The host is of one kind or the other from the start.                    *)
(*                                                                         *)
(* A body without messages (count_tokens) returns earlier; it puts nothing *)
(* and its response names no tool, so no step here stands for it.  What is *)
(* done to its body is in NameRoundTrip and RequestBody.                   *)
(***************************************************************************)
EXTENDS RestoredNames, RewriteStore

CONSTANTS
  Requests,         \* lifecycle ids; the host never uses one twice
  Contexts,         \* the rest of a body and its identifying headers
  NoBody,           \* what a hook sees of a body the host does not send
  ChunkCarriesBody  \* FALSE from ABI schema v3 on

ASSUME HostAssumption ==
  /\ ChunkCarriesBody \in BOOLEAN
  /\ NoKey \notin Requests
  /\ \A list \in ToolLists : NoBody # AliasedList(buildToolNameRewrite(list, TRUE), list)
ASSUME NilAssumption    == NoRewrite = EmptyRewrite
ASSUME ChanceAssumption == AliasesIdentify

VARIABLES
  hostSendsId,  \* FALSE on a host from before RequestID; it never changes
  obfuscate,  \* activeCfg.ObfuscateToolNames
  store,      \* rewriteStore
  phase,      \* request -> "idle", "sent" (response pending) or "done"
  context,    \* request -> its context
  names,      \* request -> the client's tool names
  wire,       \* request -> the tool names in the body sent upstream
  delivered,  \* history: request -> {<<slot, name>>}, what it received
  newer       \* history: request -> keys that entered the store since (capped)

vars == <<hostSendsId, obfuscate, store, phase, context, names, wire,
          delivered, newer>>

-----------------------------------------------------------------------------
\* A slip: the signature leaves the body out.
rewriteKeyOfContext(r, body) == IF hostSendsId THEN r ELSE <<context[r]>>

\* rewriteKey: the lifecycle id, or the signature of a body and its headers.
rewriteKey(r, body) == IF hostSendsId THEN r ELSE <<body, context[r]>>

\* A slip: config is asked before the stored map.
RestoreIfEnabled(rw, w) ==
  IF ~obfuscate THEN w
  ELSE IF rw = NoRewrite /\ hostSendsId THEN w
  ELSE restoreToolNamesInBytes(rw, w)

\* A slip: a missing map falls back to the static prefixes on every host.
RestoreWithFallback(rw, w) ==
  IF rw = NoRewrite /\ ~obfuscate THEN w ELSE restoreToolNamesInBytes(rw, w)

\* The body of a reverse hook on a name, given the map it found.
restoreWith(rw, w) ==
  IF rw = NoRewrite /\ (hostSendsId \/ ~obfuscate) THEN w
  ELSE restoreToolNamesInBytes(rw, w)

\* The host passes the rewritten body to interceptResponse.
AfterResponse(r, i) == restoreWith(Get(store, rewriteKey(r, wire[r])), wire[r][i])

AfterChunk(r, i) ==
  LET body == IF ChunkCarriesBody THEN wire[r] ELSE NoBody
  IN  restoreWith(Get(store, rewriteKey(r, body)), wire[r][i])

OneMore(n) == IF n < Capacity THEN n + 1 ELSE n

-----------------------------------------------------------------------------
Init ==
  /\ hostSendsId \in BOOLEAN
  /\ obfuscate = TRUE
  /\ store = EmptyStore
  /\ phase = [r \in Requests |-> "idle"]
  /\ context \in [Requests -> Contexts]
  /\ names = [r \in Requests |-> << >>]
  /\ wire = [r \in Requests |-> << >>]
  /\ delivered = [r \in Requests |-> {}]
  /\ newer = [r \in Requests |-> 0]

\* plugin.reconfigure with a valid config.
Reconfigure ==
  /\ obfuscate' = ~obfuscate
  /\ UNCHANGED <<hostSendsId, store, phase, context, names, wire, delivered, newer>>

\* The request is not in the Anthropic format: the hook returns at once.
PassForeign(r, list) ==
  /\ phase[r] = "idle"
  /\ phase' = [phase EXCEPT ![r] = "sent"]
  /\ names' = [names EXCEPT ![r] = list]
  /\ wire'  = [wire EXCEPT ![r] = list]
  /\ UNCHANGED <<hostSendsId, obfuscate, store, context, delivered, newer>>

interceptRequestBefore(r, list) ==
  LET rw   == IF obfuscate THEN buildToolNameRewrite(list, TRUE) ELSE EmptyRewrite
      body == AliasedList(rw, list)
      key  == rewriteKey(r, body)
  IN  /\ phase[r] = "idle"
      /\ phase' = [phase EXCEPT ![r] = "sent"]
      /\ names' = [names EXCEPT ![r] = list]
      /\ wire'  = [wire EXCEPT ![r] = body]
      /\ store' = Put(store, key, rw)
      /\ newer' = IF rw = EmptyRewrite \/ key \in DOMAIN store.items THEN newer
                  ELSE [q \in Requests |-> IF q = r THEN 0 ELSE OneMore(newer[q])]
      /\ UNCHANGED <<hostSendsId, obfuscate, context, delivered>>

\* A whole response; all the names in it are restored through one lookup, so
\* one mentioned tool stands for each of them.
interceptResponse(r) ==
  /\ phase[r] = "sent"
  /\ \E i \in 1..Len(wire[r]) :
       delivered' = [delivered EXCEPT ![r] = @ \cup {<<i, AfterResponse(r, i)>>}]
  /\ phase' = [phase EXCEPT ![r] = "done"]
  /\ UNCHANGED <<hostSendsId, obfuscate, store, context, names, wire, newer>>

\* One chunk of a stream that mentions one tool; more chunks may follow.
interceptStreamChunk(r) ==
  /\ phase[r] = "sent"
  /\ \E i \in 1..Len(wire[r]) :
       delivered' = [delivered EXCEPT ![r] = @ \cup {<<i, AfterChunk(r, i)>>}]
  /\ UNCHANGED <<hostSendsId, obfuscate, store, phase, context, names, wire, newer>>

\* The stream ends, or the request fails before any response body: no hook
\* runs and the entry stays behind in the store.
Finish(r) ==
  /\ phase[r] = "sent"
  /\ phase' = [phase EXCEPT ![r] = "done"]
  /\ UNCHANGED <<hostSendsId, obfuscate, store, context, names, wire, delivered, newer>>

Next ==
  \/ Reconfigure
  \/ \E r \in Requests :
       \/ \E list \in ToolLists : PassForeign(r, list) \/ interceptRequestBefore(r, list)
       \/ interceptResponse(r) \/ interceptStreamChunk(r) \/ Finish(r)

Spec == Init /\ [][Next]_vars

-----------------------------------------------------------------------------
TypeOK ==
  /\ hostSendsId \in BOOLEAN /\ obfuscate \in BOOLEAN
  /\ phase \in [Requests -> {"idle", "sent", "done"}]
  /\ context \in [Requests -> Contexts]
  /\ names \in [Requests -> ToolLists \cup {<< >>}]
  /\ \A r \in Requests :
       /\ wire[r] \in Seq(Names) /\ Len(wire[r]) = Len(names[r])
       /\ delivered[r] \subseteq (1..Len(names[r])) \X Names
  /\ newer \in [Requests -> 0..Capacity]
  /\ \A k \in DOMAIN store.items : store.items[k].forward # << >>

(* A client is never told to call a tool it does not have in that place:   *)
(* each name it receives is its own name for the tool, or, when the map is *)
(* gone, the alias as it was sent upstream.  This holds whatever is        *)
(* reconfigured, evicted or in flight meanwhile.                           *)
NeverWrongTool ==
  hostSendsId => \A r \in Requests : \A d \in delivered[r] :
    d[2] \in {names[r][d[1]], wire[r][d[1]]}

(* An alias reaches the client only after Capacity other requests entered  *)
(* the store behind it (ADR-006, Negative 2): reconfiguration, unfinished  *)
(* requests and requests that rename nothing never cost a map.             *)
LeakMeansEvicted ==
  hostSendsId => \A r \in Requests : \A d \in delivered[r] :
    d[2] # names[r][d[1]] => newer[r] = Capacity

(* Reconfiguring is invisible to the requests in flight: what a response   *)
(* or chunk is restored to does not depend on it ("must be restored even   *)
(* if obfuscation was disabled mid-flight").                               *)
ReconfigureInvisible ==
  [][hostSendsId /\ obfuscate' # obfuscate =>
       \A r \in Requests : phase[r] = "sent" =>
         \A i \in 1..Len(wire[r]) :
           /\ AfterResponse(r, i)' = AfterResponse(r, i)
           /\ AfterChunk(r, i)' = AfterChunk(r, i)]_vars

(* On any host a client reads its own name for the tool, the alias as it   *)
(* was sent, or its own name with the static alias prefixes in it undone;  *)
(* anything else only for a tool whose whole name is an alias the rules    *)
(* make.  A host without RequestID has the fallback, which looks into      *)
(* names, and two of its requests may share a signature, but neither       *)
(* brings a client the name of another tool for one that is named freely.  *)
LooksLikeAlias(n) ==
  \/ n \in Range(StaticAlias)
  \/ \E list \in ToolLists : \E i \in 1..Len(list) : n = DynamicAlias(list, i)

OnlyLookalikesConfused ==
  \A r \in Requests : \A d \in delivered[r] :
    \/ d[2] \in {names[r][d[1]], wire[r][d[1]], StaticReplaced(names[r][d[1]])}
    \/ LooksLikeAlias(names[r][d[1]])

-----------------------------------------------------------------------------
\* What the client sees of a delivered name.
Kind(r, d) == IF d[2] = names[r][d[1]] THEN "own"
              ELSE IF d[2] = wire[r][d[1]] THEN "alias" ELSE "wrong"

\* What the clients of a host with a RequestID are promised to see.
Seen(r) == IF hostSendsId THEN {<<d[1], Kind(r, d)>> : d \in delivered[r]} ELSE {}

(* The native route with a RequestID promises what TransparentNames says,  *)
(* with store, config and rewriting hidden.                                *)
Promise == INSTANCE TransparentNames WITH
  Slots  <- UNION {1..Len(list) : list \in ToolLists},
  tools  <- [r \in Requests |-> 1..Len(names[r])],
  told   <- [r \in Requests |-> Seen(r)],
  behind <- newer

KeepsPromise == Promise!Spec
=============================================================================
