--------------------------- MODULE TranslatedRoute ---------------------------
(***************************************************************************)
(* Requests that the host translates into the Claude format                *)
(* (internal/mimicry/normalizers.go).  normalizeRequest renames the tools  *)
(* of the translated body and stores the map under the list of aliases     *)
(* itself, because the hook is given no request id; normalizeResponseBefore*)
(* finds the map again through the translated request the host hands back  *)
(* with every line of the response.                                        *)
(*                                                                         *)
(* A client is a conversation: it sends the same tools in every turn and   *)
(* repeats the calls of earlier turns, under the names it was given, in    *)
(* its next request.  That is how a name in one response reaches the test  *)
(* "the client itself sent this name" of a later one.                      *)
(***************************************************************************)
EXTENDS RestoredNames, RewriteStore

CONSTANTS
  Clients,
  Quotable  \* names that the requests of clients may quote elsewhere

ASSUME NoKeyAssumption  == NoKey \notin ToolLists
ASSUME QuoteAssumption  == Quotable \subseteq Names
ASSUME NilAssumption    == NoRewrite = EmptyRewrite
ASSUME ChanceAssumption == AliasesIdentify

VARIABLES
  obfuscate,  \* activeCfg.ObfuscateToolNames
  store,      \* translatedRewrites
  tools,      \* client -> the names of its tools, the same in every turn
  quotes,     \* client -> the names all its requests quote elsewhere
  history,    \* client -> the tool names its past turns call
  phase,      \* client -> "idle" or "sent" (a response is pending)
  original,   \* client -> the names quoted in the pending OriginalRequest
  wire,       \* client -> the tool names of the pending TranslatedRequest
  delivered,  \* history: client -> {<<slot, name>>} of the latest line
  missed,     \* history: client -> its map was not there during the response
  everMissed  \* history: client -> that happened in some turn

vars == <<obfuscate, store, tools, quotes, history, phase, original, wire,
          delivered, missed, everMissed>>

-----------------------------------------------------------------------------
\* The SHA-256 of the mimicable names stands for the list of them.
translatedToolsKey(list) == IF list = << >> THEN NoKey ELSE list

OwnRewrite(c) == buildToolNameRewrite(tools[c], TRUE)

AliasedBack(rw, list) == [i \in DOMAIN list |-> Unalias(rw, list[i])]

\* The pending request of c was renamed and the store does not hold its map.
NoMap(c) ==
  /\ phase[c] = "sent" /\ wire[c] # tools[c]
  /\ AliasedBack(Get(store, translatedToolsKey(wire[c])), wire[c]) # tools[c]

-----------------------------------------------------------------------------
Init ==
  /\ obfuscate = TRUE
  /\ store = EmptyStore
  /\ tools \in [Clients -> ToolLists]
  /\ quotes \in [Clients -> SUBSET Quotable]
  /\ history = [c \in Clients |-> {}]
  /\ phase = [c \in Clients |-> "idle"]
  /\ original = [c \in Clients |-> {}]
  /\ wire = [c \in Clients |-> << >>]
  /\ delivered = [c \in Clients |-> {}]
  /\ missed = [c \in Clients |-> FALSE]
  /\ everMissed = [c \in Clients |-> FALSE]

\* Bookkeeping after a step that may take maps from the store.
NoteMissing ==
  /\ missed' = [c \in Clients |-> missed[c] \/ NoMap(c)']
  /\ everMissed' = [c \in Clients |-> everMissed[c] \/ NoMap(c)']

Reconfigure ==
  /\ obfuscate' = ~obfuscate
  /\ UNCHANGED <<store, tools, quotes, history, phase, original, wire,
                 delivered, missed, everMissed>>

\* The plugin restarts: the store is empty, the host's requests go on.
Restart ==
  /\ store' = EmptyStore
  /\ UNCHANGED <<obfuscate, tools, quotes, history, phase, original, wire, delivered>>
  /\ NoteMissing

normalizeRequest(c) ==
  LET rw   == IF obfuscate THEN OwnRewrite(c) ELSE EmptyRewrite
      body == AliasedList(rw, tools[c])
  IN  /\ phase[c] = "idle"
      /\ phase' = [phase EXCEPT ![c] = "sent"]
      /\ original' = [original EXCEPT ![c] = Range(tools[c]) \cup history[c] \cup quotes[c]]
      /\ wire' = [wire EXCEPT ![c] = body]
      /\ store' = IF rw = EmptyRewrite THEN store
                  ELSE Put(store, translatedToolsKey(body), rw)
      /\ UNCHANGED <<obfuscate, tools, quotes, history, delivered>>
      /\ NoteMissing

\* One line of the response with a tool_use block; more may follow.
normalizeResponseBefore(c) ==
  /\ phase[c] = "sent"
  /\ \E i \in 1..Len(wire[c]) :
       LET rw   == Get(store, translatedToolsKey(wire[c]))
           name == restoreToolUseName(rw, wire[c][i], original[c])
       IN  /\ delivered' = [delivered EXCEPT ![c] = {<<i, name>>}]
           /\ history' = [history EXCEPT ![c] = @ \cup {name}]
  /\ UNCHANGED <<obfuscate, store, tools, quotes, phase, original, wire,
                 missed, everMissed>>

\* The response ends, the host forgets the exchange, and the client may take
\* its next turn.
EndTurn(c) ==
  /\ phase[c] = "sent"
  /\ phase' = [phase EXCEPT ![c] = "idle"]
  /\ original' = [original EXCEPT ![c] = {}]
  /\ wire' = [wire EXCEPT ![c] = << >>]
  /\ delivered' = [delivered EXCEPT ![c] = {}]
  /\ missed' = [missed EXCEPT ![c] = FALSE]
  /\ UNCHANGED <<obfuscate, store, tools, quotes, history, everMissed>>

Next ==
  \/ Reconfigure \/ Restart
  \/ \E c \in Clients :
       normalizeRequest(c) \/ normalizeResponseBefore(c) \/ EndTurn(c)

Spec == Init /\ [][Next]_vars

-----------------------------------------------------------------------------
TypeOK ==
  /\ obfuscate \in BOOLEAN
  /\ IsInjective(store.order) /\ Range(store.order) = DOMAIN store.items
  /\ Len(store.order) <= Capacity
  /\ tools \in [Clients -> ToolLists]
  /\ phase \in [Clients -> {"idle", "sent"}]
  /\ quotes \in [Clients -> SUBSET Quotable]
  /\ \A c \in Clients :
       /\ history[c] \subseteq Names /\ original[c] \subseteq Names
       /\ wire[c] \in Seq(Names)
       /\ delivered[c] \subseteq (1..Len(tools[c])) \X Names
  /\ missed \in [Clients -> BOOLEAN] /\ everMissed \in [Clients -> BOOLEAN]

(* A client is never told to call a tool other than the one the upstream   *)
(* meant: each name is its own name for that tool or the alias as sent.    *)
(* Different clients may share a key, overwrite each other's map, lose it  *)
(* to eviction or restart, and own tools spelled like aliases.             *)
NeverWrongTool ==
  \A c \in Clients : \A d \in delivered[c] :
    d[2] \in {tools[c][d[1]], wire[c][d[1]]}

(* A client sees an alias only if it quotes that alias itself, or if the   *)
(* store once did not hold its map while one of its responses was pending: *)
(* dropped, lost in a restart or overwritten by a client with the same     *)
(* aliases.  Reconfiguration, other clients' requests and its own past     *)
(* turns are no reason by themselves.                                      *)
NoLeakWithoutLoss ==
  \A c \in Clients : \A d \in delivered[c] :
    d[2] # tools[c][d[1]] => everMissed[c] \/ wire[c][d[1]] \in quotes[c]

(* Static aliases need no map: unless another list renames to the same     *)
(* aliases, a client at or below the threshold gets its own names back     *)
(* after any eviction and restart, in every turn; but for an alias that it *)
(* quotes itself.                                                          *)
UnsharedLists ==
  LET aliases(l) == AliasedList(buildToolNameRewrite(l, TRUE), l)
  IN  {list \in ToolLists : \A other \in ToolLists \ {list} :
         aliases(other) = aliases(list) => aliases(other) = other}

StaticNeverLeaks ==
  \A c \in Clients : \A d \in delivered[c] :
    Len(tools[c]) <= Threshold /\ tools[c] \in UnsharedLists =>
      d[2] = tools[c][d[1]] \/ wire[c][d[1]] \in quotes[c]

(* ADR-006 and the comment on translatedRewrites: two requests that share  *)
(* a key share the map, so a put of a stored key changes nothing.          *)
SharedKeySharesMap ==
  [][\A k \in DOMAIN store.items \cap DOMAIN store'.items :
       store'.items[k] = store.items[k]]_vars

(* ADR-006, amendment: when the entry is missing the client sees the       *)
(* dynamic aliases "for that response"; a response whose map was there     *)
(* throughout brings the client its own names.                             *)
LeakEndsWithResponse ==
  \A c \in Clients :
    ~missed[c] => \A d \in delivered[c] : d[2] = tools[c][d[1]]
=============================================================================
