-------------------------------- MODULE Plugin --------------------------------
(***************************************************************************)
(* The plugin as a whole: the C ABI (main.go), the dispatch of its methods *)
(* (internal/mimicry/plugin.go) and the hooks behind it, in the order in   *)
(* which the host calls them for one request of either route.  Every       *)
(* answer is a block on the C heap that the host reads and hands back, so  *)
(* between a call and the moment its answer is read other calls go on.     *)
(*                                                                         *)
(* The host sends a RequestID.  interceptRequestAfter, which changes       *)
(* nothing, bodies without messages (count_tokens), whose responses name   *)
(* no tool, and the headers (SurfaceCoherence) are left out; NativeRoute   *)
(* and TranslatedRoute take eviction, restarts and what else a request may *)
(* quote to each route alone.                                              *)
(***************************************************************************)
EXTENDS RestoredNames, RewriteStore

CONSTANTS
  Requests,       \* lifecycle ids; the host never uses one twice
  Lifecycle,      \* the caller that is no request
  ClientFormats,  \* formats of clients; case and blanks make no difference
  Providers       \* formats of upstreams

ASSUME CallersAssumption ==
  /\ Lifecycle \notin Requests /\ NoKey \notin Requests \cup Seq(Names)
  /\ \A list \in ToolLists : list # << >>
ASSUME NilAssumption  == NoRewrite = EmptyRewrite
ASSUME RoomAssumption == IsFiniteSet(Requests) /\ Cardinality(Requests) <= Capacity

\* Lists that share their aliases share a map: see TranslatedRoute.
ASSUME UnsharedAssumption ==
  \A a, b \in ToolLists :
    LET aliased(l) == AliasedList(buildToolNameRewrite(l, TRUE), l)
    IN  aliased(a) = aliased(b) => a = b \/ a = aliased(a) \/ b = aliased(b)

\* No readable prefix starts with a prefix that the static rules rename.
ASSUME ReadableAssumption ==
  \A list \in ToolLists : \A i \in 1..Len(list) :
    DynamicAlias(list, i) \notin DOMAIN StaticAlias

VARIABLES
  plugin,      \* "absent", "loaded" (the table is filled) or "registered"
  obfuscate,   \* activeCfg.ObfuscateToolNames
  native,      \* rewriteStore
  translated,  \* translatedRewrites
  heap,        \* the live blocks: address -> answer
  slot,        \* caller -> the address in its cliproxy_buffer, 0 for NULL
  stage,       \* request -> the hook that is next
  client,      \* request -> the format its client speaks
  provider,    \* request -> the format of the upstream chosen for it
  names,       \* request -> the client's tool names
  body,        \* request -> the tool names in the body as it is
  line,        \* request -> <<position, name>> in the response line
  on           \* history: request -> obfuscation was on through its way up

vars == <<plugin, obfuscate, native, translated, heap, slot, stage, client,
          provider, names, body, line, on>>

exchange == <<stage, client, provider, names, body, line, on>>

Callers == Requests \cup {Lifecycle}
Null    == 0

-----------------------------------------------------------------------------
(* The ABI *)

\* A slip: answers are written to one static buffer.
StaticBlock(used) == 1

\* malloc; addresses are not told apart.
NewBlock(used) == CHOOSE a \in 1..Cardinality(Callers) : a \notin used

\* writeResponse: cliproxyPluginCall leaves a fresh block with the answer.
Answer(c, answer) ==
  LET a == NewBlock(DOMAIN heap)
  IN  /\ slot' = [slot EXCEPT ![c] = a]
      /\ heap' = [b \in DOMAIN heap \cup {a} |-> IF b = a THEN answer ELSE heap[b]]

\* cliproxyPluginFree
Freed(a) == Restrict(heap, DOMAIN heap \ {a})

Ok(change)   == [ok |-> TRUE, change |-> change]
Error        == [ok |-> FALSE, change |-> << >>]

\* The empty answer means: as it was.
Changed(new, old) == Ok(IF new = old THEN << >> ELSE new)

\* What the host makes of an answer; it reads the block and frees it.
Applied(answer, old) ==
  IF answer.ok /\ answer.change # << >> THEN answer.change ELSE old

Calls(c)    == plugin # "absent" /\ slot[c] = Null
Returned(c) == slot[c] # Null
Take(c) ==
  /\ Returned(c)
  /\ heap' = Freed(slot[c])
  /\ slot' = [slot EXCEPT ![c] = Null]

-----------------------------------------------------------------------------
(* Which hook is for whom *)

\* A slip: the format must be spelled out.
ClaudeOnly(format) == format = "claude"

isAnthropicClaudeRequest(format) == format \in {"claude", "anthropic", ""}

\* A slip: the client's format is not looked at.
ToClaude(from, to) == to = "claude"

isTranslatedToClaude(from, to) ==
  to = "claude" /\ from \notin {"claude", "anthropic", ""}

Rewrite(applies, list) ==
  IF applies /\ obfuscate THEN buildToolNameRewrite(list, TRUE) ELSE EmptyRewrite

-----------------------------------------------------------------------------
Init ==
  /\ plugin = "absent"
  /\ obfuscate = TRUE
  /\ native = EmptyStore
  /\ translated = EmptyStore
  /\ heap = << >>
  /\ slot = [c \in Callers |-> Null]
  /\ stage = [r \in Requests |-> "new"]
  /\ client = [r \in Requests |-> "none"]
  /\ provider = [r \in Requests |-> "none"]
  /\ names = [r \in Requests |-> << >>]
  /\ body = [r \in Requests |-> << >>]
  /\ line = [r \in Requests |-> << >>]
  /\ on = [r \in Requests |-> FALSE]

(* The lifecycle *)

cliproxy_plugin_init ==
  /\ plugin = "absent"
  /\ plugin' = "loaded"
  /\ UNCHANGED <<obfuscate, native, translated, heap, slot, exchange>>

\* plugin.register and plugin.reconfigure with a valid config.
Configure(value) ==
  /\ Calls(Lifecycle)
  /\ obfuscate' = value
  /\ Answer(Lifecycle, Ok(<<"registration">>))
  /\ on' = [r \in Requests |-> on[r] /\ (value \/ stage[r] \notin {"before", "normalize"})]
  /\ UNCHANGED <<plugin, native, translated, stage, client, provider, names, body, line>>

\* A config that is rejected, no method, or one the plugin does not know.
Refused ==
  /\ Calls(Lifecycle)
  /\ Answer(Lifecycle, Error)
  /\ UNCHANGED <<plugin, obfuscate, native, translated, exchange>>

LifecycleReturns ==
  /\ Take(Lifecycle)
  /\ plugin' = IF heap[slot[Lifecycle]].ok THEN "registered" ELSE plugin
  /\ UNCHANGED <<obfuscate, native, translated, exchange>>

(* The way up *)

Begin(r, from, to, list) ==
  /\ plugin = "registered" /\ stage[r] = "new"
  /\ stage' = [stage EXCEPT ![r] = "before"]
  /\ client' = [client EXCEPT ![r] = from]
  /\ provider' = [provider EXCEPT ![r] = to]
  /\ names' = [names EXCEPT ![r] = list]
  /\ body' = [body EXCEPT ![r] = list]
  /\ on' = [on EXCEPT ![r] = obfuscate]
  /\ UNCHANGED <<plugin, obfuscate, native, translated, heap, slot, line>>

interceptRequestBefore(r) ==
  LET rw == Rewrite(isAnthropicClaudeRequest(client[r]), body[r])
  IN  /\ Calls(r) /\ stage[r] = "before"
      /\ native' = Put(native, r, rw)
      /\ Answer(r, Changed(AliasedList(rw, body[r]), body[r]))
      /\ UNCHANGED <<plugin, obfuscate, translated, exchange>>

\* After the host translated the body, the names of its tools as they were.
normalizeRequest(r) ==
  LET rw  == Rewrite(isTranslatedToClaude(client[r], provider[r]), body[r])
      new == AliasedList(rw, body[r])
  IN  /\ Calls(r) /\ stage[r] = "normalize"
      /\ translated' = Put(translated, new, rw)
      /\ Answer(r, Changed(new, body[r]))
      /\ UNCHANGED <<plugin, obfuscate, native, exchange>>

RequestReturns(r) ==
  /\ stage[r] \in {"before", "normalize"}
  /\ Take(r)
  /\ body' = [body EXCEPT ![r] = Applied(heap[slot[r]], @)]
  /\ stage' = [stage EXCEPT ![r] = IF @ = "before" THEN "normalize" ELSE "sent"]
  /\ UNCHANGED <<plugin, obfuscate, native, translated, client, provider, names, line, on>>

(* The way down: a line of the response that mentions one tool *)

UpstreamLine(r) ==
  /\ stage[r] = "sent"
  /\ \E i \in 1..Len(body[r]) : line' = [line EXCEPT ![r] = <<i, body[r][i]>>]
  /\ stage' = [stage EXCEPT ![r] = "restore"]
  /\ UNCHANGED <<plugin, obfuscate, native, translated, heap, slot, client,
                 provider, names, body, on>>

normalizeResponseBefore(r) ==
  LET w    == line[r][2]
      name == IF isTranslatedToClaude(client[r], provider[r])
              THEN restoreToolUseName(Get(translated, body[r]), w, Range(names[r]))
              ELSE w
  IN  /\ Calls(r) /\ stage[r] = "restore"
      /\ Answer(r, Changed(<<name>>, <<w>>))
      /\ UNCHANGED <<plugin, obfuscate, native, translated, exchange>>

\* interceptResponse or, with the same lookup, interceptStreamChunk.
interceptResponse(r) ==
  LET w == line[r][2]
  IN  /\ Calls(r) /\ stage[r] = "deliver"
      /\ Answer(r, Changed(<<Unalias(Get(native, r), w)>>, <<w>>))
      /\ UNCHANGED <<plugin, obfuscate, native, translated, exchange>>

ResponseReturns(r) ==
  /\ stage[r] \in {"restore", "deliver"}
  /\ Take(r)
  /\ line' = [line EXCEPT ![r][2] = Applied(heap[slot[r]], <<@>>)[1]]
  /\ stage' = [stage EXCEPT ![r] = IF @ = "restore" THEN "deliver" ELSE "told"]
  /\ UNCHANGED <<plugin, obfuscate, native, translated, client, provider, names, body, on>>

\* The client has read the line; another one comes.
Continue(r) ==
  /\ stage[r] = "told"
  /\ stage' = [stage EXCEPT ![r] = "sent"]
  /\ line' = [line EXCEPT ![r] = << >>]
  /\ UNCHANGED <<plugin, obfuscate, native, translated, heap, slot, client,
                 provider, names, body, on>>

Next ==
  \/ cliproxy_plugin_init \/ Refused \/ LifecycleReturns
  \/ \E value \in BOOLEAN : Configure(value)
  \/ \E r \in Requests :
       \/ \E from \in ClientFormats, to \in Providers, list \in ToolLists :
            Begin(r, from, to, list)
       \/ interceptRequestBefore(r) \/ normalizeRequest(r) \/ RequestReturns(r)
       \/ UpstreamLine(r) \/ normalizeResponseBefore(r) \/ interceptResponse(r)
       \/ ResponseReturns(r) \/ Continue(r)

Spec == Init /\ [][Next]_vars

-----------------------------------------------------------------------------
TypeOK ==
  /\ plugin \in {"absent", "loaded", "registered"}
  /\ obfuscate \in BOOLEAN
  /\ slot \in [Callers -> 0..Cardinality(Callers)]
  /\ stage \in [Requests -> {"new", "before", "normalize", "sent", "restore",
                             "deliver", "told"}]
  /\ client \in [Requests -> ClientFormats \cup {"none"}]
  /\ provider \in [Requests -> Providers \cup {"none"}]
  /\ names \in [Requests -> ToolLists \cup {<< >>}]
  /\ \A r \in Requests : body[r] \in Seq(Names) /\ Len(body[r]) = Len(names[r])
  /\ on \in [Requests -> BOOLEAN]

(* The heap holds exactly the answers that are being read, each for one    *)
(* caller: whatever calls run at the same time, succeed or are refused,    *)
(* none loses its answer to another and none is left behind.               *)
AnswersOwned ==
  /\ DOMAIN heap = {slot[c] : c \in Callers} \ {Null}
  /\ \A c, d \in Callers : slot[c] = slot[d] /\ slot[c] # Null => c = d

(* Both renaming hooks are called for every request; its names are renamed *)
(* by one of them at most, by the rule for the client's own list, and not  *)
(* at all if neither side speaks Claude.                                   *)
RenamedOnce ==
  \A r \in Requests :
    /\ body[r] \in {names[r], AliasedList(buildToolNameRewrite(names[r], TRUE), names[r])}
    /\ client[r] \notin {"claude", "anthropic", ""} /\ provider[r] # "claude"
         => body[r] = names[r]

\* The answer that waits for c, or one that changes nothing.
Held(c) == IF slot[c] = Null THEN Ok(<< >>) ELSE heap[slot[c]]

\* The names of the body as the host will have them.
Upstream(r) ==
  IF stage[r] \in {"before", "normalize"} THEN Applied(Held(r), body[r]) ELSE body[r]

(* What goes upstream has its way back at hand: from the moment a hook has *)
(* answered, its answer still unread on the heap, until the last line, the *)
(* stores hold what gives each name of the body back to its tool, whatever *)
(* other requests put, with no place of a store to spare, and whatever is  *)
(* reconfigured in between.                                                *)
WayBackKept ==
  \A r \in Requests : stage[r] # "new" =>
    \A i \in 1..Len(names[r]) :
      LET w == Upstream(r)[i]
      IN  names[r][i] =
            IF isTranslatedToClaude(client[r], provider[r])
            THEN restoreToolUseName(Get(translated, Upstream(r)), w, Range(names[r]))
            ELSE Unalias(Get(native, r), w)

(* Between them the hooks leave no request out: with obfuscation on, no    *)
(* name the static rules cover reaches a Claude upstream, in whatever      *)
(* format the client speaks, unless its alias is declared as well.         *)
CoveredNeverSent ==
  \A r \in Requests :
    on[r] /\ provider[r] = "claude" /\ stage[r] \notin {"new", "before", "normalize"} =>
      \A n \in Range(body[r]) \cap DOMAIN StaticAlias :
        sanitizeToolName(n, names[r], TRUE) \in Range(names[r])

(* Both restoring hooks are called for every line; after them each client  *)
(* reads its own name for the tool the upstream meant, on either route,    *)
(* with requests of both in flight, whatever is reconfigured meanwhile.    *)
NamesComeBack ==
  \A r \in Requests :
    stage[r] = "told" => line[r][2] = names[r][line[r][1]]
=============================================================================
