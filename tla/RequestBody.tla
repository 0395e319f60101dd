----------------------------- MODULE RequestBody -----------------------------
(***************************************************************************)
(* What interceptRequestBefore does to a whole request body                *)
(* (internal/mimicry/mimicry.go): system prompt, fingerprint fields,       *)
(* context_management, tool names and cache breakpoint, stage by stage,    *)
(* and what the egress hook makes of the anthropic-beta header.  A request *)
(* may pass several gateways that run the plugin, each with its own        *)
(* config, so the output of one pass is the input of the next: mimicry.go  *)
(* speaks of requests "that already flowed through" an instance.           *)
(*                                                                         *)
(* A system is the sequence of its text blocks; a string is a sequence of  *)
(* one.  A field is "absent", the "client"'s or "filled" by the plugin.    *)
(* The messages are a sequence of turns or the key is missing; a key with  *)
(* something else, which no upstream takes, is no case here (the code puts *)
(* the client's instructions in its place).                                *)
(* tool_choice and past tool_use blocks are in NameRoundTrip, the map that *)
(* is stored for the response in NativeRoute.                              *)
(***************************************************************************)
EXTENDS ToolNames, SequencesExt

CONSTANTS
  Bodies,   \* client bodies
  Configs,  \* [on : set of Toggles, surface : Surfaces]
  Texts,    \* what a client's own blocks and turns say
  Betas,    \* the tokens of anthropic-beta headers
  Headers,  \* the lines of a client's anthropic-beta header, as sets of tokens
  Missing,  \* the messages of a body without that key (count_tokens)
  MaxHops   \* bound: gateways a request passes

ASSUME HopsAssumption == MaxHops \in Nat \ {0}

VARIABLES
  pc,        \* "arrived", "rewritten" (body hook done) or "sent"
  hop,       \* the gateway the request is at
  config,    \* activeCfg of that gateway
  original,  \* the client's body
  body,      \* the body now
  header,    \* the lines of its anthropic-beta header
  seen,      \* history: hop -> the header that arrived there
  asked      \* history: the toggles that were on where the body was rewritten

vars == <<pc, hop, config, original, body, header, seen, asked>>

Surfaces == {"cli", "sdk-cli"}
Toggles  == {"inject_system_prompt", "fill_fingerprint", "obfuscate_tool_names",
             "cache_breakpoints"}

\* anthropicBetaContextManagementToken.
Token == "context-management-2025-06-27"

\* http.Header.Get: the first line of a header that may have several.
headerValue(lines) == IF lines = << >> THEN {} ELSE lines[1]

betaTokensContain(tokens, token) == token \in tokens

contextMgmtEnabled(lines) == betaTokensContain(headerValue(lines), Token)

-----------------------------------------------------------------------------
Billing(surface)         == [kind |-> "billing", of |-> surface]
AgentIdentifier(surface) == [kind |-> "agent", of |-> surface]
SharedSystemIntro        == [kind |-> "intro", of |-> "both"]

buildClaudeCodeSystemBlocks(surface) ==
  <<Billing(surface), AgentIdentifier(surface), SharedSystemIntro>>

extractSystemText(system) ==
  Picked(system, {i \in DOMAIN system : system[i].kind # "blank"})

\* The identifier of the cli surface starts with the legacy prefix.
HasLegacyPrefix(t) == t.kind = "legacy" \/ t = AgentIdentifier("cli")

hasClaudeCodePrefix(text, surface) ==
  /\ text # << >>
  /\ HasLegacyPrefix(text[1]) \/ text[1] = AgentIdentifier(surface)

Acknowledgement == [kind |-> "ack", of |-> "plugin"]

\* A slip: the instructions are prepended without the acknowledgement.
PrependWithoutReply(messages, text) ==
  <<[role |-> "user", text |-> text]>> \o messages

prependSystemAsMessages(messages, text) ==
  <<[role |-> "user", text |-> text],
    [role |-> "assistant", text |-> <<Acknowledgement>>]>> \o messages

rewriteSystemForClaudeCode(b, surface) ==
  LET text == extractSystemText(b.system)
  IN  IF hasClaudeCodePrefix(text, surface) THEN b
      ELSE [b EXCEPT !.system   = buildClaudeCodeSystemBlocks(surface),
                     !.messages = IF text = << >> THEN @
                                  ELSE prependSystemAsMessages(@, text)]

Filled(field) == IF field = "absent" THEN "filled" ELSE field

fillRequestFingerprint(b, enabled) ==
  [b EXCEPT !.temperature = Filled(@), !.max_tokens = Filled(@),
            !.context_management =
              IF enabled /\ b.thinking \in {"enabled", "adaptive"}
              THEN Filled(@) ELSE @]

\* A slip: the field is removed only where the plugin fills it in.
StripFilledOnly(b, enabled) ==
  IF enabled \/ b.context_management # "filled" THEN b
  ELSE [b EXCEPT !.context_management = "absent"]

stripContextManagementIfUnsupported(b, enabled) ==
  IF enabled THEN b ELSE [b EXCEPT !.context_management = "absent"]

-----------------------------------------------------------------------------
Mimicable(tools) == {i \in DOMAIN tools : tools[i].mimicable}

MimicableNames(tools) ==
  LET kept == Picked(tools, Mimicable(tools))
  IN  [k \in DOMAIN kept |-> kept[k].name]

\* A slip: the tools that are not renamed are left out.
RenamedToolsOnly(tools, dynamicAliases) ==
  LET kept == Picked(tools, Mimicable(tools))
      rw   == buildToolNameRewrite(MimicableNames(tools), dynamicAliases)
  IN  [k \in DOMAIN kept |-> [kept[k] EXCEPT !.name = Alias(rw, @)]]

RenamedTools(tools, dynamicAliases) ==
  LET rw == buildToolNameRewrite(MimicableNames(tools), dynamicAliases)
  IN  [i \in DOMAIN tools |->
         IF tools[i].mimicable THEN [tools[i] EXCEPT !.name = Alias(rw, @)] ELSE tools[i]]

\* A slip: a full cache_control is written without a ttl.
WithTTLBareFirst(cache) ==
  CASE cache = "absent" -> "bare" [] cache = "bare" -> "extended" [] OTHER -> cache

\* cache_control of the last tool: the client's ttl stays, a bare one gets
\* a ttl, an absent one becomes a full one.
WithTTL(cache) ==
  CASE cache = "absent" -> "full" [] cache = "bare" -> "extended" [] OTHER -> cache

applyToolsLastCacheBreakpoint(tools) ==
  IF tools = << >> THEN tools ELSE [tools EXCEPT ![Len(tools)].cache = WithTTL(@)]

\* A slip: the breakpoint is left out when there is nothing to rename.
MimicToolsUnlessUnchanged(tools, on) ==
  LET named == IF "obfuscate_tool_names" \in on THEN RenamedTools(tools, TRUE) ELSE tools
  IN  IF "cache_breakpoints" \in on /\ named # tools
      THEN applyToolsLastCacheBreakpoint(named) ELSE named

\* Both branches of stage 3 end with the breakpoint.
mimicTools(tools, on) ==
  LET named == IF "obfuscate_tool_names" \in on THEN RenamedTools(tools, TRUE) ELSE tools
  IN  IF "cache_breakpoints" \in on THEN applyToolsLastCacheBreakpoint(named) ELSE named

applyRequestMimicry(b, cfg, enabled) ==
  LET injected == IF "inject_system_prompt" \in cfg.on
                  THEN rewriteSystemForClaudeCode(b, cfg.surface) ELSE b
      filled   == IF "fill_fingerprint" \in cfg.on
                  THEN fillRequestFingerprint(injected, enabled) ELSE injected
  IN  [filled EXCEPT !.tools = mimicTools(@, cfg.on)]

-----------------------------------------------------------------------------
Fields     == {"absent", "client", "filled"}
TextType   == [kind : {"billing", "agent", "intro", "legacy", "client", "blank", "turn", "ack"},
               of : Surfaces \cup {"both", "plugin"} \cup Texts]
TurnType   == [role : {"user", "assistant"}, text : Seq(TextType)]
ToolType   == [name : Names, mimicable : BOOLEAN,
               cache : {"absent", "bare", "ttl", "full", "extended"}]
BodyType   == [system : Seq(TextType), messages : Seq(TurnType) \cup {Missing},
               temperature : Fields, max_tokens : Fields, context_management : Fields,
               thinking : {"absent", "disabled", "enabled", "adaptive"},
               tools : Seq(ToolType)]
ConfigType == [on : SUBSET Toggles, surface : Surfaces]
HeaderType == Seq(SUBSET Betas)

\* Nothing in a client's body is the plugin's yet.
ASSUME BodiesAssumption ==
  /\ Missing \notin Seq(TurnType)
  /\ Bodies \subseteq BodyType
  /\ \A b \in Bodies :
       /\ "filled" \notin {b.temperature, b.max_tokens, b.context_management}
       /\ \A i \in DOMAIN b.tools : b.tools[i].cache \in {"absent", "bare", "ttl"}
       /\ MimicableNames(b.tools) \in ToolLists

ASSUME ConfigsAssumption == Configs \subseteq ConfigType
ASSUME HeadersAssumption == Headers \subseteq HeaderType /\ Token \in Betas

\* What one gateway makes of a list is a list the next one may be given.
ASSUME OnwardAssumption ==
  \A list \in ToolLists : \A dynamicAliases \in BOOLEAN :
    AliasedList(buildToolNameRewrite(list, dynamicAliases), list) \in ToolLists

-----------------------------------------------------------------------------
Init ==
  /\ pc = "arrived" /\ hop = 1
  /\ config \in Configs
  /\ original \in Bodies /\ body = original
  /\ header \in Headers
  /\ seen = << >>
  /\ asked = {}

\* interceptRequestBefore on a body with messages.
interceptRequestBefore ==
  /\ pc = "arrived" /\ body.messages # Missing
  /\ LET enabled == contextMgmtEnabled(header)
     IN  body' = stripContextManagementIfUnsupported(
                   applyRequestMimicry(body, config, enabled), enabled)
  /\ seen' = Append(seen, header)
  /\ asked' = asked \cup config.on
  /\ pc' = "rewritten"
  /\ UNCHANGED <<hop, config, original, header>>

\* The same hook without messages: static tool names and nothing else.
interceptCountTokens ==
  /\ pc = "arrived" /\ body.messages = Missing
  /\ body' = IF "obfuscate_tool_names" \in config.on
             THEN [body EXCEPT !.tools = RenamedTools(@, FALSE)] ELSE body
  /\ seen' = Append(seen, header)
  /\ asked' = asked \cup (config.on \cap {"obfuscate_tool_names"})
  /\ pc' = "rewritten"
  /\ UNCHANGED <<hop, config, original, header>>

\* The surface's own betas, both sets of which have the token, replace the
\* header by a single line.
interceptEgressHeaders ==
  /\ pc = "rewritten"
  /\ header' = <<{Token}>>
  /\ pc' = "sent"
  /\ UNCHANGED <<hop, config, original, body, seen, asked>>

\* The upstream of this gateway is another gateway with the plugin.
ReachNextGateway ==
  /\ pc = "sent" /\ hop < MaxHops
  /\ hop' = hop + 1
  /\ config' \in Configs
  /\ pc' = "arrived"
  /\ UNCHANGED <<original, body, header, seen, asked>>

Next ==
  \/ interceptRequestBefore \/ interceptCountTokens
  \/ interceptEgressHeaders \/ ReachNextGateway

Spec == Init /\ [][Next]_vars

-----------------------------------------------------------------------------
TypeOK ==
  /\ pc \in {"arrived", "rewritten", "sent"} /\ hop \in 1..MaxHops
  /\ config \in ConfigType
  /\ asked \subseteq Toggles
  /\ header \in Headers \cup {<<{Token}>>} /\ Len(seen) <= hop
  /\ body \in BodyType /\ Len(body.tools) = Len(original.tools)

\* The client's own blocks of a text.
Told(text) == Picked(text, {i \in DOMAIN text : text[i].kind \in {"client", "legacy", "turn"}})

Sections(b) ==
  <<b.system>> \o (IF b.messages = Missing THEN << >>
                   ELSE [i \in DOMAIN b.messages |-> b.messages[i].text])

\* What a body tells the model, in reading order, section by section.
Reading(b) ==
  LET told == [i \in DOMAIN Sections(b) |-> Told(Sections(b)[i])]
  IN  Picked(told, {i \in DOMAIN told : told[i] # << >>})

Alternates(messages) ==
  messages = Missing \/
  \A i \in DOMAIN messages : messages[i].role = IF i % 2 = 1 THEN "user" ELSE "assistant"

(* However many gateways a request passes, and whichever of them rewrite   *)
(* the system prompt, the model reads the client's instructions and turns  *)
(* once each and in their order (SPEC-001: "so the model still receives    *)
(* the caller's instructions"), and the pairs put in front of a            *)
(* conversation leave it one: user and assistant take turns wherever the   *)
(* client's did.                                                           *)
ConversationKept ==
  /\ Reading(body) = Reading(original)
  /\ Alternates(original.messages) => Alternates(body.messages)

CarriesToken(lines) == \E i \in DOMAIN lines : Token \in lines[i]

(* POL-001, 2: a body with messages goes upstream with context_management  *)
(* only if the request came with the token in its header, whoever put the  *)
(* field there.  The client's own field survives exactly if every gateway  *)
(* saw the token in the first line of the header, and the plugin's appears *)
(* only where it was asked to fill a request that thinks.                  *)
ContextGated ==
  (pc # "arrived" /\ body.messages # Missing) =>
    /\ body.context_management # "absent" => CarriesToken(Last(seen))
    /\ (body.context_management = "client") <=>
         (original.context_management = "client"
          /\ \A h \in DOMAIN seen : seen[h] # << >> /\ Token \in seen[h][1])
    /\ body.context_management = "filled" =>
         "fill_fingerprint" \in asked /\ original.thinking \in {"enabled", "adaptive"}

Caches(b) == [i \in DOMAIN b.tools |-> b.tools[i].cache]
Spelled(b) == [i \in DOMAIN b.tools |-> b.tools[i].name]

\* What no gateway was asked to change is the client's.
OffMeansUntouched ==
  /\ "inject_system_prompt" \notin asked =>
       body.system = original.system /\ body.messages = original.messages
  /\ "fill_fingerprint" \notin asked =>
       /\ body.temperature = original.temperature /\ body.max_tokens = original.max_tokens
       /\ body.context_management \in {"absent", original.context_management}
  /\ "cache_breakpoints" \notin asked => Caches(body) = Caches(original)
  /\ "obfuscate_tool_names" \notin asked => Spelled(body) = Spelled(original)

\* A breakpoint that was asked for is on the last tool and on no other, with
\* the client's ttl if it had one.
BreakpointOnLast ==
  "cache_breakpoints" \in asked =>
    \A i \in DOMAIN body.tools :
      /\ body.tools[i].cache # original.tools[i].cache =>
           i = Len(body.tools) /\ original.tools[i].cache # "ttl"
      /\ i = Len(body.tools) => body.tools[i].cache \in {"ttl", "full", "extended"}

\* Fields are filled once any gateway was asked to, but not over the client's.
ChosenValuesKept ==
  \A f \in {"temperature", "max_tokens"} :
    /\ original[f] = "client" => body[f] = "client"
    /\ "fill_fingerprint" \in asked => body[f] # "absent"

(* Each toggle alone decides over its stage (SPEC-001, acceptance          *)
(* criteria), on every path through the other stages and through several   *)
(* gateways: off, it leaves the client's values alone; on, it changes the  *)
(* last breakpoint and the missing fields and nothing that was chosen.     *)
TogglesRule == OffMeansUntouched /\ BreakpointOnLast /\ ChosenValuesKept

(* A gateway behind another one that is asked for nothing new, and leaves  *)
(* the system alone, changes nothing: no stage undoes or repeats an        *)
(* earlier one, at whichever gateway it was.  (Lists above the threshold   *)
(* get new aliases at each gateway, and a gate that opens on the way lets  *)
(* the field in.)                                                          *)
SecondPassIdle ==
  [][(/\ pc = "arrived" /\ hop > 1 /\ config.on \subseteq asked \ {"inject_system_prompt"}
      /\ \A h \in DOMAIN seen : contextMgmtEnabled(seen[h])
      /\ Len(MimicableNames(body.tools)) <= Threshold)
     => body' = body]_vars
=============================================================================
