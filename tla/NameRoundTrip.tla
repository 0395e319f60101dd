---------------------------- MODULE NameRoundTrip ----------------------------
(***************************************************************************)
(* One request and its response on the native route, as the functions of   *)
(* internal/mimicry/toolrewrite.go treat them: the request body is scanned *)
(* and rewritten field by field, the upstream answers with identifiers     *)
(* taken from what it saw, and restoreToolNamesInBytes replaces the        *)
(* aliases one (fake, real) pair after another over the whole response.    *)
(*                                                                         *)
(* The pairs are taken in any order.  The code sorts them by alias length  *)
(* and leaves pairs of equal length in Go's random map order; the          *)
(* properties show that whole-identifier matching needs no order at all.   *)
(***************************************************************************)
EXTENDS ToolNames

CONSTANTS
  Types,     \* values of a tool's "type" field
  Requests,  \* client bodies: [tools, choice, uses]
  Words,     \* identifiers of a response that are not taken from the request
  NoName     \* the empty name, and a body without a tool_choice of a tool

\* The types of client tools by POL-001; any other type is a server tool.
ClientTypes == {"", "function", "custom"}

shouldMimicToolName(type) == type \in {"", "function", "custom"}

\* The names buildToolNameRewrite scans.
MimicableNames(tools) ==
  LET kept == Picked(tools, {i \in DOMAIN tools :
                               shouldMimicToolName(tools[i].type) /\ tools[i].name # NoName})
  IN  [k \in DOMAIN kept |-> kept[k].name]

ToolType == [type : Types, name : Names \cup {NoName}]
BodyType == [tools : Seq(ToolType), choice : Names \cup {NoName}, uses : Seq(Names)]

ASSUME NoNameAssumption == NoName \notin Names /\ Words \subseteq Names \cup {NoName}

ASSUME RequestsAssumption ==
  /\ Requests \subseteq BodyType
  /\ \A r \in Requests : MimicableNames(r.tools) \in ToolLists

\* The name of a server tool is fixed by its type ("web_search", "bash"):
\* none starts with "cc_" or with a prefix of fakeToolNamePrefixes.
ASSUME ServerAssumption ==
  \A r \in Requests : \A i \in DOMAIN r.tools :
    r.tools[i].type \notin ClientTypes =>
      LET list == MimicableNames(r.tools)
      IN  /\ r.tools[i].name \notin Range(StaticAlias)
          /\ \A k \in 1..Len(list) : r.tools[i].name # DynamicAlias(list, k)

-----------------------------------------------------------------------------
VARIABLES
  pc,       \* "request", "wire", "restore", "done"; "counted" for count_tokens
  request,  \* the client's body
  wire,     \* the body sent upstream
  rw,       \* the request's rewrite
  said,     \* the response as the upstream sent it, one identifier
  text,     \* the response while it is restored
  pending   \* aliases whose pair has not been applied yet

vars == <<pc, request, wire, rw, said, text, pending>>

-----------------------------------------------------------------------------
AliasedTool(rewrite, t) ==
  IF shouldMimicToolName(t.type) /\ t.name # NoName
  THEN [t EXCEPT !.name = Alias(rewrite, t.name)] ELSE t

\* A slip: past tool_use blocks keep the client's names.
ApplyToToolsOnly(body, rewrite) ==
  [body EXCEPT !.tools = [i \in DOMAIN body.tools |-> AliasedTool(rewrite, body.tools[i])],
               !.choice = Alias(rewrite, body.choice)]

\* A slip: a past tool_use without an alias gets the map's zero value.
ApplyWithoutOk(body, rewrite) ==
  [tools  |-> [i \in DOMAIN body.tools |-> AliasedTool(rewrite, body.tools[i])],
   choice |-> Alias(rewrite, body.choice),
   uses   |-> [i \in DOMAIN body.uses |->
                 IF body.uses[i] \in DOMAIN rewrite.forward
                 THEN rewrite.forward[body.uses[i]] ELSE NoName]]

\* tools[*].name, tool_choice.name and messages[*].content[*].name.
applyToolNameRewriteToBody(body, rewrite) ==
  [tools  |-> [i \in DOMAIN body.tools |-> AliasedTool(rewrite, body.tools[i])],
   choice |-> Alias(rewrite, body.choice),
   uses   |-> [i \in DOMAIN body.uses |-> Alias(rewrite, body.uses[i])]]

\* On one identifier: it is replaced when it is the alias as a whole.
replaceWholeNames(word, from, to) == IF word = from THEN to ELSE word

-----------------------------------------------------------------------------
Init ==
  /\ pc = "request"
  /\ request \in Requests
  /\ wire = request
  /\ rw = EmptyRewrite
  /\ said = NoName
  /\ text = NoName
  /\ pending = {}

\* applyRequestMimicry, step 3.
Forwarded ==
  /\ pc = "request"
  /\ rw' = buildToolNameRewrite(MimicableNames(request.tools), TRUE)
  /\ wire' = applyToolNameRewriteToBody(request, rw')
  /\ pc' = "wire"
  /\ UNCHANGED <<request, said, text, pending>>

\* The request has no messages (count_tokens): static rules only, and no map
\* is kept, because nothing in the answer carries a name.
Counted ==
  /\ pc = "request"
  /\ request.uses = << >>
  /\ LET static == buildToolNameRewrite(MimicableNames(request.tools), FALSE)
     IN  wire' = applyToolNameRewriteToBody(request, static)
  /\ pc' = "counted"
  /\ UNCHANGED <<request, rw, said, text, pending>>

\* The upstream names a tool it was given, or writes any other word.
Answered ==
  /\ pc = "wire"
  /\ \E w \in {wire.tools[i].name : i \in DOMAIN wire.tools} \cup Words :
       said' = w /\ text' = w
  /\ pending' = DOMAIN rw.reverse
  /\ pc' = "restore"
  /\ UNCHANGED <<request, wire, rw>>

\* One iteration of the loop of restoreToolNamesInBytes.
ReplacePair ==
  /\ pc = "restore"
  /\ \E fake \in pending :
       /\ text' = replaceWholeNames(text, fake, rw.reverse[fake])
       /\ pending' = pending \ {fake}
  /\ UNCHANGED <<pc, request, wire, rw, said>>

Restored ==
  /\ pc = "restore"
  /\ pending = {}
  /\ pc' = "done"
  /\ UNCHANGED <<request, wire, rw, said, text, pending>>

Next == Forwarded \/ Counted \/ Answered \/ ReplacePair \/ Restored

Spec == Init /\ [][Next]_vars

-----------------------------------------------------------------------------
TypeOK ==
  /\ pc \in {"request", "wire", "restore", "done", "counted"}
  /\ request \in BodyType /\ wire \in BodyType
  /\ DOMAIN rw.forward \subseteq Names /\ Range(rw.forward) \subseteq Names
  /\ DOMAIN rw.reverse \subseteq Names /\ Range(rw.reverse) \subseteq Names
  /\ said \in Names \cup {NoName} /\ text \in Names \cup {NoName}
  /\ pending \subseteq DOMAIN rw.reverse

ClientTools   == {i \in DOMAIN request.tools : request.tools[i].type \in ClientTypes}
DeclaredNames == {request.tools[i].name : i \in ClientTools} \ {NoName}

(* A tool the upstream calls reaches the client under the name the client  *)
(* declared at that position, whatever else it declared: also a tool       *)
(* spelled like an alias, declared twice, or left without an alias.        *)
ToolUseRestored ==
  pc = "done" =>
    \A i \in DOMAIN wire.tools :
      said = wire.tools[i].name => text = request.tools[i].name

(* The order of the pairs does not matter: no replacement produces the     *)
(* alias of a pair still to come, so the loop leaves what one lookup in    *)
(* the map gives, and a word that is no alias is left as the model wrote   *)
(* it.  (toolrewrite.go claims this only of the length order.)             *)
OrderIrrelevant ==
  pc = "done" => text = Unalias(rw, said)

\* No two tools come to share a name.
WireNamesDistinct ==
  \A i, j \in DOMAIN request.tools :
    request.tools[i].name # request.tools[j].name
      => wire.tools[i].name # wire.tools[j].name

\* A tool_choice or a past tool_use that named a declared tool names the
\* tool at the same position.
ReferencesDeclared ==
  \A i \in ClientTools :
    /\ request.choice = request.tools[i].name => wire.choice = wire.tools[i].name
    /\ \A p \in DOMAIN request.uses :
         request.uses[p] = request.tools[i].name => wire.uses[p] = wire.tools[i].name

\* Server tools are protocol, not names of the client (POL-001).
ServerToolsKept ==
  \A i \in DOMAIN request.tools \ ClientTools : wire.tools[i] = request.tools[i]

(* The body that goes upstream still fits together: tools that had         *)
(* different names have different names, each reference to a declared tool *)
(* is still one to that tool (the upstream rejects one to an undeclared    *)
(* tool), and server tools are as they came, among whichever renamed ones. *)
WireBodyFits == WireNamesDistinct /\ ReferencesDeclared /\ ServerToolsKept

(* A client tool the static rules cover (a name the upstream rejects) goes *)
(* upstream under its own name only when the alias meant for it is itself  *)
(* declared, on /v1/messages and on count_tokens alike.                    *)
CoveredNamesRenamed ==
  LET names   == MimicableNames(request.tools)
      alias(n) == IF pc # "counted" /\ Len(names) > Threshold
                  THEN DynamicAlias(names, LastIndex(names, n)) ELSE StaticAlias[n]
  IN  pc # "request" =>
        \A i \in ClientTools :
          (/\ request.tools[i].name \in DOMAIN StaticAlias
           /\ wire.tools[i].name = request.tools[i].name)
          => alias(request.tools[i].name) \in DeclaredNames
=============================================================================
