---------------------------- MODULE MCRequestBody ----------------------------
(* Bounds: three gateways; systems of up to three blocks of every kind     *)
(* that the prefix test tells apart; up to three tools around a threshold  *)
(* of two.  Systems are combined with every conversation, fields and tools *)
(* with each other; the stages touch disjoint parts of the body, so one    *)
(* set of fields and tools per system is enough.                           *)
EXTENDS RequestBody

CONSTANTS mcp_x, cc_mcp_x, read, server

Readable(head, i) == <<IF i = 1 THEN 0 ELSE 1, head, i>>
DynamicNames   == {Readable(n, i) : n \in {mcp_x, cc_mcp_x, read}, i \in 1..3}
MCNames        == {mcp_x, cc_mcp_x, read, server} \cup DynamicNames
MCDynamicAlias(names, i) ==
  Readable(IF names[i] \in DynamicNames THEN names[i][2] ELSE names[i], i)
MCStaticAlias  == [n \in {mcp_x} |-> cc_mcp_x]
MCThreshold    == 2
MCMaxHops      == 3

\* Second passes see the aliases of first ones.
ClientLists == UNION {[1..n -> {mcp_x, cc_mcp_x, read}] : n \in 0..3}
MCToolLists == ClientLists \cup [1..3 -> DynamicNames]

MCConfigs == [on : SUBSET Toggles, surface : Surfaces]

MCTexts   == {ToString(n) : n \in 1..3}
Client(n) == [kind |-> "client", of |-> ToString(n)]
Blank     == [kind |-> "blank", of |-> "both"]
Legacy    == [kind |-> "legacy", of |-> "both"]
Turn(n)   == [kind |-> "turn", of |-> ToString(n)]

Systems ==
  {<< >>, <<Blank>>, <<Client(1)>>, <<Blank, Client(1), Client(2)>>,
   <<Legacy, Client(1)>>, <<Client(1), Legacy>>,
   <<AgentIdentifier("cli")>>, <<AgentIdentifier("sdk-cli"), Client(1)>>,
   buildClaudeCodeSystemBlocks("cli")}

Turns(n) == [i \in 1..n |-> [role |-> IF i % 2 = 1 THEN "user" ELSE "assistant",
                             text |-> <<Turn(i)>>]]
Conversations == {<< >>, Turns(1), Turns(3)}

Tool(name, cache) == [name |-> name, mimicable |-> name # server, cache |-> cache]
ToolSets ==
  {<< >>, <<Tool(mcp_x, "absent")>>, <<Tool(read, "bare"), Tool(read, "ttl")>>,
   <<Tool(cc_mcp_x, "ttl"), Tool(mcp_x, "bare")>>,
   <<Tool(mcp_x, "absent"), Tool(server, "absent")>>,
   <<Tool(mcp_x, "absent"), Tool(read, "bare"), Tool(cc_mcp_x, "absent")>>}

Body(system, messages, temperature, max_tokens, thinking, context, tools) ==
  [system |-> system, messages |-> messages, temperature |-> temperature,
   max_tokens |-> max_tokens, thinking |-> thinking,
   context_management |-> context, tools |-> tools]

\* None, one line without or with the token, and the token in a second line.
MCBetas   == {"other", Token}
MCHeaders == {<< >>, <<{"other"}>>, <<{"other", Token}>>, <<{"other"}, {Token}>>}

Sent == {"absent", "client"}

MCBodies ==
  {Body(s, m, "absent", "client", "enabled", "absent", <<Tool(mcp_x, "absent")>>) :
     s \in Systems, m \in Conversations}
    \cup {Body(<<Client(1)>>, m, t, x, k, c, l) :
            m \in {Turns(1), Missing}, t \in Sent, x \in Sent,
            k \in {"absent", "disabled", "adaptive"}, c \in Sent, l \in ToolSets}
=============================================================================
