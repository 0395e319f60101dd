--------------------------- MODULE MCNameRoundTrip ---------------------------
(* Bounds: up to three client tools, and a server tool after them; a       *)
(* threshold of two, so that three client tools get dynamic aliases and    *)
(* fewer get static ones.  The client names are one the static rules       *)
(* cover, its alias, a plain one and one spelled like a dynamic alias; two *)
(* prefixes are enough for lists whose shuffles differ.                    *)
EXTENDS NameRoundTrip, SequencesExt

CONSTANTS mcp_x, cc_mcp_x, read, web_search, word

\* A dynamic alias is <<prefix, head of the name, index>>.
LikeAlias    == <<0, "rea", 2>>
ClientNames  == {mcp_x, cc_mcp_x, read, LikeAlias}
DynamicNames == (0..1) \X {"mcp", "cc_", "rea", "que"} \X (1..3)

MCNames       == ClientNames \cup DynamicNames \cup {web_search, word}
MCToolLists   == SeqOf(ClientNames, 3)
MCStaticAlias == [n \in {mcp_x} |-> cc_mcp_x]
MCThreshold   == 2

NameHead(n) == CASE n = mcp_x -> "mcp" [] n = cc_mcp_x -> "cc_"
                 [] n = read -> "rea" [] OTHER -> "que"
Weight(n)   == CASE n = mcp_x -> 1 [] n = cc_mcp_x -> 3
                 [] n = read -> 0 [] OTHER -> 2

\* The seed is a hash of the whole list, so the prefix is too.
Seed(names) == FoldLeft(LAMBDA acc, n : 2 * acc + Weight(n), 0, names)

MCDynamicAlias(names, i) == <<(Seed(names) + i) % 2, NameHead(names[i]), i>>

MCTypes   == {"", "function", "custom", "web_search_20250305"}
TypeOf(n) == IF n = mcp_x THEN "" ELSE IF n = read THEN "function" ELSE "custom"

ServerTool  == [type |-> "web_search_20250305", name |-> web_search]
UnnamedTool == [type |-> "custom", name |-> NoName]
ClientTool(n) == [type |-> TypeOf(n), name |-> n]
ToolsOf(names) == [i \in 1..Len(names) |-> ClientTool(names[i])]

ToolSeqs ==
  {ToolsOf(names) : names \in MCToolLists}
    \cup {Append(ToolsOf(names), ServerTool) : names \in MCToolLists}
    \cup {<<UnnamedTool>> \o ToolsOf(names) : names \in SeqOf(ClientNames, 2)}

MCRequests ==
  [tools : ToolSeqs, choice : {NoName, mcp_x, LikeAlias},
   uses : {<< >>, <<mcp_x>>, <<cc_mcp_x, read>>}]

MCWords == ClientNames \cup {word, <<1, "rea", 1>>}
=============================================================================
