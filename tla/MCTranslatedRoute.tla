-------------------------- MODULE MCTranslatedRoute --------------------------
(* Bounds: two clients against a capacity of one, so that every put of     *)
(* another key evicts, and as many turns as change anything (the history   *)
(* of a client is a subset of a few names).  The lists are two that rename *)
(* to the same aliases with different maps, one the static rules cover,    *)
(* one of the alias itself, and two above the threshold that declare a     *)
(* tool twice and whose aliases agree in the second place only.  A list    *)
(* has a name that starts with an alias prefix where the rules never put   *)
(* it.  A client may quote a static alias besides.                         *)
EXTENDS TranslatedRoute, TLC

CONSTANTS c1, c2, mcp_x, mcp_y, cc_mcp_x, cc_mcp_y, read, react,
          cc_mcp__x, mcp__x

TwoClients == {c1, c2}
Symmetry   == Permutations(TwoClients)

ClientNames   == {mcp_x, mcp_y, cc_mcp_x, cc_mcp_y, read, react, cc_mcp__x, mcp__x}
MCNames       == ClientNames \cup ((0..1) \X {"mcp", "rea"} \X (1..3))
MCStaticAlias == mcp_x :> cc_mcp_x @@ mcp_y :> cc_mcp_y
MCStaticPrefixed ==
  cc_mcp_x :> mcp_x @@ cc_mcp_y :> mcp_y @@ cc_mcp__x :> mcp__x

OneQuotable == {cc_mcp_x}

MCToolLists ==
  {<<mcp_x, cc_mcp_y>>, <<cc_mcp_x, mcp_y>>, <<mcp_x, cc_mcp__x>>, <<cc_mcp_x, cc_mcp__x>>,
   <<read, mcp_x, read>>, <<react, mcp_x, react>>}

NameHead(n) == IF n \in {mcp_x, mcp_y} THEN "mcp" ELSE "rea"
MCDynamicAlias(list, i) == <<IF list[1] = react THEN 0 ELSE i % 2, NameHead(list[i]), i>>

MCNoRewrite == EmptyRewrite
=============================================================================
