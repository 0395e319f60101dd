------------------------------- MODULE MCPlugin -------------------------------
(* Bounds: two requests, each with one of three client formats and an      *)
(* upstream that speaks Claude or not, and a lifecycle caller beside them. *)
(* Lists of two names are above the threshold.  An alias may be renamed    *)
(* again, so that a hook that does so is seen.                             *)
EXTENDS Plugin, TLC

CONSTANTS r1, r2, lifecycle, mcp_x, cc_mcp_x, read

TwoRequests == {r1, r2}
Symmetry    == Permutations(TwoRequests)
TwoFormats  == {"claude", "openai"}
MCClientFormats == {"claude", "anthropic", "openai"}

ClientNames   == {mcp_x, cc_mcp_x, read}
MCNames       == ClientNames \cup ((0..1) \X ClientNames \X (1..2)) \cup
                 ((0..1) \X ((0..1) \X ClientNames \X (1..2)) \X (1..2))
MCToolLists   == {<<mcp_x>>, <<cc_mcp_x>>, <<read, mcp_x>>}
MCStaticAlias == mcp_x :> cc_mcp_x
MCStaticPrefixed == cc_mcp_x :> mcp_x

MCDynamicAlias(list, i) == <<i % 2, list[i], i>>
MCNoRewrite == EmptyRewrite
=============================================================================
