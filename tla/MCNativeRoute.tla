---------------------------- MODULE MCNativeRoute ----------------------------
(* Bounds: hosts with and without RequestID; three requests against a      *)
(* capacity of two, so that an entry is evicted while its response is      *)
(* pending and while a stream is half delivered.  Lists of two names are   *)
(* above the threshold.  The lists hold a covered name, the alias of a     *)
(* covered name as a client's own tool, and two lists that share the alias *)
(* of their first tool, whose names begin alike, but not of the second.    *)
(* A name holds an alias prefix in its middle, and one starts with an      *)
(* alias prefix where the rules never put it: the fallback changes both,   *)
(* and more of the alias of a covered name than the rule put there.        *)
(* All requests share one context, the worst case for a host without       *)
(* RequestID.  No operator tells requests apart: they are symmetric.       *)
EXTENDS NativeRoute, TLC

CONSTANTS r1, r2, r3, mcp_x, cc_mcp_x, read, react, here,
          my_cc_mcp_x, my_mcp_x, cc_mcp__x, mcp__x,
          mcp_cc_mcp_x, cc_mcp_cc_mcp_x, mcp_mcp_x

ThreeRequests == {r1, r2, r3}
Symmetry      == Permutations(ThreeRequests)
OneContext    == {here}

ClientNames  == {mcp_x, cc_mcp_x, read, react, my_cc_mcp_x, my_mcp_x,
                 cc_mcp__x, mcp__x, mcp_cc_mcp_x, cc_mcp_cc_mcp_x, mcp_mcp_x}
MCNames      == ClientNames \cup ((0..1) \X {"mcp", "cc_", "rea"} \X (1..2))
MCToolLists  == {<<mcp_x>>, <<cc_mcp_x>>, <<read, mcp_x>>, <<react, mcp_x>>,
                 <<my_cc_mcp_x>>, <<cc_mcp__x>>, <<mcp_cc_mcp_x>>}

MCStaticAlias    == mcp_x :> cc_mcp_x @@ mcp_cc_mcp_x :> cc_mcp_cc_mcp_x
MCStaticPrefixed == cc_mcp_x :> mcp_x @@ cc_mcp__x :> mcp__x @@
                    cc_mcp_cc_mcp_x :> mcp_cc_mcp_x
MCStaticWithin   == cc_mcp_x :> mcp_x @@ cc_mcp__x :> mcp__x @@
                    cc_mcp_cc_mcp_x :> mcp_mcp_x @@
                    mcp_cc_mcp_x :> mcp_mcp_x @@ my_cc_mcp_x :> my_mcp_x

NameHead(n) == CASE n = mcp_x -> "mcp" [] n = cc_mcp_x -> "cc_" [] OTHER -> "rea"

\* The shuffles of the two dynamic lists agree on the first prefix only.
MCDynamicAlias(list, i) == <<IF list[1] = react THEN 1 ELSE i % 2, NameHead(list[i]), i>>

MCNoRewrite == EmptyRewrite
=============================================================================
