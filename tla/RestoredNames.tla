---------------------------- MODULE RestoredNames ----------------------------
(***************************************************************************)
(* How a name in a response is restored, on either route: through the map  *)
(* of its request (Unalias of ToolNames) or, without one, by the static    *)
(* prefixes read backwards.  The two routes read them differently.  On the *)
(* native route restoreToolNamesInBytes (toolrewrite.go) replaces the      *)
(* three alias prefixes "cc_sess_", "cc_ses_", "cc_mcp_" anywhere in the   *)
(* bytes, also within a name: "my_cc_mcp_x" becomes "my_mcp_x".  On the    *)
(* translated ones unaliasToolName (normalizers.go) looks at the start of  *)
(* a name only.  Neither asks whether the forward rules would ever have    *)
(* made the alias: both turn "cc_mcp__x" into "mcp__x".                    *)
(*                                                                         *)
(* Names are opaque, so the two are constants: the partial functions they  *)
(* induce on the names that hold an alias prefix.                          *)
(***************************************************************************)
EXTENDS ToolNames

CONSTANTS
  StaticPrefixed,  \* names that start with an alias prefix, that one undone
  StaticWithin     \* names with one anywhere, every one undone

\* unaliasToolName
unaliasToolName(w) ==
  IF w \in DOMAIN StaticPrefixed THEN StaticPrefixed[w] ELSE w

\* What restoreToolNamesInBytes leaves of a name without a map.
StaticReplaced(w) ==
  IF w \in DOMAIN StaticWithin THEN StaticWithin[w] ELSE w

\* A static alias is the prefix put before what is left of its name, so the
\* one undoes it, and the other finds in it what it finds in the name.  No
\* prefix of the pool holds "cc_", and a digit follows the head of a name, so
\* no readable alias holds an alias prefix.
ASSUME FallbackAssumption ==
  /\ StaticPrefixed \in [DOMAIN StaticPrefixed -> Names]
  /\ StaticWithin \in [DOMAIN StaticWithin -> Names]
  /\ DOMAIN StaticPrefixed \subseteq DOMAIN StaticWithin
  /\ DOMAIN StaticWithin \subseteq Names
  /\ \A n \in DOMAIN StaticAlias :
       /\ StaticAlias[n] \in DOMAIN StaticPrefixed
       /\ unaliasToolName(StaticAlias[n]) = n
       /\ StaticReplaced(StaticAlias[n]) = StaticReplaced(n)
  /\ \A list \in ToolLists : \A i \in 1..Len(list) :
       DynamicAlias(list, i) \notin DOMAIN StaticWithin

-----------------------------------------------------------------------------
\* The native route, on one name in the bytes.
restoreToolNamesInBytes(rw, w) ==
  IF rw = EmptyRewrite THEN StaticReplaced(w) ELSE Unalias(rw, w)

\* A translated route: the stored map, or the static prefixes without it.
unaliasTranslatedName(rw, w) ==
  IF rw = EmptyRewrite THEN unaliasToolName(w) ELSE Unalias(rw, w)

\* A slip: names are restored without a look at the client's request.
RestoreUnguarded(rw, w, quoted) == unaliasTranslatedName(rw, w)

\* A slip: nothing is restored without a stored map.
RestoreWithMapOnly(rw, w, quoted) ==
  IF rw = EmptyRewrite \/ w \in quoted THEN w ELSE Unalias(rw, w)

\* A slip: the guard also refuses when the restored name is in the request.
RestoreUnlessKnown(rw, w, quoted) ==
  LET real == unaliasTranslatedName(rw, w)
  IN  IF w \in quoted \/ real \in quoted THEN w ELSE real

\* restoreToolUseNames on one tool_use name; a name the client itself sent
\* is taken for a tool of its own and kept.  The test for a static alias in
\* the line, made before, only saves work: without one nothing is restored.
restoreToolUseName(rw, w, quoted) ==
  IF w \in quoted THEN w ELSE unaliasTranslatedName(rw, w)
=============================================================================
