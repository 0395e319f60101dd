------------------------------ MODULE ToolNames ------------------------------
(***************************************************************************)
(* internal/mimicry/toolrewrite.go: how the plugin chooses an alias for    *)
(* each client tool of a request, and the map that undoes it.              *)
(*                                                                         *)
(* A tool name is an opaque member of Names; a client's tools are the      *)
(* sequence of its mimicable names in declaration order.  The two alias    *)
(* rules are constants: StaticAlias, the prefix table, as the partial      *)
(* function it induces on names; DynamicAlias(names, i), the readable      *)
(* alias of the i-th name of a list (prefix from a shuffle seeded by the   *)
(* whole list, first three bytes of the name, index).                      *)
(***************************************************************************)
EXTENDS Integers, Sequences, FiniteSets, Functions, Picking

CONSTANTS
  Names,               \* non-empty tool names, aliases included
  ToolLists,           \* the lists of mimicable names that clients declare
  StaticAlias,         \* staticToolNameRewrites as a partial function
  DynamicAlias(_, _),  \* alias of names[i] in a list above the threshold
  Threshold            \* dynamicToolMapThreshold; 5 in the code

\* No alias starts with one of the three prefixes, so no alias is renamed
\* again; and "cc_sess_", "cc_ses_", "cc_mcp_" keep different names apart.
ASSUME StaticAssumption ==
  /\ DOMAIN StaticAlias \subseteq Names
  /\ StaticAlias \in [DOMAIN StaticAlias -> Names]
  /\ IsInjective(StaticAlias)
  /\ Range(StaticAlias) \cap DOMAIN StaticAlias = {}

ASSUME ListsAssumption     == ToolLists \subseteq Seq(Names)
ASSUME ThresholdAssumption == Threshold \in Nat

\* An alias ends with the index of its name, so within one list different
\* names get different aliases (with fewer than 601 tools: see README).
ASSUME DynamicAssumption ==
  \A names \in ToolLists : \A i \in 1..Len(names) :
    /\ DynamicAlias(names, i) \in Names
    /\ \A j \in 1..Len(names) :
         DynamicAlias(names, i) = DynamicAlias(names, j) => i = j

-----------------------------------------------------------------------------
\* The last position of a name: a later write to a Go map replaces an
\* earlier one, so a name declared twice has the alias of its last index.
LastIndex(names, n) ==
  CHOOSE i \in 1..Len(names) :
    names[i] = n /\ \A j \in 1..Len(names) : names[j] = n => j <= i

\* A slip: past the threshold a name the static rules cover is left out.
SanitizeDynamicOnly(n, names, dynamicAliases) ==
  IF dynamicAliases /\ Len(names) > Threshold
  THEN IF n \in DOMAIN StaticAlias THEN n ELSE DynamicAlias(names, LastIndex(names, n))
  ELSE IF n \in DOMAIN StaticAlias THEN StaticAlias[n] ELSE n

\* buildDynamicToolMap returns nil up to the threshold; above it every name
\* of the list is in the map, so the static prefixes are not consulted.
sanitizeToolName(n, names, dynamicAliases) ==
  IF dynamicAliases /\ Len(names) > Threshold
  THEN DynamicAlias(names, LastIndex(names, n))
  ELSE IF n \in DOMAIN StaticAlias THEN StaticAlias[n] ELSE n

\* A slip: aliases are not compared with the declared names.
RenamedRegardless(names, dynamicAliases) ==
  {n \in Range(names) : sanitizeToolName(n, names, dynamicAliases) # n}

\* A name keeps its spelling when no rule changes it, or when its alias is
\* itself declared: two tools would share a name upstream.
Renamed(names, dynamicAliases) ==
  {n \in Range(names) :
     LET fake == sanitizeToolName(n, names, dynamicAliases)
     IN  fake # n /\ fake \notin Range(names)}

ForwardMap(names, dynamicAliases) ==
  [n \in Renamed(names, dynamicAliases) |->
     sanitizeToolName(n, names, dynamicAliases)]

\* reverse[fake] = name for each renamed name in list order.
ReverseMap(names, forward) ==
  [fake \in Range(forward) |->
     LET hits == {i \in 1..Len(names) :
                    names[i] \in DOMAIN forward /\ forward[names[i]] = fake}
     IN  names[CHOOSE i \in hits : \A j \in hits : j <= i]]

\* nil and a rewrite that renames nothing are one value: every caller asks
\* rw.empty() and the store keeps no such rewrite.
EmptyRewrite == [forward |-> << >>, reverse |-> << >>]

buildToolNameRewrite(names, dynamicAliases) ==
  LET forward == ForwardMap(names, dynamicAliases)
  IN  IF DOMAIN forward = {} THEN EmptyRewrite
      ELSE [forward |-> forward, reverse |-> ReverseMap(names, forward)]

-----------------------------------------------------------------------------
\* The name a rewrite puts on the wire for a client's name ...
Alias(rw, n) ==
  IF n \in DOMAIN rw.forward THEN rw.forward[n] ELSE n

\* ... and the client's name for a name on the wire: what the loop over
\* reverseOrdered leaves of a whole identifier, in any order of the pairs
\* (NameRoundTrip runs the loop pair by pair and compares).
Unalias(rw, w) ==
  IF w \in DOMAIN rw.reverse THEN rw.reverse[w] ELSE w

\* The wire list of a client's list.
AliasedList(rw, names) == [i \in DOMAIN names |-> Alias(rw, names[i])]

-----------------------------------------------------------------------------
\* Two lists above the threshold have all their aliases in common only if
\* their names begin alike in every place and their shuffles agree on every
\* prefix used: six of 24 at least.  That this does not happen by chance is
\* what a key made of aliases relies on; the modules of the routes, which look
\* up a map by what is in a body, assume it.
AliasesIdentify ==
  LET aliases(list) == AliasedList(buildToolNameRewrite(list, TRUE), list)
  IN  \A a, b \in ToolLists :
        Len(a) > Threshold /\ aliases(a) = aliases(b) => a = b
=============================================================================
