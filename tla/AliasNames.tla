------------------------------ MODULE AliasNames ------------------------------
(***************************************************************************)
(* The readable aliases of buildDynamicToolMap                             *)
(* (internal/mimicry/toolrewrite.go): prefix, the first three bytes of the *)
(* name, and the index in at least two digits.  ToolNames takes it as an   *)
(* assumption that the aliases of one list differ; here it is checked, and *)
(* proved, for the lists it holds for.                                     *)
(*                                                                         *)
(* A byte is a small number: a digit is itself, any other byte is above 9. *)
(* Prefixes are told apart by their place in the shuffled pool: each ends  *)
(* with its only underscore, so none is the start of another.              *)
(***************************************************************************)
EXTENDS Integers, Sequences

CONSTANTS
  ByteNames,  \* names a client may declare, sequences of bytes
  PoolSize,       \* len(fakeToolNamePrefixes)
  MaxTools        \* bound: the longest list of the run

ASSUME NamesAssumption == ByteNames \subseteq Seq(Nat) \ {<< >>}
ASSUME PoolAssumption  == PoolSize = 24
ASSUME BoundAssumption == MaxTools \in 1..1000

VARIABLES
  index,  \* the iteration of the loop
  name    \* the tool at that index

-----------------------------------------------------------------------------
\* A slip: the index is written without padding.
Unpadded(i) ==
  IF i < 10 THEN <<i>>
  ELSE IF i < 100 THEN <<i \div 10, i % 10>>
  ELSE <<i \div 100, (i \div 10) % 10, i % 10>>

\* "%02d", for indices below 1000.
TwoDigits(i) ==
  IF i < 100 THEN <<i \div 10, i % 10>>
  ELSE <<i \div 100, (i \div 10) % 10, i % 10>>

NameHead(n) == SubSeq(n, 1, IF Len(n) < 3 THEN Len(n) ELSE 3)

\* Sprintf("%s%s%02d", available[i%len(available)], name[:headLen], i).
ReadableAlias(n, i) == [prefix |-> i % PoolSize, tail |-> NameHead(n) \o TwoDigits(i)]

FirstTool == index = 0 /\ name \in ByteNames

\* One iteration; the list may hold any name at any index.
NextTool ==
  /\ index + 1 < MaxTools
  /\ index' = index + 1
  /\ name' \in ByteNames

Naming == FirstTool /\ [][NextTool]_<<index, name>>

-----------------------------------------------------------------------------
(* The alias at hand differs from every alias an earlier index can have,   *)
(* whatever name stands there, up to 600 tools; beyond that, aliases that  *)
(* are equal are a multiple of 600 apart.  Digits at the end of a name can *)
(* be read as part of an index, so this is not plain from the format.      *)
AliasesApart ==
  \A j \in 0..(index - 1) : \A n \in ByteNames :
    ReadableAlias(n, j) = ReadableAlias(name, index) => (index - j) % 600 = 0
=============================================================================
