---------------------------- MODULE MCStreamNames ----------------------------
(* Bounds: with a map, every response of up to five bytes over three name  *)
(* bytes and a separator, against aliases of which one starts with another *)
(* and one ends like another; without a map, every sequence of up to three *)
(* fragments of the real static names; up to three chunks of any length.   *)
EXTENDS StreamNames, TLC, SequencesExt

MCNameBytes == {"a", "b", "c", "m", "p", "s", "e", "i", "o", "n", "_", "x"}

MCBytes == MCNameBytes \cup {"."}

MCRequestReverse ==
  (<<"a", "b">> :> <<"c">>) @@ (<<"a", "b", "b">> :> <<"b">>)
    @@ (<<"c", "b">> :> <<"a", "a">>)

MCTexts == SeqOf({"a", "b", "c", "."}, 5) \ {<< >>}

Cc       == <<"c", "c", "_">>
Mcp      == <<"m", "c", "p", "_">>
Sess     == <<"s", "e", "s", "s", "_">>
Ses      == <<"s", "e", "s", "_">>
Session  == <<"s", "e", "s", "s", "i", "o", "n", "_">>
Sessions == <<"s", "e", "s", "s", "i", "o", "n", "s", "_">>

MCStaticReverse ==
  (Cc \o Mcp :> Mcp) @@ (Cc \o Sess :> Sessions) @@ (Cc \o Ses :> Session)

Fragments == {Cc, Mcp, Sess, Ses, Session, <<"s", ".">>}

MCStaticTexts == {FlattenSeq(list) : list \in SeqOf(Fragments, 3) \ {<< >>}}

MCMaxChunks == 3
=============================================================================
