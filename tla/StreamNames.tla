----------------------------- MODULE StreamNames -----------------------------
(***************************************************************************)
(* A response on its way to the client as bytes                            *)
(* (internal/mimicry/toolrewrite.go, restoreToolNamesInBytes and below).   *)
(* The host passes it in chunks of its own choice; each call of            *)
(* interceptStreamChunk sees one chunk and nothing of its neighbours.      *)
(* With a map, the aliases are replaced pair after pair where they stand   *)
(* as whole identifiers; without one, the static aliases are replaced      *)
(* wherever their bytes occur, in Go's random map order.                   *)
(***************************************************************************)
EXTENDS Integers, Sequences, FiniteSets, Functions, Picking

CONSTANTS
  Bytes,          \* bytes of a response, framing included
  NameBytes,      \* those of which identifiers consist
  RequestReverse, \* rw.reverse: alias -> real, both sequences of bytes
  StaticReverse,  \* staticToolNameRewrites read backwards, the same
  Texts,          \* responses to requests with a map: sequences of bytes
  StaticTexts,    \* responses for which there is no map
  MaxChunks       \* bound: chunks of one response

\* Names, whole or the beginning of one: letters, digits, '_' and '-', which
\* is what the upstream admits as a tool name; none is empty.
Identifiers == Seq(NameBytes) \ {<< >>}

\* At no distance do a and b cover a common position and agree on all those
\* they have in common: neither can end, begin or stand inside the other.
Apart(a, b) ==
  \A shift \in (1 - Len(b))..(Len(a) - 1) :
    \E k \in DOMAIN a : k - shift \in DOMAIN b /\ a[k] # b[k - shift]

ASSUME BytesAssumption ==
  /\ NameBytes \subseteq Bytes
  /\ Texts \cup StaticTexts \subseteq Seq(Bytes) \ {<< >>}

\* An alias is never itself a declared name (buildToolNameRewrite).
ASSUME ReverseAssumption ==
  /\ DOMAIN RequestReverse \subseteq Identifiers
  /\ RequestReverse \in [DOMAIN RequestReverse -> Identifiers]
  /\ Range(RequestReverse) \cap DOMAIN RequestReverse = {}

\* The table: "cc_mcp_", "cc_sess_" and "cc_ses_" overlap neither one
\* another nor the prefix another one is replaced by.
ASSUME TableAssumption ==
  /\ DOMAIN StaticReverse \subseteq Identifiers
  /\ StaticReverse \in [DOMAIN StaticReverse -> Identifiers]
  /\ \A fake, other \in DOMAIN StaticReverse :
       fake # other => Apart(fake, other) /\ Apart(fake, StaticReverse[other])

ASSUME ChunksAssumption == MaxChunks \in Nat \ {0}

VARIABLES
  mapped,   \* whether the response has a map of its own
  response, \* what the upstream wrote
  rest,     \* what of it the host has not passed yet
  cuts,     \* history: the positions in response after which a chunk ended
  chunk,    \* the chunk in the hook, as far as it is restored
  ahead,    \* aliases whose pair this call has not applied yet
  out       \* what the client has

streamVars == <<mapped, response, rest, cuts, chunk, ahead, out>>

\* The pairs of this response, alias -> real.
pairs == IF mapped THEN RequestReverse ELSE StaticReverse

-----------------------------------------------------------------------------
isNameByte(b) == b \in NameBytes

OccursAt(data, from, s) ==
  s + Len(from) - 1 <= Len(data) /\ SubSeq(data, s, s + Len(from) - 1) = from

\* A slip: only the byte after the match is looked at.
ClearAfter(data, start, end) == end = Len(data) \/ ~isNameByte(data[end + 1])

\* The bytes around data[start..end] are not part of a name.
WholeName(data, start, end) ==
  /\ start = 1 \/ ~isNameByte(data[start - 1])
  /\ end = Len(data) \/ ~isNameByte(data[end + 1])

\* A slip: the copy stops one byte early.
CopiedShort(data, i, start) == SubSeq(data, i, start - 2)

\* What stands between the last replacement and the next.
Copied(data, i, start) == SubSeq(data, i, start - 1)

\* The scan from position 1: at the next occurrence, replace it and go on
\* behind it, or go on one byte after its start.
Scan(data, from, to, wholeNames) ==
  LET scan[i \in 1..(Len(data) + 1)] ==
        LET hits  == {s \in i..Len(data) : OccursAt(data, from, s)}
            start == CHOOSE s \in hits : \A t \in hits : s <= t
            end   == start + Len(from) - 1
        IN  IF hits = {} THEN SubSeq(data, i, Len(data))
            ELSE IF wholeNames => WholeName(data, start, end)
            THEN Copied(data, i, start) \o to \o scan[end + 1]
            ELSE SubSeq(data, i, start) \o scan[start + 1]
  IN  scan[1]

ReplaceWhole(data, from, to) == Scan(data, from, to, TRUE)

replaceAllBytes(data, from, to) == Scan(data, from, to, FALSE)

\* A slip: the alias is taken out and nothing put in.
RemoveOne(data, fake) == ReplaceWhole(data, fake, << >>)

\* A slip: static aliases, which are prefixes of names, as whole names.
ReplaceWholeAlways(data, fake) == ReplaceWhole(data, fake, pairs[fake])

ReplaceOne(data, fake) ==
  IF mapped THEN ReplaceWhole(data, fake, pairs[fake])
  ELSE replaceAllBytes(data, fake, pairs[fake])

\* reverseOrdered is sorted by length, the longest first; the static table
\* is ranged over in any order.
NextPairs ==
  {fake \in ahead : mapped => \A other \in ahead : Len(other) <= Len(fake)}

-----------------------------------------------------------------------------
StreamInit ==
  /\ mapped \in BOOLEAN
  /\ response \in IF mapped THEN Texts ELSE StaticTexts
  /\ rest = response
  /\ cuts = {}
  /\ chunk = << >> /\ ahead = {} /\ out = << >>

\* The host cuts a chunk off and calls the hook.
PassChunk ==
  /\ chunk = << >>
  /\ \E n \in 1..Len(rest) :
       /\ n = Len(rest) \/ Cardinality(cuts) + 1 < MaxChunks
       /\ chunk' = SubSeq(rest, 1, n)
       /\ rest' = SubSeq(rest, n + 1, Len(rest))
       /\ cuts' = cuts \cup {Len(response) - Len(rest) + n}
  /\ ahead' = DOMAIN pairs
  /\ UNCHANGED <<mapped, response, out>>

\* One iteration of either loop of restoreToolNamesInBytes.
ApplyPair ==
  /\ \E fake \in NextPairs :
       /\ chunk' = ReplaceOne(chunk, fake)
       /\ ahead' = ahead \ {fake}
  /\ UNCHANGED <<mapped, response, rest, cuts, out>>

DeliverChunk ==
  /\ chunk # << >> /\ ahead = {}
  /\ out' = out \o chunk
  /\ chunk' = << >>
  /\ UNCHANGED <<mapped, response, rest, cuts, ahead>>

StreamNext == PassChunk \/ ApplyPair \/ DeliverChunk

StreamSpec == StreamInit /\ [][StreamNext]_streamVars

-----------------------------------------------------------------------------
Delivered == rest = << >> /\ chunk = << >>

\* The positions at which an identifier, or a byte outside of them, begins.
Starts(data) ==
  {i \in DOMAIN data : i = 1 \/ ~isNameByte(data[i - 1]) \/ ~isNameByte(data[i])}

TokenAt(data, i) ==
  LET last == CHOOSE j \in i..Len(data) :
                /\ \A k \in (i + 1)..j : k \notin Starts(data)
                /\ j = Len(data) \/ j + 1 \in Starts(data)
  IN  SubSeq(data, i, last)

\* data as the sequence of its whole identifiers and of the bytes between
\* them: the meaning of "whole identifier" without a scan.
Tokens(data) == Picked([i \in DOMAIN data |-> TokenAt(data, i)], Starts(data))

\* A sequence of tokens, those replaced that reverse has as an alias.
Substituted(tokens, reverse) ==
  [k \in DOMAIN tokens |->
     IF tokens[k] \in DOMAIN reverse THEN reverse[tokens[k]] ELSE tokens[k]]

CutsAName(c) ==
  c < Len(response) /\ isNameByte(response[c]) /\ isNameByte(response[c + 1])

StreamTyped ==
  /\ mapped \in BOOLEAN
  /\ response \in IF mapped THEN Texts ELSE StaticTexts
  /\ \E n \in 0..Len(response) : rest = SubSeq(response, n + 1, Len(response))
  /\ cuts \subseteq 1..Len(response)
  /\ chunk \in Seq(Bytes) /\ out \in Seq(Bytes)
  /\ ahead \subseteq DOMAIN pairs
  /\ chunk = << >> => ahead = {}

(* If no chunk ends inside a name, the client gets, identifier by          *)
(* identifier and byte by byte, the response with every alias that stands  *)
(* as a whole identifier replaced, and nothing else: wherever the chunks   *)
(* end, and although one replacement feeds the next.                       *)
RestoredBetweenNames ==
  Delivered /\ mapped /\ (\A c \in cuts : ~CutsAName(c))
    => Tokens(out) = Substituted(Tokens(response), RequestReverse)

(* However the host cuts, with a map or without, what is not part of a     *)
(* name reaches the client byte for byte and in its order: the framing of  *)
(* an SSE stream cannot be damaged.                                        *)
Framing(data) == Picked(data, {i \in DOMAIN data : ~isNameByte(data[i])})

FramingKept == Delivered => Framing(out) = Framing(response)

(* Without a map the random order of the table does not show: the result   *)
(* is that of one scan which replaces whichever static alias comes next.   *)
NextStatic(data) ==
  LET scan[i \in 1..(Len(data) + 1)] ==
        LET here == {fake \in DOMAIN StaticReverse : OccursAt(data, fake, i)}
            fake == CHOOSE f \in here : TRUE
        IN  IF i > Len(data) THEN << >>
            ELSE IF here = {} THEN <<data[i]>> \o scan[i + 1]
            ELSE StaticReverse[fake] \o scan[i + Len(fake)]
  IN  scan[1]

StaticOrderIrrelevant ==
  Delivered /\ ~mapped /\ cuts = {Len(response)} => out = NextStatic(response)
=============================================================================
