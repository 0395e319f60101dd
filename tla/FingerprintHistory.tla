-------------------------- MODULE FingerprintHistory --------------------------
(***************************************************************************)
(* What the main branch promises about the fingerprint it carries, however *)
(* nightly runs and merges interleave: a committed capture stays as it is, *)
(* and the plugin moves on only to a later release, and only to one both   *)
(* of whose captures are committed and agree.  NightlyDrift implements it. *)
(***************************************************************************)
EXTENDS Naturals

CONSTANTS
  Versions,  \* releases of the CLI, in order
  Surfaces,  \* the surfaces of one release
  Wires,     \* what a capture may show
  Absent     \* no capture

VARIABLES
  captures,  \* the capture committed for each release and surface
  target     \* the release the plugin impersonates, and the wire it copies

vars == <<captures, target>>

Init ==
  /\ captures \in [Versions \X Surfaces -> Wires \cup {Absent}]
  /\ target \in [version : Versions, wire : Wires]
  /\ \A s \in Surfaces : captures[<<target.version, s>>] = target.wire

Commit ==
  /\ captures' \in [Versions \X Surfaces -> Wires \cup {Absent}]
  /\ \A x \in Versions \X Surfaces :
       captures[x] # Absent => captures'[x] = captures[x]

Move ==
  /\ target' \in [version : Versions, wire : Wires]
  /\ target'.version > target.version
  /\ \A s \in Surfaces : captures'[<<target'.version, s>>] = target'.wire

Next == Commit /\ (Move \/ UNCHANGED target)

Spec == Init /\ [][Next]_vars
=============================================================================
