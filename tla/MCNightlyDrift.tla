---------------------------- MODULE MCNightlyDrift ----------------------------
(* Bounds: three releases, the first of which main starts from; one upset, *)
(* a change of the wire or of the pinned places; two wires, so that         *)
(* captures agree or not; two pinned places, one of which can be hidden.    *)
EXTENDS NightlyDrift

MCPins == {"source", "readme"}
=============================================================================
