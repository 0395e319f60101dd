-------------------------- MODULE MCSurfaceCoherence --------------------------
(* Bounds: two requests with any number of attempts, any number of         *)
(* reconfigures.  The payloads set each kind of key, leave it out, mistype *)
(* it or name an unknown surface, alone and beside a key that is valid;    *)
(* one toggle stands for those that decode alike.                          *)
EXTENDS SurfaceCoherence, TLC

CONSTANTS r1, r2

MCRequests == {r1, r2}
Symmetry   == Permutations(MCRequests)

Payload(keys) == [json |-> TRUE, yaml |-> TRUE, keys |-> keys]

MCPayloads ==
  {Payload(<< >>),
   Payload([surface |-> "sdk-cli"]),
   Payload([surface |-> "", inject_system_prompt |-> FALSE]),
   Payload([surface |-> "sdk-cli", cache_breakpoints |-> TRUE]),
   Payload([surface |-> "web", inject_system_prompt |-> FALSE]),
   Payload([surface |-> "sdk-cli", inject_system_prompt |-> Mistyped]),
   Payload([surface |-> "sdk-cli", system_expansion |-> Mistyped]),
   [json |-> FALSE, yaml |-> TRUE, keys |-> << >>],
   [json |-> TRUE, yaml |-> FALSE, keys |-> [surface |-> "sdk-cli"]]}
=============================================================================
