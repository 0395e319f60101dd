--------------------------- MODULE SurfaceCoherence ---------------------------
(***************************************************************************)
(* The active config (internal/mimicry/config.go) and the two hooks of one *)
(* request that read it at different times: interceptRequestBefore, which  *)
(* writes the identity of a surface into the system prompt, and            *)
(* interceptEgressHeaders (egress_headers.go), which replaces the headers  *)
(* by those of a surface for every attempt the host sends.                 *)
(* plugin.reconfigure may come between any two steps, also with a payload  *)
(* that is rejected.                                                       *)
(*                                                                         *)
(* A payload is [json, yaml, keys]: whether each layer parses, and the     *)
(* values of the keys that are present, Mistyped for one that does not     *)
(* decode.  An empty payload has no keys.                                  *)
(***************************************************************************)
EXTENDS Integers, FiniteSets

CONSTANTS
  RequestIds,  \* request ids
  Payloads,  \* what the host sends with register and reconfigure
  Mistyped   \* a value of the wrong YAML type

Surfaces == {"cli", "sdk-cli"}
Toggles  == {"obfuscate_tool_names", "inject_system_prompt", "cache_breakpoints",
             "fill_fingerprint"}

\* A key of the right type decodes to a value of its type.
ASSUME PayloadsAssumption ==
  \A p \in Payloads : \A t \in Toggles \cap DOMAIN p.keys :
    p.keys[t] \in BOOLEAN \cup {Mistyped}

VARIABLES
  config,    \* activeCfg
  accepted,  \* history: the last payload that was not rejected
  phase,     \* request -> "idle", "read", "built" or "sent"
  client,    \* request -> the surface its own system claims, or "plain"
  cfg,       \* request -> the config its body hook read
  identity,  \* request -> the surface its body claims upstream, or "plain"
  built,     \* request -> the config its body was built from
  headers,   \* request -> the surface of the headers of its latest attempt
  during,    \* history: request -> configs active while its body hook ran
  switched   \* history: request -> the surface changed since its body hook read

surfaceVars == <<config, accepted, phase, client, cfg, identity, built, headers,
                 during, switched>>

-----------------------------------------------------------------------------
defaultConfig ==
  [obfuscate_tool_names |-> TRUE, inject_system_prompt |-> TRUE,
   cache_breakpoints |-> FALSE, fill_fingerprint |-> TRUE,
   surface |-> "cli", system_expansion |-> ""]

\* Only the keys that are present are applied.
decodeConfigYAML(keys, from) ==
  [k \in DOMAIN from |-> IF k \in DOMAIN keys THEN keys[k] ELSE from[k]]

Decodes(payload) ==
  /\ payload.json /\ payload.yaml
  /\ \A k \in DOMAIN payload.keys : payload.keys[k] # Mistyped

WithSurface(c) == IF c.surface = "" THEN [c EXCEPT !.surface = "cli"] ELSE c

Accepts(payload) ==
  /\ Decodes(payload)
  /\ WithSurface(decodeConfigYAML(payload.keys, defaultConfig)).surface \in Surfaces

\* A slip: the payload is laid over the active config.
ConfigureOverActive(payload, active) ==
  IF Accepts(payload) THEN WithSurface(decodeConfigYAML(payload.keys, active)) ELSE active

\* A slip: the surface is validated after it became active.
ConfigureThenCheck(payload, active) ==
  IF Decodes(payload) THEN WithSurface(decodeConfigYAML(payload.keys, defaultConfig))
  ELSE active

\* configure: the active config afterwards.
configure(payload, active) ==
  IF Accepts(payload) THEN WithSurface(decodeConfigYAML(payload.keys, defaultConfig))
  ELSE active

resolveSurface(name) == IF name = "sdk-cli" THEN "sdk-cli" ELSE "cli"

\* hasClaudeCodePrefix: the identifier of cli starts with the legacy prefix.
Recognised(claim, surface) == claim = "cli" \/ claim = surface

\* The claim of a body after the system stage.
Identity(claim, c) ==
  LET surface == resolveSurface(c.surface)
  IN  IF c.inject_system_prompt /\ ~Recognised(claim, surface) THEN surface ELSE claim

\* A slip: the profile is resolved from the config active by then.
ConfigReread(r) == [cfg[r] EXCEPT !.surface = config.surface]

\* All stages of the body use the one copy the hook took.
ConfigOfBody(r) == cfg[r]

-----------------------------------------------------------------------------
SurfaceInit ==
  /\ config = defaultConfig
  /\ accepted = [json |-> TRUE, yaml |-> TRUE, keys |-> << >>]
  /\ phase = [r \in RequestIds |-> "idle"]
  /\ client \in [RequestIds -> Surfaces \cup {"plain"}]
  /\ cfg = [r \in RequestIds |-> defaultConfig]
  /\ identity = client
  /\ built = [r \in RequestIds |-> defaultConfig]
  /\ headers = [r \in RequestIds |-> "none"]
  /\ during = [r \in RequestIds |-> {}]
  /\ switched = [r \in RequestIds |-> FALSE]

\* plugin.register and plugin.reconfigure; decoding works on a copy and the
\* assignment is under the lock.
Configure(payload) ==
  /\ config' = configure(payload, config)
  /\ accepted' = IF Accepts(payload) THEN payload ELSE accepted
  /\ during' = [r \in RequestIds |->
                  IF phase[r] = "read" THEN during[r] \cup {config'} ELSE during[r]]
  /\ switched' = [r \in RequestIds |->
                    switched[r] \/ (/\ phase[r] # "idle" /\ Accepts(payload)
                                    /\ config'.surface # config.surface)]
  /\ UNCHANGED <<phase, client, cfg, identity, built, headers>>

\* interceptRequestBefore: cfg := currentConfig().
ReadConfig(r) ==
  /\ phase[r] = "idle"
  /\ phase' = [phase EXCEPT ![r] = "read"]
  /\ cfg' = [cfg EXCEPT ![r] = config]
  /\ during' = [during EXCEPT ![r] = {config}]
  /\ UNCHANGED <<config, accepted, client, identity, built, headers, switched>>

\* The rest of the hook.
BuildBody(r) ==
  /\ phase[r] = "read"
  /\ phase' = [phase EXCEPT ![r] = "built"]
  /\ built' = [built EXCEPT ![r] = ConfigOfBody(r)]
  /\ identity' = [identity EXCEPT ![r] = Identity(client[r], ConfigOfBody(r))]
  /\ UNCHANGED <<config, accepted, client, cfg, headers, during, switched>>

\* After authentication, once for every attempt.
interceptEgressHeaders(r) ==
  /\ phase[r] = "built"
  /\ phase' = [phase EXCEPT ![r] = "sent"]
  /\ headers' = [headers EXCEPT ![r] = resolveSurface(config.surface)]
  /\ UNCHANGED <<config, accepted, client, cfg, identity, built, during, switched>>

\* The attempt failed and the host sends the same body again.
Retry(r) ==
  /\ phase[r] = "sent"
  /\ phase' = [phase EXCEPT ![r] = "built"]
  /\ UNCHANGED <<config, accepted, client, cfg, identity, built, headers, during, switched>>

SurfaceNext ==
  \/ \E payload \in Payloads : Configure(payload)
  \/ \E r \in RequestIds :
       ReadConfig(r) \/ BuildBody(r) \/ interceptEgressHeaders(r) \/ Retry(r)

SurfaceSpec == SurfaceInit /\ [][SurfaceNext]_surfaceVars

-----------------------------------------------------------------------------
IsConfig(c) ==
  /\ DOMAIN c = DOMAIN defaultConfig
  /\ \A t \in Toggles : c[t] \in BOOLEAN
  /\ c.surface \in Surfaces

SurfaceTyped ==
  /\ IsConfig(config)
  /\ phase \in [RequestIds -> {"idle", "read", "built", "sent"}]
  /\ client \in [RequestIds -> Surfaces \cup {"plain"}]
  /\ identity \in [RequestIds -> Surfaces \cup {"plain"}]
  /\ headers \in [RequestIds -> Surfaces \cup {"none"}]
  /\ switched \in [RequestIds -> BOOLEAN]
  /\ \A r \in RequestIds :
       IsConfig(cfg[r]) /\ IsConfig(built[r]) /\ \A c \in during[r] : IsConfig(c)

(* The active config is what the last accepted payload alone says: a key   *)
(* it leaves out has its documented default, whatever was configured       *)
(* before, and a rejected payload leaves no trace, however much of it      *)
(* could be decoded (SPEC-001, acceptance criteria).                       *)
ConfigAsLoaded ==
  LET keys == accepted.keys
  IN  \A k \in DOMAIN defaultConfig :
        \/ k \in DOMAIN keys /\ config[k] = keys[k]
        \/ k \notin DOMAIN keys /\ config[k] = defaultConfig[k]
        \/ k = "surface" /\ k \in DOMAIN keys /\ keys[k] = "" /\ config[k] = "cli"

(* A body is never put together from two configs: all its stages follow    *)
(* one that was active at some moment while the hook ran.                  *)
OneConfigPerBody ==
  \A r \in RequestIds : phase[r] \in {"built", "sent"} => built[r] \in during[r]

(* The plugin wrote the identity in the body of r. *)
Rewritten(r) ==
  /\ phase[r] \in {"built", "sent"}
  /\ built[r].inject_system_prompt /\ ~Recognised(client[r], built[r].surface)

(* Body and headers of an attempt disagree about the surface only if an    *)
(* accepted reconfigure changed it after the body hook read the config     *)
(* (SPEC-001: "a reconfigure during in-flight requests may cause a         *)
(* one-request divergence"); rejected payloads, the other keys, retries    *)
(* and other requests are no reason.                                       *)
DivergenceNeedsSwitch ==
  \A r \in RequestIds :
    phase[r] = "sent" /\ Rewritten(r) /\ headers[r] # identity[r] => switched[r]
=============================================================================
