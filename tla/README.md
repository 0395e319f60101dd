# TLA+ models of cc-mimicry

This directory holds TLA+ modules that model cc-mimicry, a plugin of the
CLIProxyAPI gateway, TLC configurations that check them on small instances, and
TLAPS proofs about them for every size. Paths below are relative to `src/`;
`IM` is `internal/mimicry`. `PROJECT.json` maps each definition to the lines it
models.

Contents: [the system](#the-system) · [what is modelled](#modules) ·
[runs](#runs) · [bounds](#bounds) · [atomicity](#atomicity) ·
[assumptions](#assumptions) · [fairness](#fairness) · [proofs](#proofs) ·
[findings](#findings) · [not modelled](#what-is-not-modelled) · [plan](#plan)

## The system

The gateway (the *host*) loads the plugin as a shared library and calls it with
a method name and a JSON payload. Each hook call is independent, runs on the
goroutine of the HTTP request it serves, and returns a new body, new headers or
nothing. What lives longer than a call is little, and it is where the
difficulties are: one active config, and two bounded stores that carry the map
of renamed tools from a request to its response.

| component | state | operations | interacts through |
|---|---|---|---|
| dispatch and C ABI shim (`main.go`, `IM/plugin.go`) | none | `Handle`: method name to hook | calls every hook |
| configuration (`IM/config.go`) | `activeCfg` under `cfgMu` | `configure`, `currentConfig` | read once or twice by every hook |
| native route (`IM/interceptors.go`) | `rewriteStore` | `interceptRequestBefore`, `interceptResponse`, `interceptStreamChunk` | put on the way up, get on the way down |
| translated routes (`IM/normalizers.go`) | `translatedRewrites` | `normalizeRequest`, `normalizeResponseBefore` | the same, under another key |
| rewrite store (`boundedRewriteStore` in `IM/interceptors.go`) | `items`, `order` | `put`, `get` | two instances, one per route |
| tool renaming (`IM/toolrewrite.go`) | none | `buildToolNameRewrite`, `applyToolNameRewriteToBody`, `restoreToolNamesInBytes` | called by both routes |
| body pipeline (`IM/mimicry.go`) | none | `applyRequestMimicry`, `stripContextManagementIfUnsupported` | called by the native route |
| surface, egress headers (`IM/surface.go`, `IM/egress_headers.go`) | a table | `interceptEgressHeaders` | reads the config a second time per request |
| nightly pipeline (`.github/workflows/fingerprint-nightly.yml`, `scripts/nightly/`) | committed fixtures, baseline, pinned constants, one pull request | capture, stage, retarget, test, publish | files, exit codes, step outputs |
| capture tools, CI and release, fixtures | none of the program's | | |

**Rewrite store.** A map and a list of keys in insertion order. `put` of a new
key appends it and drops the head while the list is longer than the capacity
(2048); `put` of a stored key replaces the value and leaves the order alone;
an empty key or an empty rewrite is ignored. Correct means: list and map
describe the same entries, no stale rewrite is returned, and an entry lives
until exactly that many newer keys have entered.

**Tool renaming.** A client's tools are renamed by static prefix rules, or,
above five tools, by aliases derived from the whole list. An alias that is
itself declared by the client is not used. Correct means: the aliased body is
consistent (tools, `tool_choice` and past `tool_use` blocks agree; no two tools
merge; server tools are untouched) and a response, in which the aliases are
replaced pair after pair, comes back under the client's names.

**Native route.** The forward hook renames and puts the map under the host's
lifecycle id, or, for a host that sends none, under a signature of the
rewritten body and headers. The reverse hooks get the map once per response or
per chunk. Between them the config may change, other requests may push the map
out, and the request may fail so that no reverse hook ever runs. Correct means:
a client sees its own name for the tool that was called; if the map is gone it
may see the alias; it never sees another tool's name.

**Translated routes.** The hook has no request id, so the map is stored under
the aliased list itself and found again through the translated request that the
host hands back with each line of a response. Names that occur in the client's
own request are not restored. A conversation repeats in each request the calls
of its earlier turns, so what one response delivered becomes part of that test
for the next one. Correct means the same as above, over conversations, across
restarts, and between clients that share a key.

**Body pipeline.** System prompt, fill, renaming, breakpoint, in that order,
with a gate on `context_management` that is applied in three places. A request
may pass several gateways that run the plugin. Correct means: the model reads
the client's instructions once each and in order, what the client chose is
kept, a stage that is off touches nothing, and the gate agrees with the beta
header on every path.

**Configuration and surface.** A reconfigure replaces the config as a whole or
is rejected as a whole. The body hook and the header hook of one request each
read it; SPEC-001 says that they may differ when a reconfigure falls between.

**Dispatch and C ABI.** The host calls with a method and bytes and gets a block
on the C heap that it must hand back. It calls *both* renaming hooks for every
request and *both* restoring hooks for every line of a response. Correct means:
at most one route takes a request, what it stored brings its names back, and
no answer is lost or shared.

**Nightly pipeline.** Steps that may each fail, conditions on the outputs of
earlier steps, and a pull request as the only result that lasts; main may move
and the wire may change between the steps. Correct means: what is on main names
one release consistently and never goes back, a run's colour says what it did,
and a release that stays the latest arrives.

The hard behaviours are listed with their lines under `hazards` in
`PROJECT.json`: eviction of a map whose response is pending, reconfiguration
between two hooks or two chunks, shared keys, stale or lost maps after a
restart, conversations that feed a delivered name back, a loop of replacements
in random order, chunks that end inside a name, bodies that pass the plugin
twice, answers of concurrent calls, and nights that fail half-way.

## Modules

| module | models | how |
|---|---|---|
| `RewriteStore` | `boundedRewriteStore` | pure operators: `Insert`, `Evict`, `Put`, `Get` on a record of `items` and `order` |
| `RewriteStoreLife` | one store under any sequence of puts | the state machine over `RewriteStore`, with what was put last and the age of each key as history |
| `ToolNames` | the choice of aliases and the two maps of `toolrewrite.go` | pure operators over opaque names; the two alias rules are constants |
| `RestoredNames` | the way back of one name: `restoreToolNamesInBytes` on the native route, `unaliasTranslatedName` and the guard of `restoreToolUseNames` on the others, each with its fallback on the static prefixes | pure operators; what the prefixes read backwards make of a name, at its start (`StaticPrefixed`) or anywhere in it (`StaticWithin`), are two more constants |
| `Picking` | the loops that pick members of a list | `Picked`: the members of a sequence at a set of positions, by position and not by recursion |
| `AliasNames` | the format of the dynamic aliases and the pool of prefixes | a machine that builds lists tool by tool; bytes, digits and shuffle position are numbers |
| `NameRoundTrip` | one request and its response, field by field | forward (with and without `messages`), the upstream's answer, the replacement loop pair by pair in any order |
| `StreamNames` | `replaceWholeNames` and the static replacement on bytes | a response cut into chunks by the host, each restored pair by pair |
| `RequestBody` | `mimicry.go`: all stages of a body, and the beta header | one action per hook; the output of one gateway is the input of the next |
| `SurfaceCoherence` | `config.go`, `surface.go`, `egress_headers.go` | reconfigures with any payload between the steps of requests and their retries |
| `NativeRoute` | `interceptRequestBefore`, `interceptResponse`, `interceptStreamChunk`, `rewriteKey`, reconfiguration | one action per hook, any number of requests in flight, on hosts with and without a request id |
| `TransparentNames` | the promise of the native route to its clients | abstract specification: no store, no config, no names; ages only |
| `TranslatedRoute` | `normalizeRequest`, `normalizeResponseBefore`, restart, reconfiguration | conversations of any number of turns over a shared store |
| `Plugin` | `main.go`, `plugin.go`, and all hooks that rename or restore, composed | calls and the reading of their answers as separate steps, over one heap, one config and both stores |
| `NightlyDrift` | the workflow, `stage-drift.py`, `retarget.py`, `resolve-latest.sh`, the order of `capture-live.sh` | a run as a machine beside releases, drifts, merges and commits |
| `FingerprintHistory` | what main promises about the fingerprint it carries | abstract specification: committed captures and the target only |
| `RewriteLemmas` | | lemmas on the operators of `ToolNames` and `RewriteStore` |
| `PartsProofs` | | theorems on `RewriteStoreLife`, `AliasNames`, `NameRoundTrip` and `SurfaceCoherence`, the parts the routes are built from |
| `StreamNamesProofs`, `NativeRouteProofs`, `TranslatedRouteProofs`, `PluginProofs`, `RequestBodyProofs`, `NightlyDriftProofs` | | theorems on the state machine each is named after |

The modules `MC*` give the constants their values. `NativeRoute`,
`TranslatedRoute` and `Plugin` extend `RestoredNames` (and with it `ToolNames`)
and `RewriteStore`: the same operators that `RewriteStoreLife` and `NameRoundTrip` check on their own.
`NativeRoute` instantiates `TransparentNames` with a refinement mapping
(`Promise`) that maps each delivered name to what a client sees in it: its own
name, the alias, or something else. `NightlyDrift` instantiates
`FingerprintHistory` (`History`) with the fixtures of main and the target that
its pins name.

State and code correspond as follows. `store` is the pair (`items`, `order`) of
`rewriteStore` or `translatedRewrites`; `Plugin` has both. `obfuscate` is
`activeCfg.ObfuscateToolNames`, the one field of the config that both sides of
a renaming consult; `config` in `SurfaceCoherence` and `RequestBody` is the
whole of it. `wire` is the list of tool names in the body sent upstream, which
in `TranslatedRoute` is also the `TranslatedRequest` the host hands back.
`original` is the set of names quoted in the client's `OriginalRequest`: those
of its tools, of the calls in its history, and `quotes`, what it says anywhere
else, as in a system prompt that mentions a tool. In
`RequestBody` a system is a sequence of text blocks by kind, and a field is
absent, the client's or filled in. In `Plugin`, `heap` holds the answers that
were given and not freed, and `slot` the `cliproxy_buffer` of each caller. In
`NightlyDrift` a tree (a checkout, main, the ends of the pull request) is the
binary's baseline, the capture fixtures, and the pinned places of the source
with the release and the wire they were written for; `wire` is what a release
sends, as far as both surfaces share it.

`delivered`, `newer`, `missed`, `everMissed`, `lastPut`, `behind`, `seen`,
`asked`, `accepted`, `during`, `switched`, `on` and `cuts` (beyond its bound)
are history variables: no action reads them to decide anything. The names a
client can be told are identified by their position in the tool list, so that
a wrong name is one that belongs to another position.

Definitions with a comment that begins "A slip:" are mutations of the
definition below them. They are used by no specification; each shows that a
property is violated when the code has that bug.

## Runs

| run | configuration | properties | shows |
|---|---|---|---|
| `store_life` | `MCRewriteStoreLife.cfg` | `Consistent`, `NeverStale`, `Retention`, `EvictsOldestOnly` | list and map of the store stay one; an entry lives exactly until `Capacity` newer keys entered; only the oldest is dropped |
| `name_round_trip` | `MCNameRoundTrip.cfg` | `TypeOK`, `ToolUseRestored`, `OrderIrrelevant`, `WireBodyFits`, `CoveredNamesRenamed` | every small request comes back under its own names in any order of replacements, and the body sent upstream is consistent |
| `alias_names` | `MCAliasNames.cfg` | `AliasesApart` | aliases of one list differ up to 600 tools, and from there on meet only a multiple of 600 places apart |
| `stream_names` | `MCStreamNames.cfg` | `StreamTyped`, `RestoredBetweenNames`, `FramingKept`, `StaticOrderIrrelevant` | chunks that end between names are restored exactly; no cut damages what is not a name; the order of the static table does not show |
| `request_body` | `MCRequestBody.cfg` | `TypeOK`, `ConversationKept`, `ContextGated`, `TogglesRule`, `SecondPassIdle` | every small body through three gateways of any config: what the model reads, what is gated, filled and kept |
| `surface_coherence` | `MCSurfaceCoherence.cfg` | `ConfigAsLoaded`, `OneConfigPerBody`, `DivergenceNeedsSwitch` | rejected payloads leave no trace; one config per body; headers differ from the body only after a switch |
| `native_route` | `MCNativeRoute.cfg` | `NeverWrongTool`, `LeakMeansEvicted`, `OnlyLookalikesConfused`, `ReconfigureInvisible`, `KeepsPromise` | three requests in flight over a store of two, on hosts with and without a request id: own names, or an alias after an eviction, whatever is reconfigured; the route implements `TransparentNames`; without a request id the fallback may also undo static prefixes inside a name (`my_cc_mcp_x` arrives as `my_mcp_x`), and anything else only for names that are aliases |
| `translated_route` | `MCTranslatedRoute.cfg` | `NeverWrongTool`, `NoLeakWithoutLoss`, `StaticNeverLeaks` | two conversations over a store of one: never a wrong tool, an alias only after a lost map, never a static alias; but for an alias the client quotes itself |
| `translated_shared_key` | `MCTranslatedSharedKeySharesMap.cfg` | `SharedKeySharesMap` | expected violation, [finding](#findings) 1 |
| `translated_leak_ends` | `MCTranslatedLeakEndsWithResponse.cfg` | `LeakEndsWithResponse` | expected violation, [finding](#findings) 2 |
| `plugin` | `MCPlugin.cfg` | `AnswersOwned`, `RenamedOnce`, `WayBackKept`, `CoveredNeverSent`, `NamesComeBack` | two requests of any mix of formats through all hooks of both routes: none renamed twice, the way back stored for all that goes up, no covered name sent, own names back, no answer lost or shared |
| `nightly` | `MCNightlyDrift.cfg` | `PinsFaithful`, `GreenMeansCaptured`, `KeepsHistory`, `CapturesArrive`, `TargetArrives` | whatever fails and is merged, main names one release consistently and moves forward only; main implements `FingerprintHistory`; under fairness, a release that stays the latest arrives |

Every property of a passing run but the two liveness properties of `nightly` is
also a theorem. The type invariants of
`RewriteStoreLife`, the two routes, `Plugin`, `SurfaceCoherence` and
`NightlyDrift` are theorems only.

Four runs are made without the deadlock check, because their machines come to
an end: `name_round_trip` and `request_body` with one request,
`stream_names` with one response, `alias_names` with one list. The other
machines are checked for deadlock.

## Bounds

- *Capacity* is 3, 2 and 1 instead of 2048. `put` compares the length of the
  list with it and nothing else depends on its value. Each run about eviction
  has more keys than capacity, so that entries are evicted while their response
  is pending and between two chunks; `Plugin`, which leaves eviction to the
  routes, has room for all. The proofs hold for every positive capacity.
- *Threshold* is 1 or 2 instead of 5, so that lists on both sides of it stay
  short. The proofs hold for every natural number.
- *Tool lists* of up to three names (`MCNameRoundTrip`: every list of up to
  three over four names, a server tool and an unnamed tool besides). The names
  are chosen for what the code distinguishes: covered by the static rules, the
  alias of such a name, spelled like a dynamic alias, none of these; in
  `MCNativeRoute` also names that hold an alias prefix in the middle or twice,
  and `cc_mcp__x`, which no rule makes and the fallback undoes. In
  `MCTranslatedRoute` each client may quote one alias besides. Two
  prefixes replace the pool of 24: two are enough for lists whose shuffles
  agree in one place and differ in another. `AliasNames` has the pool of 24 and
  lists of up to 650 tools, so that indices gain a digit and the place 600, at
  which aliases may first meet, is passed.
- *Requests* 3, *clients* 2. A wrong name, a lost map or a shared key needs two
  parties; the third request makes an eviction happen between the calls of the
  other two. `Plugin` has two requests and a caller of the lifecycle methods:
  one for each route, and a reconfigure between any of their steps.
- *Texts* (`StreamNames`): every text of up to five symbols over three name
  bytes and a separator, and up to three fragments of the real static names,
  in up to three chunks. The aliases are up to three bytes long and one starts
  with another, so a cut can fall before, in and behind each.
- *Gateways* (`RequestBody`): three, each with any config. Two are not enough:
  a fill that a closed gate held back is made up for at a later gateway, which
  is a pass that was asked for nothing new and yet changes the body; it takes a
  gateway that asks, one that closes and one that opens. Hence the premise of
  `SecondPassIdle` that every gate was open. The proofs hold for any number of
  gateways. Systems have up to three blocks, so that each kind that
  the test for a rewritten system tells apart stands first, after a blank one,
  and behind another.
- *Nightly*: three releases, so that two changes of the target follow each
  other; two wires, so that captures agree or differ; two pinned places; one
  upset (`MaxUpsets`), a drift of the wire or a commit that hides a pinned
  place. Each kind of upset is met with every order of failures around it; the
  invariants that are proved hold for any number of releases, pins and upsets.
- *Counters* (`newer`, `behind`) stop at `Capacity`: from there on the entry is
  gone, and a larger number says nothing more.
- *Symmetry* is used where no operator tells the elements apart: requests in
  `MCNativeRoute`, `MCSurfaceCoherence`, `MCPlugin`, clients in
  `MCTranslatedRoute`. No run with symmetry checks liveness.
- Turns of a conversation, puts, chunks, retries, runs of the workflow and
  reconfigurations are not bounded. The reachable states are explored
  completely in every run.

## Atomicity

Each hook call of the routes is one step, although it runs concurrently with
others. The store and the config are each guarded by a lock and touched at most
once per call, so a call is a read of the config and one store operation, with
local work in between and around.

- *Forward calls* (`interceptRequestBefore`, `normalizeRequest`) read the
  config and then put. Only a call that read TRUE puts. Its effect is that of
  one step at the moment of the put in a behaviour where the config is still
  TRUE: as no response is influenced by the config on a host that sends a
  request id (`ReconfigureInvisible`), inserting a switch to TRUE before and
  back after that step changes nothing that a client sees, and the order of
  the puts is kept. A call that read FALSE touches no store and can be placed
  at its read.
- *Reverse calls* get from the store and then, only if there is no map and the
  host sends no request id, read the config. On a host with a request id, and
  on the translated routes, the config is not read, and a call is one get.
- On a host *without* a request id, a put and a reconfigure may fall between
  the get and the read of the config. `NativeRoute` takes the two as one step
  there, and does not cover that interleaving. What it leaves out is a static
  restoration, or none, of a name whose map was not found, with the config of a
  moment later; both outcomes are in the model for adjacent steps.
- `Plugin` splits a call from the reading of its answer: the hook's effect and
  the answer on the C heap are one step, reading and freeing the block another,
  and other calls go on in between.
- `SurfaceCoherence` splits the two readings of the config by one request, and
  the reading for the body from the writing of the body.
- In `NightlyDrift` staging, retargeting, testing and publishing are one
  action: a run sees nothing but its own checkout between them, and each may
  fail within it. Only one run on main is in flight (the concurrency group);
  runs on pull requests publish nothing and are left out. A write error of the
  operating system in the middle of `retarget.py` is excluded; the failure of
  a step is not.

`NativeRoute` models one life of the plugin: in-flight requests end with the
host process that the library lives in. `TranslatedRoute` has a `Restart`, as
its maps are looked up by content and a conversation goes on after it.

## Assumptions

Every constant's assumption is named in the module that declares it, and TLC
evaluates it on each run.

- `CapacityAssumption`: the capacity is positive.
- `StaticAssumption`: the static rules are an injective partial function and no
  alias is renamed again. From the table: the three replacements start with
  `cc_`, no pattern does, and `cc_sess_`, `cc_ses_`, `cc_mcp_` are no prefixes
  of one another.
- `DynamicAssumption`: within one list, positions with one dynamic alias are
  one position. `AliasNames` discharges it from the format: prefix, first three
  bytes of the name, index in at least two digits. Equal aliases have equal
  prefixes, so their indices agree modulo 24; they also agree in the last two
  digits; so they are a multiple of 600 apart. A list of up to 600 tools has
  distinct aliases (`ReadableAliasesDiffer`, proved for indices below 1000).
- `FallbackAssumption`: the static prefixes read backwards undo a static alias
  where they look at the start of a name, and find in the alias what they find
  in its name where they look into it: from the table, as each alias is the
  prefix put before the rest of the name. No readable alias holds an alias
  prefix: no prefix of the pool contains `cc_`, and behind the first three
  bytes of the name, which may be `cc_`, stands the index. So the two kinds of
  aliases are apart.
- `QuoteAssumption` (`TranslatedRoute`): what a client quotes are names.
- `ChanceAssumption` (both routes): lists above the threshold that have all
  their aliases in common are one list. This is no certainty: the aliases
  depend on a shuffle of 24 prefixes seeded by the list and on the first three
  bytes of each name, and two lists whose names begin alike in each place need
  shuffles that agree on every prefix used, at least six. The keys of
  `translatedRewrites`, and of `rewriteStore` on a host without a request id,
  rest on it.
- `HostAssumption`: lifecycle ids are not empty, and an absent body is unlike
  any renamed list. The host does not use a lifecycle id twice; `NativeRoute`
  has this in the guard of the forward action (a request is sent once).
- `UnsharedAssumption` (`Plugin`): no two lists of the run share their aliases;
  what happens when they do is the subject of `TranslatedRoute`. `RoomAssumption`
  leaves eviction to the routes in the same way. `CallersAssumption`: callers
  are told apart from one another and from the absent key, and no list is empty.
  `ReadableAssumption`: no readable prefix starts with a prefix that the static
  rules rename, as can be read off the pool and the table; else the aliases of
  a long list would themselves be names that the rules cover.
- `NoNameAssumption`, `RequestsAssumption` (`NameRoundTrip`): bodies are bodies,
  and an absent name is no name. `ServerAssumption`: the name of a server tool is
  fixed by its type, and no such name is an alias.
- `BodiesAssumption` (`RequestBody`): nothing in a client's body is the plugin's
  yet; its fields are absent or the client's, and its caches have no breakpoint
  of the plugin. `ConfigsAssumption`, `HeadersAssumption`: the inputs have their
  types. `OnwardAssumption`: what one gateway makes of a list of names is a list
  the next one may be given.
- `NoKeyAssumption`, `KeysAssumption`, `RewritesAssumption`, `NilAssumption`:
  absent values are no values. `ReverseAssumption` (`StreamNames`): no alias is
  a declared name, which `ToolNames` shows of every map that is built. It also
  says, as `BytesAssumption` and `TableAssumption` do for the rest, that aliases
  and the names they stand for are not empty and consist of name bytes: letters,
  digits, `_` and `-` are what the upstream admits in a tool name, and what the
  pool, the table and the formats of the aliases use.
- `TableAssumption` (`StreamNames`): no static alias overlaps another one, or
  the prefix that another one is replaced by, in any position (`Apart`). The
  table of the run is that of the code, byte by byte, so TLC's evaluation of the
  assumption discharges it.

## Fairness

The plugin has no threads, queues or retries of its own; a hook returns without
waiting, and no liveness is stated of it. What must eventually happen is in the
nightly pipeline, and `NightlyDrift` states there:

- weak fairness of `Checkout`: the schedule goes on;
- weak fairness of `Abort`: a run that does nothing is ended by
  `timeout-minutes`;
- strong fairness of `Resolve`, of each `Capture` and of `PublishWhole`: over
  many nights, the registry, the captured program and the runner do not always
  fail. It is strong because a step is disabled again whenever a run is ended
  before it. There is no assumption that the tests ever pass;
- strong fairness of `Merge`: the maintainer merges what can be merged. It is
  strong because each run replaces the pull request or closes it.

Releases, drifts and refactorings are not fair: they may stop, which is the
premise `<>[](latest = v)` of both liveness properties.

## Proofs

All proofs are checked by tlapm with Z3, Zenon and LS4.

`PartsProofs` has four parts. The store, for every capacity, set of keys and
set of rewrites: `StoreTypeOK`, `StoreConsistent`, `StoreNeverStale`,
`StoreRetention`, `StorePositionIsAge`, `StoreEvictsOldestOnly`. The inductive
invariant is the agreement of list and map (`Sound`), that a stored rewrite is
the last put, and that the position of a key in the list is its age
(`PositionIsAge`) while every absent key has age `Capacity`. The last one is the
strengthening: without it, that the head of a full list is the key whose age is
about to become `Capacity` does not follow, and `Retention` is not inductive.
The lemmas `EmptyStoreSound`, `PutStored` and `PutNew` of `RewriteLemmas` say
once what happens to a sound store; all state machines over a store use them.

The aliases: `ReadableAliasesDiffer` and `AliasesAlwaysApart`, by arithmetic on
remainders: equal prefixes and equal last digits leave only multiples of 600.

The round trip of one request, for all bodies, lists and alias rules:
`RoundTripTypeOK`, `RoundTripToolUseRestored`, `RoundTripOrderIrrelevant`,
`RoundTripWireBodyFits`, `RoundTripCoveredNamesRenamed`. The invariant says what
was sent (`Sent`: the rewrite is the one built from the body, the wire body the
renamed one) and what the loop over the pairs has done so far (`Replaced`): a
text is the word of the upstream as long as the pair that would replace it is
still to come, and what one lookup in the map gives once it has gone. That is
stable because no restored name is an alias of the same map, so the loop never
replaces twice, and this is the point at which the order of the pairs stops to
matter. `WireBodyFits` rests on `ServerApart` (no alias is a server tool's name)
and on `BackAtPosition` (a name on the wire leads back to the name at its place).

The config and the surface, for any requests and payloads: `SurfaceTypeOK`,
`SurfaceConfigAsLoaded`, `SurfaceOneConfigPerBody`,
`SurfaceDivergenceNeedsSwitch`. The invariant adds to the properties that the
config a request read was active while its hook ran, and that while nothing was
switched its surface is the one that is active (`Follows`).

`StreamNamesProofs`, for any bytes, name bytes, pairs, responses and cuts:
`StreamTypeOK`, `StreamFramingKept`, `StreamRestoredBetweenNames` and
`StreamStaticOrderIrrelevant`, and of the operators `WholeNamesReplaced` and
`TokensFixData`. The code jumps from match to match and applies one pair after
the other to what the last one left; the properties speak of all tokens, or all
aliases, at once. The proof goes from the one to the other in four steps:

1. What a scan computes is a *rewriting* of the data (`Rewriting`,
   `ScanRewrites`): at a hit the name and then the rest from behind the alias, at
   any other position the byte and then the rest. The bytes the scan skips to
   the next occurrence are those a rewriting copies. That the recursive function
   has the values its body says is a descent over positions (`ForwardRecursion`,
   `Backwards`, from the least element of a set of numbers), which needs no
   induction theorem of the library.
2. A rewriting in which whole names are replaced replaces tokens
   (`TokensRenamed`). The tokens of two parts are those of the one and of the
   other if no name goes over (`TokensParts`), and a rewriting keeps parts
   apart, as it begins and ends with a name byte where the data does
   (`Alike`). The framing of parts is the framing of each (`FramingParts`).
3. With a map, the inductive invariant is `RestoredInv`: the framing of what is
   delivered, in the hook and still to come is that of the response, and there
   is a chunk end up to which the response is restored and delivered while the
   chunk behind it has the pairs replaced that are no longer `ahead`. Without
   the clause on a chunk half restored nothing follows of a delivered one, and
   without `Alike` two restored chunks could grow together at their edge. One
   pair more after those before (`SubstitutedTwice`) rests on
   `ReverseAssumption`: what a pair puts in is not an alias.
4. Without a map, `StaticInv` says that the one chunk has the aliases replaced
   that are no longer `ahead`, whichever comes next in the response
   (`ReplacedAny`). The step is `AnyOneMore`: a scan for one more alias finds it
   in the half replaced chunk exactly where the response has it, since by
   `TableAssumption` nothing that was put in, alone or with what stands beside
   it, makes an alias up (`NoneMadeUp`), and nothing that was replaced took a
   part of one away (`OccurrencesApart`).

TLC checked both invariants on the bounds of the run before they were proved.
`TokensFixData` says that data with the same tokens is the same, so that
`RestoredBetweenNames` fixes every byte a client gets.

`RewriteLemmas`: a list has a last position of each of its names, different
names of one list get different aliases, the reverse map undoes the forward
map, and hence `RoundTrip`: what goes upstream for a declared name comes back
as that name, whichever names have aliases. The guard against aliases that are
declared names is what the proof needs for the names without an alias. A second
group of lemmas says what a map that belongs to another list with the same
aliases gives back. A third is about what a loop picks from a sequence:
`Picked(s, places)` names its members by position, as the k-th of a finite set
of positions and not by recursion, so that `PlaceShape` (there is a k-th
position, each position is one, they are in order) can be proved from the
cardinality of finite sets, and `PickedAlong` (sequences that agree along an
order-preserving map of the picked positions have the same members picked).

`NativeRouteProofs`, for any number of requests, any capacity and alias rules
that meet the assumptions: `NativeTypeOK`, `NativeNeverWrongTool`,
`NativeLeakMeansEvicted`, `NativeOnlyLookalikesConfused`,
`NativeReconfigureInvisible` and `NativeKeepsPromise`. There are two inductive
invariants, as a host is of one kind from the start. With a request id, `IInv`
has as its core `Maps`: each request is *plain* (sent with its own names, and
no map is stored under its id) or *aliased* (sent with its aliases, and the
store holds its own map or `Capacity` later requests have entered).
`PositionIsAge` again ties the eviction order to the ages, `IdleIsBlank` says
that an id that was not used has no entry, and `Delivered` is what the clients
received. A response then meets three cases: a map found is its own, and
`RoundTrip` applies; no map and plain, nothing to restore; no map and aliased,
the alias passes and the age is the excuse. Without a request id, `OldInv` says
that a map in the store belongs to a list whose aliases are the body it is
stored under (`OldMaps`), and `OldDelivered` what a client may have read:
its own name, the alias as sent, its own name with the static prefixes in it
undone, or anything for a name that is an alias. A map found is one with the
same aliases (`BackThroughShared`); without one, the static prefixes find in an
alias what they find in its name (`ReplacedWithoutMap`). `NativeKeepsPromise` is the refinement: the
initial states map to initial states, a forward hook is `Admit`, a reverse hook
is `Tell`, the end is `Close`, a reconfigure stutters; that `Tell` never has to
tell something else is the invariant after the step.

`TranslatedRouteProofs`, for any number of clients and every capacity:
`TranslatedTypeOK`, `TranslatedNeverWrongTool`, `TranslatedNoLeakWithoutLoss`,
`TranslatedStaticNeverLeaks`. The inductive invariant says of the store that
the map under an aliased list was built from some list with those aliases
(`Maps`), and of each client what is on its way (`Pending`), what its history
quotes (`Remembered`) and what it was told (`Told`). Until a map of its was
missing once, a client's history names its own tools only, and aliases that it
quotes itself; without this, another alias could be among the names that the
guard keeps. Without a map the static prefixes bring an alias of a short list
back (`BackWithoutMap`).

`PluginProofs`, for any number of requests, callers and lines of a response, any
mix of formats and any interleaving of calls with the reading of their answers:
`PluginTypeOK`, `PluginAnswersOwned`, `PluginRenamedOnce`,
`PluginWayBackKept`, `PluginNamesComeBack`, `PluginCoveredNeverSent`. The invariant is stated for
each request on its own (`Exchange`), over the heap (`Heap`, which is
`AnswersOwned` with the range of the blocks) and the stores (`Stores`: a map
under a key was put there by a request that the route took, and is its own).
What makes it inductive is that a hook's effect is on the heap before it is in
the body: `Upstream` and `Told` are the body and the name *once the waiting
answer is read*, and `Kept` (what goes up is what the store will bring back),
`Obfuscated` and `Reading` (how far a line has come down) speak of those, so
that reading and freeing an answer changes none of them. `FreshBlock` shows by
counting that a caller without an answer finds a free block, `NativeRoom` and
`TranslatedRoom` that no put evicts, `Unmoved` and `OthersKeep` that a call for
one request leaves the others alone. The names themselves come from `RoundTrip`
and `BackThroughShared`.

`RequestBodyProofs`, for any bodies, configs, headers and number of gateways:
`BodyTypeOK`, `BodyConversationKept`, `BodyContextGated`, `BodyTogglesRule`,
`BodySecondPassIdle`. The invariant adds to the properties where the request is
(`Route`), what no stage changes (`Shape`), that static rules are done after one
pass (`Settled`, from `StaticOnce`), and, in `Gated`, what `ContextGated` leaves
out: a field that was asked for is there as long as every gate was open.
`BodyAfter` gives the body after the hook field by field, `Effect` is the part
of it that does not depend on the gate, and `TogglesKept` that any such effect
keeps the rule of the toggles; a `count_tokens` body is a special case.
`BodyConversationKept` is inductive by itself: what the model reads before a hook
it reads after it. The instructions that move into the messages are the system
without its blank blocks (`ToldAgain`), the plugin's own blocks and its
acknowledgement say nothing of the client's, and two messages in front shift the
others by two places (`MovedDown`, `PairInFront`).

`NightlyDriftProofs`, for any number of releases, wires, pins and upsets:
`NightlyTypeOK`, `NightlyPinsFaithful`, `NightlyGreenMeansCaptured`,
`NightlyKeepsHistory`. The invariant
says of every tree (main, the checkout of the run, both ends of the request)
that its pins agree with its captures and name no release that is not out
(`Coherent`, `UpTo`), and that the ends of the request differ as a run makes
them differ (`RequestOK`); a clean three-way merge of such trees is such a tree.
`GreenMeansCaptured` needs an order as well (`Ordered`): main is not behind the
checkout or the parent of the request, and neither main nor the request is ahead
of the release of the run in flight or of the last green one. So what a green
run proposed is still the target when it was merged, and what it found up to
date is still so.

Only model-checked: the two liveness properties of `NightlyDrift`,
`CapturesArrive` and `TargetArrives`. Liveness under fairness and ENABLED are out
of the prover's reach. The two runs that expect a violation exhibit behaviour
and have nothing to prove.

## Findings

Two statements of the documentation do not hold of the code; each has a run
that exhibits the behaviour.

1. *Requests that share a key share the map* (comment at
   `IM/normalizers.go:33`, ADR-006). Two different client lists can have one
   aliased list, as `[mcp_x, cc_mcp_y]` and `[cc_mcp_x, mcp_y]` do; the second
   put replaces the map of the first. `NeverWrongTool` still holds: the guard
   on names the client sent prevents a wrong name, and the first client sees
   an alias instead.
2. *A missing entry shows the aliases for that response* (ADR-006). The client
   repeats the alias in its next requests, where it is taken for one of its own
   names: it is not restored in later responses either, although their map is
   stored.

Seven more statements turned out too strong while the modules were written.
They have no run of their own; each is the reason for a condition in a property
that does hold.

- *We must not double-wrap* (`IM/mimicry.go:98`). The test looks at the start of
  the joined system text, and the plugin's own system starts with the billing
  block, so a body that already passed the plugin is wrapped again. Hence
  `SecondPassIdle` excepts the system prompt; `ConversationKept` shows that
  the instructions survive.
- *`context_management` is gated* (POL-001, line 28: "injecting or
  forwarding"). A body without `messages` returns at `IM/interceptors.go:45`
  before the gate. Hence `ContextGated` is about bodies with messages.
- *The surface tuple is atomic, which "prevents half-mix"* (ADR-004, lines 22
  and 27). The egress hook reads the config again (`IM/egress_headers.go:48`);
  SPEC-001 admits the divergence. Hence `DivergenceNeedsSwitch`.
- *Surface coherence is atomic under stable config* (SPEC-001, line 32). A
  system that starts with "You are Claude Code" is left alone on either
  surface (`IM/mimicry.go:153`), and the headers are those of the configured
  one. Hence `DivergenceNeedsSwitch` is about bodies the plugin rewrote.
- *A longer name that starts with an alias stays intact*
  (`IM/toolrewrite.go:319`). The edges of a chunk are taken for the edges of a
  name (`:333`), so a chunk that ends inside a longer name makes a part of it
  look like an alias. Hence `RestoredBetweenNames` is about cuts between names.
- *A CLI release does not silently break the disguise* (`README.md:43-47`).
  When captures got to main without a retarget (a pinned place was not found
  that night), later runs retarget their checkout, but the pull request step
  looks only at the drift of binary and captures
  (`fingerprint-nightly.yml:262`) and drops it, and the run is green. Hence the
  last alternative of `GreenMeansCaptured`, and the premise of `TargetArrives`.
- *When the PR carries captures the retarget follows*
  (`fingerprint-nightly.yml:270-274`). A night that captures `cli` and fails on
  `sdk-cli` commits its capture as a `feat:` without a retarget. Hence
  `TargetArrives` speaks of the end of several nights.

## What is not modelled

- *Hashes* are taken as injective: the signature of `rewriteKey` and the key of
  `translatedToolsKey` are the values they are computed from. The seed of the
  shuffle is in `DynamicAlias`, a constant.
- *JSON and YAML*: parsing, escaping, and the SSE and base64 envelopes. A
  payload, a body or a line parses or not.
- *Texts*: the content of prompts, the values of header profiles and of filled
  fields, the registration answer.
- *Sizes at the C boundary*: the narrowing of a length to a C `int` in
  `main.go`; no body the host hands over comes near it.
- *Bodies without `messages` in the routes*: a `count_tokens` request puts
  nothing into the store and its response names no tool. Its body is in
  `NameRoundTrip` and `RequestBody`.
- *`messages` that is no array*: no upstream takes such a body. The code
  replaces it by the two messages with the client's instructions.
- *The three-way merge of git and the action that opens the pull request* are
  external; they are modelled from how the workflow uses them.
- *Capture tools, CI and release scripts, fixtures*: they drive other programs
  or are data; no state of this program is involved. The order and the failures
  of `capture-live.sh` are in `NightlyDrift`.

## Plan

The components are modelled. What could be added, in this order:

1. `StreamNames` and `NativeRoute` composed: chunks of bytes whose map is
   evicted between them.
2. Runs for the seven statements above, where their documents are to be kept
   beside the code.
