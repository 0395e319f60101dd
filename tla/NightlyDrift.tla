---------------------------- MODULE NightlyDrift ----------------------------
(***************************************************************************)
(* The nightly fingerprint pipeline                                        *)
(* (.github/workflows/fingerprint-nightly.yml, scripts/nightly/): runs     *)
(* that check out main, resolve the latest CLI release, capture its two    *)
(* surfaces, stage what is new, retarget the plugin and publish one pull   *)
(* request on a fixed branch, which a maintainer merges.                   *)
(*                                                                         *)
(* A run sees nothing but its checkout between two actions of the model:   *)
(* staging, retargeting, testing and publishing are one.  Runs on main     *)
(* share a concurrency group, so one is in flight at a time; runs on       *)
(* pull requests publish nothing and are left out.                         *)
(***************************************************************************)
EXTENDS Naturals

CONSTANTS
  MaxVersion,    \* bound: releases of the CLI
  Wires,         \* what a capture may show of a release
  Absent,        \* no capture
  Pins,          \* places in the source that hold the target
  MaxUpsets      \* bound: changes of a release's wire, and commits that hide
                 \* a pinned place or restore it

Versions == 1..MaxVersion
Surfaces == {"cli", "sdk-cli"}

ASSUME VersionAssumption == MaxVersion \in Nat \ {0}
ASSUME WiresAssumption   == Absent \notin Wires /\ Wires # {}
ASSUME PinsAssumption    == Pins # {}
ASSUME BoundAssumption   == MaxUpsets \in Nat

VARIABLES
  latest,     \* the latest release in the registry
  wire,       \* what each release sends today
  main,       \* the main branch
  run,        \* the run in flight
  pr,         \* the drift pull request
  green,      \* the release the last run succeeded for, or 0
  upsets      \* how often a wire changed, or a place was hidden or restored

vars == <<latest, wire, main, run, pr, green, upsets>>

\* baseline 0 is a placeholder, or none.
Tree == [baseline : 0..MaxVersion,
         fixture  : [Versions \X Surfaces -> Wires \cup {Absent}],
         pin      : [Pins -> [version : Versions, wire : Wires, found : BOOLEAN]]]

Captures == [Surfaces -> Wires \cup {Absent}]
Nothing  == [s \in Surfaces |-> Absent]

NoPR == [open |-> FALSE]
Idle == [phase |-> "idle"]

-----------------------------------------------------------------------------
(* stage-drift.py and retarget.py *)

\* A capture whose fixture is not committed is staged.
Stage(tree, v, caught) ==
  [tree EXCEPT !.fixture = [x \in Versions \X Surfaces |->
     IF x[1] = v /\ tree.fixture[x] = Absent THEN caught[x[2]]
     ELSE tree.fixture[x]]]

\* A slip: all surfaces must have drifted.
DriftedIfAll(tree, v, caught) ==
  \A s \in Surfaces : caught[s] \notin {Absent, tree.fixture[<<v, s>>]}

\* The verdict: a first capture, or one that differs from the fixture.
Drifted(tree, v, caught) ==
  \E s \in Surfaces : caught[s] \notin {Absent, tree.fixture[<<v, s>>]}

Captured(tree, v) == \A s \in Surfaces : tree.fixture[<<v, s>>] # Absent
Targets(tree, v)  == \A p \in Pins : tree.pin[p].version = v

\* retarget.py dies unless both captures are there and agree, and every
\* pinned place is found.
CanRetarget(tree, v) ==
  /\ Captured(tree, v)
  /\ \A s, t \in Surfaces : tree.fixture[<<v, s>>] = tree.fixture[<<v, t>>]
  /\ \A p \in Pins : tree.pin[p].found

Retargeted(tree, v) ==
  [tree EXCEPT !.pin = [p \in Pins |->
     [version |-> v, wire |-> tree.fixture[<<v, "cli">>], found |-> TRUE]]]

\* A slip: each place is written as soon as it is found.
RetargetAsFound(tree, v) ==
  [tree EXCEPT !.pin = [p \in Pins |->
     IF Captured(tree, v) /\ tree.pin[p].found THEN Retargeted(tree, v).pin[p]
     ELSE tree.pin[p]]]

\* Every output is computed before the first is written.
Retarget(tree, v) == IF CanRetarget(tree, v) THEN Retargeted(tree, v) ELSE tree

-----------------------------------------------------------------------------
Init ==
  /\ latest = 1
  /\ \E w \in Wires :
       /\ wire = [v \in Versions |-> w]
       /\ main = [baseline |-> 0,
                  fixture  |-> [x \in Versions \X Surfaces |->
                                  IF x[1] = 1 THEN w ELSE Absent],
                  pin      |-> [p \in Pins |->
                                  [version |-> 1, wire |-> w, found |-> TRUE]]]
  /\ run = Idle
  /\ pr = NoPR
  /\ green = 0
  /\ upsets = 0

(* The world: releases, and what they send. *)

Release ==
  /\ latest < MaxVersion
  /\ latest' = latest + 1
  /\ UNCHANGED <<wire, main, run, pr, green, upsets>>

\* The intro or a header of a release changes without a new version.
Drift(v, w) ==
  /\ upsets < MaxUpsets
  /\ upsets' = upsets + 1
  /\ w # wire[v]
  /\ wire' = [wire EXCEPT ![v] = w]
  /\ UNCHANGED <<latest, main, run, pr, green>>

(* The steps of a run *)

\* The schedule, or a push to main; checkout.
Checkout ==
  /\ run = Idle
  /\ run' = [phase |-> "resolve", tree |-> main]
  /\ UNCHANGED <<latest, wire, main, pr, green, upsets>>

\* A slip: the registry's list is read in another order.
ResolveAny ==
  /\ run.phase = "resolve"
  /\ \E v \in 1..latest :
       run' = [phase |-> "cli", tree |-> run.tree, version |-> v, caught |-> Nothing]
  /\ UNCHANGED <<latest, wire, main, pr, green, upsets>>

\* resolve-latest.sh, and the binary's fingerprint.
Resolve ==
  /\ run.phase = "resolve"
  /\ run' = [phase   |-> "cli", tree |-> run.tree,
             version |-> latest, caught |-> Nothing]
  /\ UNCHANGED <<latest, wire, main, pr, green, upsets>>

\* capture-live.sh: cli first, then sdk-cli.
Capture(s) ==
  /\ run.phase = s
  /\ run' = [run EXCEPT !.phase = IF s = "cli" THEN "sdk-cli" ELSE "publish",
                        !.caught[s] = wire[run.version]]
  /\ UNCHANGED <<latest, wire, main, pr, green, upsets>>

\* A capture fails; the script ends there, the run goes on.
CaptureFails ==
  /\ run.phase \in Surfaces
  /\ run' = [run EXCEPT !.phase = "publish"]
  /\ UNCHANGED <<latest, wire, main, pr, green, upsets>>

\* A slip: only the tests decide.
GreenIfTested(captured, retargeted, tested) == tested

\* The last step, which fails the run.
Green(captured, retargeted, tested) == captured /\ retargeted /\ tested

\* A slip: the step looks at the binary's drift alone.
PublishedOnBinary(binary, wired, parent, head) ==
  IF ~ binary THEN pr
  ELSE IF head = parent THEN NoPR
  ELSE [open |-> TRUE, parent |-> parent, head |-> head]

\* The step runs if the binary or the wire drifted.  The branch is made anew
\* from the checkout; without a difference, an open request is closed.
Published(binary, wired, parent, head) ==
  IF ~ (binary \/ wired) THEN pr
  ELSE IF head = parent THEN NoPR
  ELSE [open |-> TRUE, parent |-> parent, head |-> head]

\* Stage, retarget, test, publish, verdict.
Publish ==
  /\ run.phase = "publish"
  /\ LET v      == run.version
         binary == run.tree.baseline # v
         staged == [Stage(run.tree, v, run.caught) EXCEPT !.baseline = v]
         whole  == \A s \in Surfaces : run.caught[s] # Absent
     IN  /\ pr' = Published(binary, Drifted(run.tree, v, run.caught),
                            run.tree, Retarget(staged, v))
         /\ \E tested \in BOOLEAN :
              green' = IF Green(whole, CanRetarget(staged, v), tested)
                       THEN v ELSE 0
  /\ run' = Idle
  /\ UNCHANGED <<latest, wire, main, upsets>>

\* Any other step fails, or the job is cancelled or runs out of time.
Abort ==
  /\ run # Idle
  /\ run' = Idle
  /\ green' = 0
  /\ UNCHANGED <<latest, wire, main, pr, upsets>>

(* The maintainer *)

\* A three-way merge of one file, and when it is without a conflict.
Merged(parent, head, ours) == IF head = parent THEN ours ELSE head
Clean(parent, head, ours)  == head = parent \/ ours \in {parent, head}

MergeClean(parent, head, ours) ==
  /\ Clean(parent.baseline, head.baseline, ours.baseline)
  /\ \A x \in Versions \X Surfaces :
       Clean(parent.fixture[x], head.fixture[x], ours.fixture[x])
  /\ \A p \in Pins : Clean(parent.pin[p], head.pin[p], ours.pin[p])

MergeTrees(parent, head, ours) ==
  [baseline |-> Merged(parent.baseline, head.baseline, ours.baseline),
   fixture  |-> [x \in Versions \X Surfaces |->
                   Merged(parent.fixture[x], head.fixture[x], ours.fixture[x])],
   pin      |-> [p \in Pins |->
                   Merged(parent.pin[p], head.pin[p], ours.pin[p])]]

Merge ==
  /\ pr.open
  /\ MergeClean(pr.parent, pr.head, main)
  /\ main' = MergeTrees(pr.parent, pr.head, main)
  /\ pr' = NoPR
  /\ UNCHANGED <<latest, wire, run, green, upsets>>

\* A commit changes a pinned place to a form the script does not find, or
\* back.
Refactor(p) ==
  /\ upsets < MaxUpsets
  /\ upsets' = upsets + 1
  /\ main' = [main EXCEPT !.pin[p].found = ~ @]
  /\ UNCHANGED <<latest, wire, run, pr, green>>

Next ==
  \/ Release
  \/ \E v \in Versions, w \in Wires : Drift(v, w)
  \/ Checkout \/ Resolve \/ CaptureFails \/ Publish \/ Abort
  \/ \E s \in Surfaces : Capture(s)
  \/ Merge
  \/ \E p \in Pins : Refactor(p)

\* A run in which nothing failed reaches its end.
PublishWhole ==
  Publish /\ \A s \in Surfaces : run.caught[s] # Absent

\* The schedule goes on; over many nights the network, the captures and the
\* runner do not always fail; the maintainer merges what can be merged.
Fairness ==
  /\ WF_vars(Checkout)
  /\ WF_vars(Abort)
  /\ SF_vars(Resolve)
  /\ \A s \in Surfaces : SF_vars(Capture(s))
  /\ SF_vars(PublishWhole)
  /\ SF_vars(Merge)

SafeSpec == Init /\ [][Next]_vars
Spec     == SafeSpec /\ Fairness

-----------------------------------------------------------------------------
TypeOK ==
  /\ latest \in Versions
  /\ wire \in [Versions -> Wires]
  /\ main \in Tree
  /\ run \in {Idle}
         \cup [phase : {"resolve"}, tree : Tree]
         \cup [phase : Surfaces \cup {"publish"}, tree : Tree,
               version : Versions, caught : Captures]
  /\ pr \in {NoPR} \cup [open : {TRUE}, parent : Tree, head : Tree]
  /\ green \in 0..MaxVersion
  /\ upsets \in 0..MaxUpsets

(* The pinned places of main agree with one another and with both committed *)
(* captures of the release they name, whatever failed in the runs that      *)
(* wrote them and whatever was merged around them (retarget.py: "no partial *)
(* writes", "not half-way").                                                *)
PinsFaithful ==
  \A p, q \in Pins :
    /\ main.pin[p].version = main.pin[q].version
    /\ \A s \in Surfaces :
         main.fixture[<<main.pin[p].version, s>>] = main.pin[q].wire

(* When a run ends well, main or the request targets its release, or main   *)
(* holds its captures and its baseline already, so that no request was due: *)
(* then only the green run tells that the plugin could be retargeted.  A    *)
(* run that lost a capture or could not retarget is marked failed.          *)
GreenMeansCaptured ==
  green # 0 =>
    \/ Targets(main, green)
    \/ pr.open /\ Targets(pr.head, green)
    \/ Captured(main, green) /\ main.baseline = green

APin == CHOOSE p \in Pins : TRUE

History == INSTANCE FingerprintHistory WITH
  captures <- main.fixture,
  target   <- [version |-> main.pin[APin].version,
               wire    |-> main.pin[APin].wire]

(* Main implements FingerprintHistory: committed captures are never         *)
(* overwritten (PROC-001 in the workflow's header), and the target moves    *)
(* only forward, to a release whose captures are committed and agree.       *)
KeepsHistory == History!Spec

(* Both captures of a release that stays the latest get to main, though     *)
(* captures fail, runs are cancelled, requests are replaced or closed by    *)
(* later runs, and the wire changes under the same version.                 *)
CapturesArrive ==
  \A v \in Versions : <>[](latest = v) => <>Captured(main, v)

(* While nothing hides a pinned place and no wire changes under its         *)
(* version, the plugin comes to target a release that stays the latest,     *)
(* also if its captures come in on different nights.                        *)
TargetArrives ==
  \A v \in Versions :
    <>[](latest = v) /\ [](upsets = 0) => <>[]Targets(main, v)
=============================================================================
