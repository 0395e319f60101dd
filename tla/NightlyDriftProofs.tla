-------------------------- MODULE NightlyDriftProofs --------------------------
(***************************************************************************)
(* The safety of the nightly pipeline, for any number of releases, any     *)
(* wires and any pinned places: main carries a coherent target whatever    *)
(* runs and merges interleave, and implements FingerprintHistory.          *)
(*                                                                         *)
(* The inductive invariant says of the checkout of the run in flight and   *)
(* of the two ends of the pull request what PinsFaithful says of main, and *)
(* ties them to main: no capture of theirs is missing or different there.  *)
(* A second part orders them: nothing goes back, and nothing is ahead of   *)
(* the release a run has resolved.                                         *)
(***************************************************************************)
EXTENDS NightlyDrift, TLAPS

Files == Versions \X Surfaces

\* PinsFaithful of any tree.
Coherent(t) ==
  \A p, q \in Pins :
    /\ t.pin[p].version = t.pin[q].version
    /\ \A s \in Surfaces : t.fixture[<<t.pin[p].version, s>>] = t.pin[q].wire

\* No capture of t is missing or different in u.
Grown(t, u) == \A x \in Files : t.fixture[x] # Absent => u.fixture[x] = t.fixture[x]

UpTo(t, v) == \A p \in Pins : t.pin[p].version <= v

\* The pins of t are those of release v, whose captures are in t.
Moved(t, v, w) ==
  /\ \A p \in Pins : t.pin[p] = [version |-> v, wire |-> w, found |-> TRUE]
  /\ \A s \in Surfaces : t.fixture[<<v, s>>] = w

\* What a run makes of its checkout: more captures, and all pins or none.
Proposal(t, u, max) ==
  /\ Grown(t, u)
  /\ \/ u.pin = t.pin
     \/ /\ \A p \in Pins : t.pin[p].found
        /\ \E v \in Versions, w \in Wires : v <= max /\ UpTo(t, v) /\ Moved(u, v, w)

RunOK ==
  run # Idle =>
    /\ run.tree \in Tree /\ Coherent(run.tree) /\ Grown(run.tree, main)
    /\ UpTo(run.tree, latest)
    /\ run.phase # "resolve" => run.version <= latest /\ UpTo(run.tree, run.version)

RequestOK ==
  pr # NoPR =>
    /\ Coherent(pr.parent) /\ Grown(pr.parent, main)
    /\ Proposal(pr.parent, pr.head, latest)

IInv == TypeOK /\ Coherent(main) /\ UpTo(main, latest) /\ RunOK /\ RequestOK

-----------------------------------------------------------------------------
LEMMA TreeType ==
  ASSUME NEW t \in Tree
  PROVE  /\ t.baseline \in 0..MaxVersion
         /\ t.fixture \in [Files -> Wires \cup {Absent}]
         /\ t.pin \in [Pins -> [version : Versions, wire : Wires, found : BOOLEAN]]
         /\ t = [baseline |-> t.baseline, fixture |-> t.fixture, pin |-> t.pin]
  BY DEF Tree, Files

LEMMA GrownTransitive ==
  ASSUME NEW t, NEW u, NEW v, Grown(t, u), Grown(u, v)
  PROVE  Grown(t, v)
  BY DEF Grown

(***************************************************************************)
(* More captures leave a coherent tree coherent.                           *)
(***************************************************************************)
LEMMA CoherentGrown ==
  ASSUME NEW t \in Tree, NEW u, Coherent(t), Grown(t, u),
         \A p \in Pins : /\ u.pin[p].version = t.pin[p].version
                         /\ u.pin[p].wire = t.pin[p].wire
  PROVE  Coherent(u)
  <1> SUFFICES ASSUME NEW p \in Pins, NEW q \in Pins, NEW s \in Surfaces
               PROVE  /\ u.pin[p].version = u.pin[q].version
                      /\ u.fixture[<<u.pin[p].version, s>>] = u.pin[q].wire
    BY DEF Coherent
  <1>1. /\ t.pin[p].version = t.pin[q].version
        /\ t.fixture[<<t.pin[p].version, s>>] = t.pin[q].wire
    BY DEF Coherent
  <1>2. t.pin[q].wire # Absent /\ <<t.pin[p].version, s>> \in Files
    BY TreeType, WiresAssumption DEF Files
  <1> QED  BY <1>1, <1>2 DEF Grown

LEMMA MovedCoherent ==
  ASSUME NEW t, NEW v \in Versions, NEW w \in Wires, Moved(t, v, w)
  PROVE  Coherent(t)
  BY DEF Moved, Coherent

(***************************************************************************)
(* A three-way merge without a conflict of what a run made of an earlier   *)
(* main: captures are added, and the pins stay or move on together.        *)
(***************************************************************************)
LEMMA MergeEffect ==
  ASSUME NEW parent \in Tree, NEW head \in Tree, NEW ours \in Tree, NEW max,
         Coherent(parent), Coherent(ours), Grown(parent, ours),
         Proposal(parent, head, max), MergeClean(parent, head, ours)
  PROVE  LET m == MergeTrees(parent, head, ours)
         IN  /\ m \in Tree
             /\ Grown(ours, m)
             /\ \/ m.pin = ours.pin
                \/ \E v \in Versions, w \in Wires :
                     /\ v <= max /\ Moved(m, v, w)
                     /\ \A p \in Pins : ours.pin[p].version < v
  <1> DEFINE m == MergeTrees(parent, head, ours)
  <1>1. /\ \A x \in Files : m.fixture[x] = Merged(parent.fixture[x], head.fixture[x], ours.fixture[x])
        /\ \A p \in Pins : m.pin[p] = Merged(parent.pin[p], head.pin[p], ours.pin[p])
        /\ DOMAIN m.pin = Pins /\ m.pin = [p \in Pins |-> m.pin[p]]
    BY DEF MergeTrees, Files
  <1>2. m \in Tree
    <2>1. \A x \in Files : Merged(parent.fixture[x], head.fixture[x], ours.fixture[x]) \in Wires \cup {Absent}
      BY TreeType DEF Merged
    <2>2. \A p \in Pins : Merged(parent.pin[p], head.pin[p], ours.pin[p])
                            \in [version : Versions, wire : Wires, found : BOOLEAN]
      BY TreeType DEF Merged
    <2>3. Merged(parent.baseline, head.baseline, ours.baseline) \in 0..MaxVersion
      BY TreeType DEF Merged
    <2> QED  BY <2>1, <2>2, <2>3 DEF MergeTrees, Tree, Files
  <1> HIDE DEF m
  <1>3. Grown(ours, m)
    <2> SUFFICES ASSUME NEW x \in Files, ours.fixture[x] # Absent
                 PROVE  m.fixture[x] = ours.fixture[x]
      BY DEF Grown
    <2>1. Clean(parent.fixture[x], head.fixture[x], ours.fixture[x])
      BY DEF MergeClean, Files
    <2>2. parent.fixture[x] # Absent => head.fixture[x] = parent.fixture[x]
      BY DEF Proposal, Grown
    <2> QED  BY <1>1, <2>1, <2>2 DEF Clean, Merged
  <1>4. CASE head.pin = parent.pin
    <2>1. \A p \in Pins : m.pin[p] = ours.pin[p]
      BY <1>1, <1>4 DEF Merged
    <2>2. m.pin = ours.pin
      BY <1>2, <2>1, TreeType
    <2> QED  BY <1>2, <1>3, <2>2 DEF m
  <1>5. CASE head.pin # parent.pin
    <2>1. /\ \A p \in Pins : parent.pin[p].found
          /\ \E v \in Versions, w \in Wires :
               v <= max /\ UpTo(parent, v) /\ Moved(head, v, w)
      BY <1>5 DEF Proposal
    <2>2. PICK v \in Versions, w \in Wires :
               v <= max /\ UpTo(parent, v) /\ Moved(head, v, w)
      BY <2>1
    <2>3. \A p \in Pins : parent.pin[p].version < v
      <3> SUFFICES ASSUME NEW p \in Pins, ~ (parent.pin[p].version < v)
                   PROVE  FALSE
        OBVIOUS
      <3>1. parent.pin[p].version = v
        <4>1. parent.pin[p].version \in Nat /\ v \in Nat  BY TreeType DEF Versions
        <4>2. parent.pin[p].version <= v  BY <2>2 DEF UpTo
        <4> QED  BY <4>1, <4>2
      <3>2. parent.pin[p].wire = w
        <4>1. parent.fixture[<<v, "cli">>] = parent.pin[p].wire
          BY <3>1 DEF Coherent, Surfaces
        <4>2. parent.pin[p].wire # Absent /\ <<v, "cli">> \in Files
          BY TreeType, WiresAssumption DEF Files, Surfaces
        <4>3. head.fixture[<<v, "cli">>] = w  BY <2>2 DEF Moved, Surfaces
        <4> QED  BY <4>1, <4>2, <4>3 DEF Proposal, Grown
      <3>3. \A q \in Pins : parent.pin[q] = head.pin[q]
        <4> TAKE q \in Pins
        <4>1. parent.pin[q].version = v /\ parent.pin[q].wire = w
          <5>1. parent.pin[p].version = parent.pin[q].version
            BY DEF Coherent
          <5>2. parent.fixture[<<parent.pin[p].version, "cli">>] = parent.pin[q].wire
            BY DEF Coherent, Surfaces
          <5>3. parent.fixture[<<parent.pin[p].version, "cli">>] = parent.pin[p].wire
            BY DEF Coherent, Surfaces
          <5> QED  BY <5>1, <5>2, <5>3, <3>1, <3>2
        <4>2. parent.pin[q].found = TRUE
              /\ parent.pin[q] \in [version : Versions, wire : Wires, found : BOOLEAN]
          BY <2>1, TreeType
        <4>3. head.pin[q] = [version |-> v, wire |-> w, found |-> TRUE]
          BY <2>2 DEF Moved
        <4> QED  BY <4>1, <4>2, <4>3
      <3>4. head.pin = parent.pin  BY <3>3, TreeType
      <3> QED  BY <1>5, <3>4
    <2>4. \A p \in Pins : head.pin[p].version = v /\ head.pin[p] # parent.pin[p]
      <3> TAKE p \in Pins
      <3>1. head.pin[p].version = v  BY <2>2 DEF Moved
      <3>2. parent.pin[p].version \in Nat /\ v \in Nat  BY TreeType DEF Versions
      <3> QED  BY <2>3, <3>1, <3>2
    <2>5. \A p \in Pins : m.pin[p] = head.pin[p] /\ ours.pin[p] \in {parent.pin[p], head.pin[p]}
      BY <1>1, <2>4 DEF Merged, MergeClean, Clean
    <2>6. \A s \in Surfaces : m.fixture[<<v, s>>] = w
      <3> TAKE s \in Surfaces
      <3>1. <<v, s>> \in Files /\ head.fixture[<<v, s>>] = w /\ w # Absent
        BY <2>2, WiresAssumption DEF Files, Moved
      <3>2. parent.fixture[<<v, s>>] # Absent => ours.fixture[<<v, s>>] = parent.fixture[<<v, s>>]
        BY <3>1 DEF Grown
      <3> QED  BY <1>1, <3>1, <3>2 DEF Merged
    <2>7. Moved(m, v, w)
      BY <2>2, <2>5, <2>6 DEF Moved
    <2>8. CASE \A p \in Pins : ours.pin[p] = head.pin[p]
      <3>1. m.pin = ours.pin  BY <1>2, <2>5, <2>8, TreeType
      <3> QED  BY <1>2, <1>3, <3>1 DEF m
    <2>9. CASE \E p \in Pins : ours.pin[p] # head.pin[p]
      <3>1. PICK p \in Pins : ours.pin[p] = parent.pin[p]  BY <2>5, <2>9
      <3>2. \A q \in Pins : ours.pin[q].version = parent.pin[p].version
        BY <3>1 DEF Coherent
      <3>3. \A q \in Pins : ours.pin[q].version < v  BY <2>3, <3>2
      <3> QED  BY <1>2, <1>3, <2>2, <2>7, <3>3 DEF m
    <2> QED  BY <2>8, <2>9
  <1> QED  BY <1>4, <1>5

(***************************************************************************)
(* What a run publishes: its captures beside those of the checkout, and    *)
(* all pins moved to a release the checkout was not ahead of, or none.     *)
(***************************************************************************)
LEMMA PublishEffect ==
  ASSUME NEW t \in Tree, NEW v \in Versions, NEW caught \in Captures,
         NEW max, v <= max, UpTo(t, v)
  PROVE  LET staged == [Stage(t, v, caught) EXCEPT !.baseline = v]
         IN  /\ Retarget(staged, v) \in Tree
             /\ Proposal(t, Retarget(staged, v), max)
  <1> DEFINE staged == [Stage(t, v, caught) EXCEPT !.baseline = v]
  <1>1. /\ staged \in Tree /\ staged.pin = t.pin
        /\ \A x \in Files : t.fixture[x] # Absent => staged.fixture[x] = t.fixture[x]
    <2> DEFINE f == [x \in Files |-> IF x[1] = v /\ t.fixture[x] = Absent
                                     THEN caught[x[2]] ELSE t.fixture[x]]
    <2>1. f \in [Files -> Wires \cup {Absent}]
      BY TreeType DEF Captures, Files
    <2>2. \A x \in Files : t.fixture[x] # Absent => f[x] = t.fixture[x]
      OBVIOUS
    <2>3. staged = [[t EXCEPT !.fixture = f] EXCEPT !.baseline = v]
      BY DEF Stage, Files
    <2>4. v \in 0..MaxVersion  BY VersionAssumption DEF Versions
    <2> HIDE DEF f, staged
    <2>5. [t EXCEPT !.fixture = f] = [baseline |-> t.baseline, fixture |-> f, pin |-> t.pin]
      BY DEF Tree
    <2>6. staged = [baseline |-> v, fixture |-> f, pin |-> t.pin]
      BY <2>3, <2>5
    <2>7. staged \in Tree
      BY <2>1, <2>4, <2>6, TreeType DEF Tree, Files
    <2> QED  BY <2>2, <2>6, <2>7
  <1> HIDE DEF staged
  <1>2. Grown(t, staged)  BY <1>1 DEF Grown
  <1>3. CASE ~ CanRetarget(staged, v)
    <2>1. Retarget(staged, v) = staged  BY <1>3 DEF Retarget
    <2> QED  BY <1>1, <1>2, <2>1 DEF Proposal, staged
  <1>4. CASE CanRetarget(staged, v)
    <2> DEFINE w == staged.fixture[<<v, "cli">>]
               head == Retargeted(staged, v)
    <2>1. Retarget(staged, v) = head  BY <1>4 DEF Retarget
    <2>2. w \in Wires
      <3>1. <<v, "cli">> \in Files  BY DEF Files, Surfaces
      <3> QED  BY <1>1, <1>4, <3>1, TreeType DEF CanRetarget, Captured, Surfaces
    <2>3. \A s \in Surfaces : staged.fixture[<<v, s>>] = w
      BY <1>4 DEF CanRetarget, Surfaces
    <2>4. head = [baseline |-> staged.baseline, fixture |-> staged.fixture,
                  pin |-> [p \in Pins |-> [version |-> v, wire |-> w, found |-> TRUE]]]
      <3> DEFINE g == [p \in Pins |-> [version |-> v, wire |-> w, found |-> TRUE]]
      <3>1. head = [staged EXCEPT !.pin = g]  BY DEF Retargeted
      <3> HIDE DEF g, head
      <3>2. head = [baseline |-> staged.baseline, fixture |-> staged.fixture, pin |-> g]
        BY <1>1, <3>1 DEF Tree
      <3> QED  BY <3>2 DEF g
    <2> HIDE DEF w, head
    <2>5. head \in Tree
      BY <1>1, <2>2, <2>4, TreeType DEF Tree, Files
    <2>6. Moved(head, v, w)  BY <2>3, <2>4 DEF Moved
    <2>7. Grown(t, head)  BY <1>2, <2>4 DEF Grown
    <2>8. \A p \in Pins : t.pin[p].found  BY <1>1, <1>4 DEF CanRetarget
    <2> QED  BY <2>1, <2>2, <2>5, <2>6, <2>7, <2>8 DEF Proposal, staged
  <1> QED  BY <1>3, <1>4

-----------------------------------------------------------------------------
(***************************************************************************)
(* The shapes of a run and of a request.                                   *)
(***************************************************************************)
LEMMA RunType ==
  ASSUME TypeOK, run # Idle
  PROVE  /\ run.tree \in Tree
         /\ run.phase # "resolve" => run.version \in Versions /\ run.caught \in Captures
         /\ run.phase = "resolve" => run \in [phase : {"resolve"}, tree : Tree]
         /\ run.phase # "resolve" => run \in [phase : Surfaces \cup {"publish"}, tree : Tree,
                                              version : Versions, caught : Captures]
  <1> DEFINE early == [phase : {"resolve"}, tree : Tree]
             late  == [phase : Surfaces \cup {"publish"}, tree : Tree,
                       version : Versions, caught : Captures]
  <1>1. run \in early \/ run \in late
    BY DEF TypeOK
  <1>2. CASE run \in early
    <2>1. run.phase = "resolve" /\ run.tree \in Tree  BY <1>2
    <2> QED  BY <1>2, <2>1
  <1>3. CASE run \in late
    <2>1. run.phase \in {"cli", "sdk-cli", "publish"}  BY <1>3 DEF Surfaces
    <2>2. run.phase # "resolve"  BY <2>1
    <2>3. run.tree \in Tree /\ run.version \in Versions /\ run.caught \in Captures  BY <1>3
    <2> QED  BY <1>3, <2>2, <2>3
  <1> QED  BY <1>1, <1>2, <1>3

LEMMA RequestType ==
  ASSUME TypeOK
  PROVE  /\ pr.open <=> pr # NoPR
         /\ pr # NoPR => pr.parent \in Tree /\ pr.head \in Tree
  <1>1. CASE pr = NoPR
    <2>1. pr.open = FALSE  BY <1>1 DEF NoPR
    <2> QED  BY <1>1, <2>1
  <1>2. CASE pr \in [open : {TRUE}, parent : Tree, head : Tree]
    <2>1. pr.open = TRUE /\ pr.parent \in Tree /\ pr.head \in Tree  BY <1>2
    <2>2. pr # NoPR  BY <2>1 DEF NoPR
    <2> QED  BY <2>1, <2>2
  <1> QED  BY <1>1, <1>2 DEF TypeOK

LEMMA UpToLater ==
  ASSUME NEW t \in Tree, NEW v \in Nat, NEW max \in Nat, v <= max, UpTo(t, v)
  PROVE  UpTo(t, max)
  <1> SUFFICES ASSUME NEW p \in Pins
               PROVE  t.pin[p].version <= max
    BY DEF UpTo
  <1>1. t.pin[p].version <= v /\ t.pin[p].version \in Nat
    BY TreeType DEF UpTo, Versions
  <1> QED  BY <1>1

LEMMA ProposalLater ==
  ASSUME NEW t, NEW u, NEW max \in Nat, Proposal(t, u, max)
  PROVE  Proposal(t, u, max + 1)
  <1>1. \A v \in Versions : v <= max => v <= max + 1
    BY DEF Versions
  <1> QED  BY <1>1 DEF Proposal

LEMMA InitInvariant == Init => IInv
  <1> SUFFICES ASSUME Init PROVE IInv
    OBVIOUS
  <1>1. PICK w \in Wires :
          /\ wire = [v \in Versions |-> w]
          /\ main = [baseline |-> 0,
                     fixture  |-> [x \in Versions \X Surfaces |->
                                     IF x[1] = 1 THEN w ELSE Absent],
                     pin      |-> [p \in Pins |->
                                     [version |-> 1, wire |-> w, found |-> TRUE]]]
    BY DEF Init
  <1>2. 1 \in Versions /\ 0 \in 0..MaxVersion /\ 0 \in 0..MaxUpsets
    BY VersionAssumption, BoundAssumption DEF Versions
  <1>3. main \in Tree
    <2>1. [x \in Versions \X Surfaces |-> IF x[1] = 1 THEN w ELSE Absent]
            \in [Versions \X Surfaces -> Wires \cup {Absent}]
      OBVIOUS
    <2>2. [p \in Pins |-> [version |-> 1, wire |-> w, found |-> TRUE]]
            \in [Pins -> [version : Versions, wire : Wires, found : BOOLEAN]]
      BY <1>2
    <2> QED  BY <1>1, <1>2, <2>1, <2>2 DEF Tree
  <1>4. TypeOK
    BY <1>1, <1>2, <1>3 DEF Init, TypeOK
  <1>5. Moved(main, 1, w)
    <2>1. \A s \in Surfaces : <<1, s>> \in Versions \X Surfaces
      BY <1>2
    <2> QED  BY <1>1, <2>1 DEF Moved
  <1>6. Coherent(main)  BY <1>2, <1>5, MovedCoherent
  <1>7. UpTo(main, latest)  BY <1>1 DEF UpTo, Init
  <1> QED  BY <1>4, <1>6, <1>7 DEF IInv, Init, RunOK, RequestOK

(***************************************************************************)
(* What a merge makes of main.                                             *)
(***************************************************************************)
LEMMA MergeMain ==
  ASSUME IInv, Merge
  PROVE  /\ main' \in Tree /\ Grown(main, main') /\ Coherent(main') /\ UpTo(main', latest)
         /\ \/ main'.pin = main.pin
            \/ \E v \in Versions, w \in Wires :
                 Moved(main', v, w) /\ \A p \in Pins : main.pin[p].version < v
  <1>1. /\ pr # NoPR /\ pr.parent \in Tree /\ pr.head \in Tree
        /\ Coherent(pr.parent) /\ Grown(pr.parent, main)
        /\ Proposal(pr.parent, pr.head, latest)
    BY RequestType DEF IInv, Merge, RequestOK
  <1>2. main \in Tree /\ Coherent(main) /\ UpTo(main, latest) /\ latest \in Versions
    BY DEF IInv, TypeOK
  <1>3. /\ main' \in Tree /\ Grown(main, main')
        /\ \/ main'.pin = main.pin
           \/ \E v \in Versions, w \in Wires :
                /\ v <= latest /\ Moved(main', v, w)
                /\ \A p \in Pins : main.pin[p].version < v
    BY <1>1, <1>2, MergeEffect DEF Merge
  <1>4. CASE main'.pin = main.pin
    <2>1. Coherent(main')  BY <1>2, <1>3, <1>4, CoherentGrown
    <2>2. UpTo(main', latest)  BY <1>2, <1>4 DEF UpTo
    <2> QED  BY <1>3, <1>4, <2>1, <2>2
  <1>5. CASE main'.pin # main.pin
    <2>1. PICK v \in Versions, w \in Wires :
                /\ v <= latest /\ Moved(main', v, w)
                /\ \A p \in Pins : main.pin[p].version < v
      BY <1>3, <1>5
    <2>2. Coherent(main')  BY <2>1, MovedCoherent
    <2>3. UpTo(main', latest)  BY <2>1 DEF Moved, UpTo
    <2> QED  BY <1>3, <2>1, <2>2, <2>3
  <1> QED  BY <1>4, <1>5

(***************************************************************************)
(* What a commit beside the pipeline makes of main.                        *)
(***************************************************************************)
LEMMA RefactorMain ==
  ASSUME IInv, NEW p \in Pins, Refactor(p)
  PROVE  /\ main' \in Tree /\ Grown(main, main') /\ Coherent(main') /\ UpTo(main', latest)
         /\ main'.fixture = main.fixture /\ main'.baseline = main.baseline
         /\ \A q \in Pins : /\ main'.pin[q].version = main.pin[q].version
                            /\ main'.pin[q].wire = main.pin[q].wire
  <1>1. main \in Tree /\ Coherent(main) /\ UpTo(main, latest)
    BY DEF IInv, TypeOK
  <1> DEFINE r == [main.pin[p] EXCEPT !.found = ~ @]
             g == [main.pin EXCEPT ![p] = r]
  <1>2. main' = [main EXCEPT !.pin = g]
    BY DEF Refactor
  <1>3. /\ r \in [version : Versions, wire : Wires, found : BOOLEAN]
        /\ r.version = main.pin[p].version /\ r.wire = main.pin[p].wire
    <2>1. main.pin[p] \in [version : Versions, wire : Wires, found : BOOLEAN]
      BY <1>1, TreeType
    <2>2. r = [version |-> main.pin[p].version, wire |-> main.pin[p].wire,
               found |-> ~ main.pin[p].found]
      BY <2>1
    <2> HIDE DEF r
    <2> QED  BY <2>1, <2>2
  <1> HIDE DEF r
  <1>4. /\ g \in [Pins -> [version : Versions, wire : Wires, found : BOOLEAN]]
        /\ \A q \in Pins : g[q].version = main.pin[q].version /\ g[q].wire = main.pin[q].wire
    BY <1>1, <1>3, TreeType
  <1> HIDE DEF g
  <1>5. main' = [baseline |-> main.baseline, fixture |-> main.fixture, pin |-> g]
    BY <1>1, <1>2 DEF Tree
  <1>6. main' \in Tree
    BY <1>1, <1>4, <1>5, TreeType DEF Tree, Files
  <1>7. Grown(main, main')  BY <1>5 DEF Grown
  <1>8. \A q \in Pins : /\ main'.pin[q].version = main.pin[q].version
                       /\ main'.pin[q].wire = main.pin[q].wire
    BY <1>4, <1>5
  <1>9. Coherent(main')  BY <1>1, <1>7, <1>8, CoherentGrown
  <1>10. UpTo(main', latest)  BY <1>1, <1>8 DEF UpTo
  <1> QED  BY <1>5, <1>6, <1>7, <1>8, <1>9, <1>10

(***************************************************************************)
(* RunOK and RequestOK when main grows.                                    *)
(***************************************************************************)
LEMMA MainGrows ==
  ASSUME IInv, Grown(main, main'), UNCHANGED <<latest, run>>
  PROVE  /\ RunOK'
         /\ UNCHANGED pr => RequestOK'
  <1>1. RunOK'
    <2> SUFFICES ASSUME run # Idle
                 PROVE  Grown(run.tree, main')
      BY DEF IInv, RunOK
    <2> QED  BY GrownTransitive DEF IInv, RunOK
  <1>2. ASSUME UNCHANGED pr PROVE RequestOK'
    <2> SUFFICES ASSUME pr # NoPR
                 PROVE  Grown(pr.parent, main')
      BY <1>2 DEF IInv, RequestOK
    <2> QED  BY GrownTransitive DEF IInv, RequestOK
  <1> QED  BY <1>1, <1>2

LEMMA NextInvariant == IInv /\ [Next]_vars => IInv'
  <1> SUFFICES ASSUME IInv, [Next]_vars PROVE IInv'
    OBVIOUS
  <1>1. /\ TypeOK /\ Coherent(main) /\ UpTo(main, latest) /\ RunOK /\ RequestOK
        /\ latest \in Versions /\ main \in Tree
    BY DEF IInv, TypeOK
  <1>2. CASE Release
    <2>1. latest \in Nat /\ latest + 1 \in Versions
      BY <1>1, <1>2, VersionAssumption DEF Release, Versions
    <2>2. TypeOK'  BY <1>1, <1>2, <2>1 DEF TypeOK, Release
    <2>3. UpTo(main, latest')
      BY <1>1, <1>2, <2>1, UpToLater DEF Release
    <2>4. RunOK'
      <3> SUFFICES ASSUME run # Idle
                   PROVE  /\ UpTo(run.tree, latest')
                          /\ run.phase # "resolve" => run.version <= latest'
        BY <1>1, <1>2 DEF RunOK, Release
      <3>1. UpTo(run.tree, latest')
        BY <1>1, <1>2, <2>1, UpToLater DEF RunOK, Release
      <3>2. run.phase # "resolve" => run.version \in Nat /\ run.version <= latest
        BY <1>1, RunType DEF RunOK, Versions
      <3> QED  BY <1>2, <2>1, <3>1, <3>2 DEF Release
    <2>5. RequestOK'
      BY <1>1, <1>2, <2>1, ProposalLater DEF RequestOK, Release
    <2> QED  BY <1>1, <1>2, <2>2, <2>3, <2>4, <2>5 DEF IInv, Release
  <1>3. ASSUME NEW v \in Versions, NEW w \in Wires, Drift(v, w) PROVE IInv'
    <2>1. TypeOK'
      <3>1. upsets' \in 0..MaxUpsets
        BY <1>1, <1>3, BoundAssumption DEF TypeOK, Drift
      <3>2. wire' \in [Versions -> Wires]
        BY <1>1, <1>3 DEF TypeOK, Drift
      <3> QED  BY <1>1, <1>3, <3>1, <3>2 DEF TypeOK, Drift
    <2> QED  BY <1>1, <1>3, <2>1 DEF IInv, Drift, RunOK, RequestOK
  <1>4. CASE Checkout
    <2>1. run'.tree = main /\ run'.phase = "resolve"
      BY <1>4 DEF Checkout
    <2>2. TypeOK'  BY <1>1, <1>4 DEF TypeOK, Checkout
    <2>3. RunOK'  BY <1>1, <1>4, <2>1 DEF RunOK, Checkout, Grown
    <2> QED  BY <1>1, <1>4, <2>2, <2>3 DEF IInv, Checkout, RequestOK
  <1>5. CASE Resolve
    <2>1. run # Idle  BY <1>5 DEF Resolve, Idle
    <2>2. Nothing \in Captures  BY DEF Nothing, Captures
    <2>3. /\ run'.tree = run.tree /\ run'.phase = "cli" /\ run'.version = latest
          /\ run'.caught = Nothing
      BY <1>5 DEF Resolve
    <2>4. TypeOK'
      BY <1>1, <1>5, <2>1, <2>2, RunType DEF TypeOK, Resolve, Surfaces
    <2>5. RunOK'
      <3>1. latest <= latest  BY <1>1 DEF Versions
      <3> QED  BY <1>1, <1>5, <2>1, <2>3, <3>1 DEF RunOK, Resolve
    <2> QED  BY <1>1, <1>5, <2>4, <2>5 DEF IInv, Resolve, RequestOK
  <1>6. ASSUME NEW s \in Surfaces, Capture(s) PROVE IInv'
    <2>1. run # Idle /\ run.phase # "resolve"  BY <1>6 DEF Capture, Idle, Surfaces
    <2>2. run \in [phase : Surfaces \cup {"publish"}, tree : Tree,
                   version : Versions, caught : Captures]
      BY <1>1, <2>1, RunType
    <2> DEFINE ph == IF s = "cli" THEN "sdk-cli" ELSE "publish"
               got == [run.caught EXCEPT ![s] = wire[run.version]]
    <2>3. run' = [run EXCEPT !.phase = ph, !.caught = got]
      BY <1>6 DEF Capture
    <2>4. ph \in Surfaces \cup {"publish"} /\ ph # "resolve"  BY DEF Surfaces
    <2>5. got \in Captures  BY <1>1, <2>2 DEF Captures, TypeOK
    <2> HIDE DEF ph, got
    <2>6. run' = [phase |-> ph, tree |-> run.tree, version |-> run.version, caught |-> got]
      BY <2>2, <2>3
    <2>7. run' \in [phase : Surfaces \cup {"publish"}, tree : Tree,
                   version : Versions, caught : Captures]
      BY <2>2, <2>4, <2>5, <2>6
    <2>8. TypeOK'  BY <1>1, <1>6, <2>7 DEF TypeOK, Capture
    <2>9. RunOK'  BY <1>1, <1>6, <2>1, <2>6 DEF RunOK, Capture
    <2> QED  BY <1>1, <1>6, <2>8, <2>9 DEF IInv, Capture, RequestOK
  <1>7. CASE CaptureFails
    <2>1. run # Idle /\ run.phase # "resolve"  BY <1>7 DEF CaptureFails, Idle, Surfaces
    <2>2. run \in [phase : Surfaces \cup {"publish"}, tree : Tree,
                   version : Versions, caught : Captures]
      BY <1>1, <2>1, RunType
    <2>3. run' = [phase |-> "publish", tree |-> run.tree, version |-> run.version,
                  caught |-> run.caught]
      BY <1>7, <2>2 DEF CaptureFails
    <2>4. TypeOK'  BY <1>1, <1>7, <2>2, <2>3 DEF TypeOK, CaptureFails
    <2>5. RunOK'  BY <1>1, <1>7, <2>1, <2>3 DEF RunOK, CaptureFails
    <2> QED  BY <1>1, <1>7, <2>4, <2>5 DEF IInv, CaptureFails, RequestOK
  <1>8. CASE Publish
    <2>1. run # Idle /\ run.phase # "resolve"  BY <1>8 DEF Publish, Idle
    <2>2. /\ run.tree \in Tree /\ run.version \in Versions /\ run.caught \in Captures
          /\ Coherent(run.tree) /\ Grown(run.tree, main)
          /\ run.version <= latest /\ UpTo(run.tree, run.version)
      BY <1>1, <2>1, RunType DEF RunOK
    <2> DEFINE staged == [Stage(run.tree, run.version, run.caught) EXCEPT !.baseline = run.version]
               head == Retarget(staged, run.version)
    <2>3. head \in Tree /\ Proposal(run.tree, head, latest)
      BY <2>2, PublishEffect
    <2> HIDE DEF head
    <2>4. pr' \in {pr, NoPR, [open |-> TRUE, parent |-> run.tree, head |-> head]}
      BY <1>8 DEF Publish, Published, head
    <2>5. green' \in 0..MaxVersion
      <3>1. green' \in {0, run.version}  BY <1>8 DEF Publish
      <3> QED  BY <2>2, <3>1, VersionAssumption DEF Versions
    <2>6. TypeOK'
      <3>1. pr' \in {NoPR} \cup [open : {TRUE}, parent : Tree, head : Tree]
        <4>1. pr \in {NoPR} \cup [open : {TRUE}, parent : Tree, head : Tree]
          BY <1>1 DEF TypeOK
        <4>2. [open |-> TRUE, parent |-> run.tree, head |-> head]
                \in [open : {TRUE}, parent : Tree, head : Tree]
          BY <2>2, <2>3
        <4> QED  BY <2>4, <4>1, <4>2
      <3> QED  BY <1>1, <1>8, <2>5, <3>1 DEF TypeOK, Publish
    <2>7. RequestOK'
      <3>1. CASE pr' = pr  BY <1>1, <1>8, <3>1 DEF RequestOK, Publish
      <3>2. CASE pr' = NoPR  BY <3>2 DEF RequestOK
      <3>3. CASE pr' = [open |-> TRUE, parent |-> run.tree, head |-> head]
        <4>1. pr'.parent = run.tree /\ pr'.head = head  BY <3>3
        <4> QED  BY <1>8, <2>2, <2>3, <4>1 DEF RequestOK, Publish
      <3> QED  BY <2>4, <3>1, <3>2, <3>3
    <2>8. RunOK'  BY <1>8 DEF RunOK, Publish
    <2> QED  BY <1>1, <1>8, <2>6, <2>7, <2>8 DEF IInv, Publish
  <1>9. CASE Abort
    <2>1. 0 \in 0..MaxVersion  BY VersionAssumption
    <2> QED  BY <1>1, <1>9, <2>1 DEF IInv, TypeOK, Abort, RunOK, RequestOK
  <1>10. CASE Merge
    <2>1. main' \in Tree /\ Grown(main, main') /\ Coherent(main') /\ UpTo(main', latest)
      BY <1>10, MergeMain
    <2>2. TypeOK'  BY <1>1, <1>10, <2>1 DEF TypeOK, Merge
    <2>3. RunOK'  BY <1>10, <2>1, MainGrows DEF Merge
    <2>4. RequestOK'  BY <1>10 DEF RequestOK, Merge
    <2> QED  BY <1>10, <2>1, <2>2, <2>3, <2>4 DEF IInv, Merge
  <1>11. ASSUME NEW p \in Pins, Refactor(p) PROVE IInv'
    <2>1. main' \in Tree /\ Grown(main, main') /\ Coherent(main') /\ UpTo(main', latest)
      BY <1>11, RefactorMain
    <2>2. TypeOK'
      <3>1. upsets' \in 0..MaxUpsets
        BY <1>1, <1>11, BoundAssumption DEF TypeOK, Refactor
      <3> QED  BY <1>1, <1>11, <2>1, <3>1 DEF TypeOK, Refactor
    <2>3. RunOK' /\ RequestOK'  BY <1>11, <2>1, MainGrows DEF Refactor
    <2> QED  BY <1>11, <2>1, <2>2, <2>3 DEF IInv, Refactor
  <1>12. CASE UNCHANGED vars
    BY <1>1, <1>12 DEF IInv, TypeOK, RunOK, RequestOK, vars
  <1> QED
    BY <1>2, <1>3, <1>4, <1>5, <1>6, <1>7, <1>8, <1>9, <1>10, <1>11, <1>12 DEF Next

LEMMA SpecInvariant == SafeSpec => []IInv
  BY InitInvariant, NextInvariant, PTL DEF SafeSpec

-----------------------------------------------------------------------------
(* Nothing goes back.  Main is never behind the checkout of a run nor the  *)
(* parent of the request, and neither it nor the request is ahead of the   *)
(* release that a run has resolved.  This is what turns what was published *)
(* in the last green run into something that still holds of main when it   *)
(* is merged.                                                              *)
Ahead(t, u) ==
  /\ t.baseline <= u.baseline
  /\ \A p \in Pins : t.pin[p].version <= u.pin[p].version

Within(t, v) == t.baseline <= v /\ UpTo(t, v)

AllWithin(v) == Within(main, v) /\ (pr # NoPR => Within(pr.head, v))

Ordered ==
  /\ AllWithin(latest)
  /\ run # Idle => Ahead(run.tree, main)
  /\ run # Idle /\ run.phase # "resolve" => AllWithin(run.version)
  /\ pr # NoPR => Ahead(pr.parent, main) /\ Ahead(pr.parent, pr.head)
  /\ green # 0 => AllWithin(green)

GreenInv == IInv /\ Ordered /\ GreenMeansCaptured

LEMMA TreeNumbers ==
  ASSUME NEW t \in Tree
  PROVE  t.baseline \in Nat /\ \A p \in Pins : t.pin[p].version \in Nat
  <1>1. t.baseline \in 0..MaxVersion  BY TreeType
  <1>2. \A p \in Pins : t.pin[p].version \in 1..MaxVersion  BY TreeType DEF Versions
  <1> QED  BY <1>1, <1>2, VersionAssumption

LEMMA AheadTransitive ==
  ASSUME NEW t \in Tree, NEW u \in Tree, NEW w \in Tree, Ahead(t, u), Ahead(u, w)
  PROVE  Ahead(t, w)
  <1>1. t.baseline <= w.baseline  BY TreeNumbers DEF Ahead
  <1>2. ASSUME NEW p \in Pins PROVE t.pin[p].version <= w.pin[p].version
    BY TreeNumbers DEF Ahead
  <1> QED  BY <1>1, <1>2 DEF Ahead

LEMMA AheadWithin ==
  ASSUME NEW t \in Tree, NEW u \in Tree, NEW v \in Nat, Ahead(t, u), Within(u, v)
  PROVE  Within(t, v)
  <1>1. t.baseline <= v  BY TreeNumbers DEF Ahead, Within
  <1>2. ASSUME NEW p \in Pins PROVE t.pin[p].version <= v
    BY TreeNumbers DEF Ahead, Within, UpTo
  <1> QED  BY <1>1, <1>2 DEF Within, UpTo

LEMMA WithinLater ==
  ASSUME NEW t \in Tree, NEW v \in Nat, NEW max \in Nat, v <= max, Within(t, v)
  PROVE  Within(t, max)
  <1>1. t.baseline <= max  BY TreeNumbers DEF Within
  <1> QED  BY <1>1, UpToLater DEF Within

\* What is ahead of a tree that targets v, and not ahead of v, targets v.
LEMMA TargetsKept ==
  ASSUME NEW t \in Tree, NEW u \in Tree, NEW v \in Nat,
         Targets(t, v), Ahead(t, u), Within(u, v)
  PROVE  Targets(u, v)
  <1> SUFFICES ASSUME NEW p \in Pins PROVE u.pin[p].version = v
    BY DEF Targets
  <1>1. /\ t.pin[p].version = v /\ t.pin[p].version <= u.pin[p].version
        /\ u.pin[p].version <= v
    BY DEF Targets, Ahead, Within, UpTo
  <1> QED  BY <1>1, TreeNumbers

LEMMA CapturedGrown ==
  ASSUME NEW t, NEW u, NEW v \in Versions, Captured(t, v), Grown(t, u)
  PROVE  Captured(u, v)
  BY DEF Captured, Grown, Files

(***************************************************************************)
(* A merge without a conflict is behind neither side.                      *)
(***************************************************************************)
LEMMA MergeAhead ==
  ASSUME NEW parent \in Tree, NEW head \in Tree, NEW ours \in Tree,
         Ahead(parent, head), Ahead(parent, ours), MergeClean(parent, head, ours)
  PROVE  LET m == MergeTrees(parent, head, ours)
         IN  /\ Ahead(ours, m) /\ Ahead(head, m)
             /\ \A v : Within(ours, v) /\ Within(head, v) => Within(m, v)
  <1> DEFINE m == MergeTrees(parent, head, ours)
  <1>1. /\ m.baseline = Merged(parent.baseline, head.baseline, ours.baseline)
        /\ \A p \in Pins : m.pin[p] = Merged(parent.pin[p], head.pin[p], ours.pin[p])
    BY DEF MergeTrees
  <1> HIDE DEF m
  <1>2. /\ ours.baseline <= m.baseline /\ head.baseline <= m.baseline
        /\ m.baseline \in {ours.baseline, head.baseline}
    <2>1. /\ parent.baseline <= head.baseline /\ parent.baseline <= ours.baseline
          /\ head.baseline = parent.baseline \/ ours.baseline \in {parent.baseline, head.baseline}
      BY DEF Ahead, MergeClean, Clean
    <2>2. ours.baseline \in Nat /\ head.baseline \in Nat /\ parent.baseline \in Nat
      BY TreeNumbers
    <2> QED  BY <1>1, <2>1, <2>2 DEF Merged
  <1>3. ASSUME NEW p \in Pins
        PROVE  /\ ours.pin[p].version <= m.pin[p].version
               /\ head.pin[p].version <= m.pin[p].version
               /\ m.pin[p].version \in {ours.pin[p].version, head.pin[p].version}
    <2>1. /\ parent.pin[p].version <= head.pin[p].version
          /\ parent.pin[p].version <= ours.pin[p].version
          /\ head.pin[p] = parent.pin[p] \/ ours.pin[p] \in {parent.pin[p], head.pin[p]}
      BY DEF Ahead, MergeClean, Clean
    <2>2. /\ ours.pin[p].version \in Nat /\ head.pin[p].version \in Nat
          /\ parent.pin[p].version \in Nat
      BY TreeNumbers
    <2>3. CASE head.pin[p] = parent.pin[p]
      <3>1. m.pin[p] = ours.pin[p]  BY <1>1, <2>3 DEF Merged
      <3>2. m.pin[p].version = ours.pin[p].version
            /\ head.pin[p].version = parent.pin[p].version
        BY <3>1, <2>3
      <3> QED  BY <3>2, <2>1, <2>2
    <2>4. CASE head.pin[p] # parent.pin[p]
      <3>1. m.pin[p] = head.pin[p]  BY <1>1, <2>4 DEF Merged
      <3>2. m.pin[p].version = head.pin[p].version  BY <3>1
      <3>3. ours.pin[p].version \in {parent.pin[p].version, head.pin[p].version}
        BY <2>1, <2>4
      <3> QED  BY <3>2, <3>3, <2>1, <2>2
    <2> QED  BY <2>3, <2>4
  <1>4. Ahead(ours, m) /\ Ahead(head, m)
    BY <1>2, <1>3 DEF Ahead
  <1>5. ASSUME NEW v, Within(ours, v), Within(head, v) PROVE Within(m, v)
    <2>1. m.baseline <= v  BY <1>2, <1>5 DEF Within
    <2>2. ASSUME NEW p \in Pins PROVE m.pin[p].version <= v
      BY <1>3, <1>5 DEF Within, UpTo
    <2> QED  BY <2>1, <2>2 DEF Within, UpTo
  <1> QED  BY <1>4, <1>5 DEF m

(***************************************************************************)
(* Where a published head stands.                                          *)
(***************************************************************************)
LEMMA PublishAhead ==
  ASSUME NEW t \in Tree, NEW v \in Versions, NEW caught, Within(t, v)
  PROVE  LET staged == [Stage(t, v, caught) EXCEPT !.baseline = v]
             head   == Retarget(staged, v)
         IN  /\ Ahead(t, head) /\ Within(head, v)
             /\ CanRetarget(staged, v) => Targets(head, v)
  <1> DEFINE f == [x \in Versions \X Surfaces |->
                     IF x[1] = v /\ t.fixture[x] = Absent
                     THEN caught[x[2]] ELSE t.fixture[x]]
             staged == [Stage(t, v, caught) EXCEPT !.baseline = v]
             head == Retarget(staged, v)
  <1>1. staged = [baseline |-> v, fixture |-> f, pin |-> t.pin]
    <2>1. staged = [[t EXCEPT !.fixture = f] EXCEPT !.baseline = v]
      BY DEF Stage
    <2> HIDE DEF f, staged
    <2>2. [t EXCEPT !.fixture = f] = [baseline |-> t.baseline, fixture |-> f, pin |-> t.pin]
      BY DEF Tree
    <2> QED  BY <2>1, <2>2
  <1> HIDE DEF f, staged
  <1>2. v \in Nat  BY DEF Versions
  <1>3. t.baseline <= v /\ \A p \in Pins : t.pin[p].version <= v
    BY DEF Within, UpTo
  <1>4. CASE ~ CanRetarget(staged, v)
    <2>1. head = staged  BY <1>4 DEF Retarget
    <2>2. head.baseline = v /\ head.pin = t.pin  BY <1>1, <2>1
    <2> HIDE DEF head
    <2>3. Ahead(t, head)  BY <1>3, <2>2, TreeNumbers DEF Ahead
    <2>4. Within(head, v)  BY <1>2, <1>3, <2>2 DEF Within, UpTo
    <2> QED  BY <1>4, <2>3, <2>4 DEF head, staged
  <1>5. CASE CanRetarget(staged, v)
    <2> DEFINE g == [p \in Pins |->
                       [version |-> v, wire |-> staged.fixture[<<v, "cli">>], found |-> TRUE]]
    <2>1. head = [staged EXCEPT !.pin = g]  BY <1>5 DEF Retarget, Retargeted
    <2>2. \A p \in Pins : g[p].version = v  OBVIOUS
    <2> HIDE DEF g, head
    <2>3. head = [baseline |-> v, fixture |-> f, pin |-> g]  BY <1>1, <2>1
    <2>4. head.baseline = v /\ \A p \in Pins : head.pin[p].version = v
      BY <2>2, <2>3
    <2>5. Ahead(t, head)  BY <1>3, <2>4 DEF Ahead
    <2>6. Within(head, v)  BY <1>2, <2>4 DEF Within, UpTo
    <2>7. Targets(head, v)  BY <2>4 DEF Targets
    <2> QED  BY <2>5, <2>6, <2>7 DEF head, staged
  <1> QED  BY <1>4, <1>5

LEMMA InitGreen == Init => GreenInv
  <1> SUFFICES ASSUME Init PROVE GreenInv
    OBVIOUS
  <1>1. IInv  BY InitInvariant
  <1>2. main.baseline = 0 /\ latest = 1 /\ run = Idle /\ pr = NoPR /\ green = 0
    BY DEF Init
  <1>3. Within(main, latest)
    BY <1>1, <1>2 DEF IInv, Within
  <1> QED  BY <1>1, <1>2, <1>3 DEF GreenInv, Ordered, AllWithin, GreenMeansCaptured

LEMMA NextGreen == GreenInv /\ IInv' /\ [Next]_vars => GreenInv'
  <1> SUFFICES ASSUME GreenInv, IInv', [Next]_vars PROVE Ordered' /\ GreenMeansCaptured'
    BY DEF GreenInv
  <1>1. /\ IInv /\ TypeOK /\ RunOK /\ RequestOK /\ Ordered /\ GreenMeansCaptured
        /\ main \in Tree /\ main' \in Tree
        /\ latest \in Versions /\ latest \in Nat /\ green \in Nat
    <2>1. IInv /\ TypeOK /\ RunOK /\ RequestOK /\ Ordered /\ GreenMeansCaptured
      BY DEF GreenInv, IInv
    <2>2. main \in Tree /\ latest \in 1..MaxVersion /\ green \in 0..MaxVersion
      BY <2>1 DEF TypeOK, Versions
    <2>3. main' \in Tree  BY DEF IInv, TypeOK
    <2> QED  BY <2>1, <2>2, <2>3, VersionAssumption DEF Versions
  <1>2. /\ run # Idle => run.tree \in Tree
        /\ run # Idle /\ run.phase # "resolve" => run.version \in Versions
        /\ pr # NoPR => pr.parent \in Tree /\ pr.head \in Tree
        /\ pr.open <=> pr # NoPR
    BY <1>1, RunType, RequestType
  <1>3. CASE Release
    <2>1. latest' = latest + 1 /\ UNCHANGED <<main, run, pr, green>>
      BY <1>3 DEF Release
    <2>2. AllWithin(latest)'
      <3>1. Within(main, latest + 1)
        BY <1>1, WithinLater DEF Ordered, AllWithin
      <3>2. pr # NoPR => Within(pr.head, latest + 1)
        BY <1>1, <1>2, WithinLater DEF Ordered, AllWithin
      <3> QED  BY <2>1, <3>1, <3>2 DEF AllWithin
    <2> QED  BY <1>1, <2>1, <2>2 DEF Ordered, AllWithin, GreenMeansCaptured
  <1>4. CASE Checkout
    <2>1. /\ UNCHANGED <<latest, main, pr, green>>
          /\ run'.tree = main /\ run'.phase = "resolve"
      BY <1>4 DEF Checkout
    <2>2. Ahead(main, main)  BY <1>1, TreeNumbers DEF Ahead
    <2> QED  BY <1>1, <2>1, <2>2 DEF Ordered, AllWithin, GreenMeansCaptured
  <1>5. CASE Resolve
    <2>1. /\ UNCHANGED <<latest, main, pr, green>> /\ run # Idle
          /\ run'.tree = run.tree /\ run'.version = latest
      BY <1>5 DEF Resolve, Idle
    <2> QED  BY <1>1, <2>1 DEF Ordered, AllWithin, GreenMeansCaptured
  <1>6. ASSUME UNCHANGED <<latest, main, pr, green>>, run # Idle, run.phase # "resolve",
               run'.tree = run.tree, run'.version = run.version
        PROVE  Ordered' /\ GreenMeansCaptured'
    BY <1>1, <1>6 DEF Ordered, AllWithin, GreenMeansCaptured
  <1>7. ASSUME NEW s \in Surfaces, Capture(s) PROVE Ordered' /\ GreenMeansCaptured'
    <2>1. run # Idle /\ run.phase # "resolve"  BY <1>7 DEF Capture, Idle, Surfaces
    <2>2. run \in [phase : Surfaces \cup {"publish"}, tree : Tree,
                   version : Versions, caught : Captures]
      BY <1>1, <2>1, RunType
    <2>3. run'.tree = run.tree /\ run'.version = run.version
      BY <1>7, <2>2 DEF Capture
    <2>4. UNCHANGED <<latest, main, pr, green>>  BY <1>7 DEF Capture
    <2> QED  BY <1>6, <2>1, <2>3, <2>4
  <1>8. CASE CaptureFails
    <2>1. run # Idle /\ run.phase # "resolve"  BY <1>8 DEF CaptureFails, Idle, Surfaces
    <2>2. run \in [phase : Surfaces \cup {"publish"}, tree : Tree,
                   version : Versions, caught : Captures]
      BY <1>1, <2>1, RunType
    <2>3. run'.tree = run.tree /\ run'.version = run.version
      BY <1>8, <2>2 DEF CaptureFails
    <2>4. UNCHANGED <<latest, main, pr, green>>  BY <1>8 DEF CaptureFails
    <2> QED  BY <1>6, <2>1, <2>3, <2>4
  <1>9. CASE Publish
    <2> DEFINE t == run.tree
               v == run.version
               staged == [Stage(t, v, run.caught) EXCEPT !.baseline = v]
               head == Retarget(staged, v)
               wired == Drifted(t, v, run.caught)
    <2>1. run # Idle /\ run.phase # "resolve"  BY <1>9 DEF Publish, Idle
    <2>2. /\ t \in Tree /\ v \in Versions /\ v \in Nat /\ v # 0 /\ v <= latest
          /\ Ahead(t, main) /\ AllWithin(v) /\ Grown(t, main)
      BY <1>1, <1>2, <2>1 DEF Ordered, RunOK, Versions
    <2>3. Within(t, v)
      BY <1>1, <2>2, AheadWithin DEF AllWithin
    <2>4. /\ Ahead(t, head) /\ Within(head, v)
          /\ CanRetarget(staged, v) => Targets(head, v)
      BY <2>2, <2>3, PublishAhead
    <2>5. /\ UNCHANGED <<latest, main>> /\ run' = Idle
          /\ pr' = Published(t.baseline # v, wired, t, head)
      BY <1>9 DEF Publish
    <2>6. green' # 0 =>
            /\ green' = v /\ CanRetarget(staged, v)
            /\ \A s \in Surfaces : run.caught[s] # Absent
      BY <1>9 DEF Publish, Green
    <2> HIDE DEF head, staged
    <2>7. CASE t.baseline = v /\ ~ wired
      <3>1. pr' = pr  BY <2>5, <2>7 DEF Published
      <3>2. Ordered'
        BY <1>1, <2>2, <2>5, <2>6, <3>1 DEF Ordered, AllWithin
      <3>3. ASSUME green' # 0 PROVE Captured(main, v) /\ main.baseline = v
        <4>1. Captured(t, v)
          BY <2>6, <2>7, <3>3 DEF Captured, Drifted
        <4>2. Captured(main, v)  BY <2>2, <4>1, CapturedGrown
        <4>3. v <= main.baseline /\ main.baseline <= v
          BY <2>2, <2>7 DEF Ahead, AllWithin, Within
        <4>4. main.baseline \in Nat  BY <1>1, TreeNumbers
        <4> QED  BY <2>2, <4>2, <4>3, <4>4
      <3> QED  BY <2>5, <2>6, <3>2, <3>3 DEF GreenMeansCaptured
    <2>8. CASE ~ (t.baseline = v /\ ~ wired) /\ head = t
      <3>1. pr' = NoPR  BY <2>5, <2>8 DEF Published
      <3>2. Ordered'
        BY <1>1, <2>2, <2>5, <2>6, <3>1 DEF Ordered, AllWithin
      <3>3. ASSUME green' # 0 PROVE Targets(main, v)
        <4>1. Targets(t, v)  BY <2>4, <2>6, <2>8, <3>3
        <4> QED  BY <1>1, <2>2, <4>1, TargetsKept DEF AllWithin
      <3> QED  BY <2>5, <2>6, <3>2, <3>3 DEF GreenMeansCaptured
    <2>9. CASE ~ (t.baseline = v /\ ~ wired) /\ head # t
      <3>1. pr' = [open |-> TRUE, parent |-> t, head |-> head]
        BY <2>5, <2>9 DEF Published
      <3>2. pr'.open = TRUE /\ pr'.parent = t /\ pr'.head = head
        BY <3>1
      <3>3. head \in Tree
        <4>1. pr' # NoPR  BY <3>2 DEF NoPR
        <4>2. TypeOK'  BY DEF IInv
        <4>3. pr' \in {NoPR} \cup [open : {TRUE}, parent : Tree, head : Tree]
          BY <4>2 DEF TypeOK
        <4>4. pr' \in [open : {TRUE}, parent : Tree, head : Tree]
          BY <4>1, <4>3
        <4> QED  BY <3>2, <4>4
      <3>4. Within(head, latest)
        BY <1>1, <2>2, <2>4, <3>3, WithinLater
      <3>5. Ordered'
        BY <1>1, <2>2, <2>4, <2>5, <2>6, <3>2, <3>4 DEF Ordered, AllWithin
      <3>6. green' # 0 => Targets(pr'.head, green')
        BY <2>4, <2>6, <3>2
      <3> QED  BY <3>2, <3>5, <3>6 DEF GreenMeansCaptured
    <2> QED  BY <2>7, <2>8, <2>9
  <1>10. CASE Abort
    BY <1>1, <1>10 DEF Abort, Ordered, AllWithin, GreenMeansCaptured
  <1>11. CASE Merge
    <2>1. /\ pr # NoPR /\ pr' = NoPR /\ UNCHANGED <<latest, run, green>>
          /\ main' = MergeTrees(pr.parent, pr.head, main)
          /\ MergeClean(pr.parent, pr.head, main)
      BY <1>2, <1>11 DEF Merge
    <2>2. /\ Ahead(main, main') /\ Ahead(pr.head, main')
          /\ \A v : Within(main, v) /\ Within(pr.head, v) => Within(main', v)
      BY <1>1, <1>2, <2>1, MergeAhead DEF Ordered
    <2>3. Grown(main, main')  BY <1>1, <1>11, MergeMain
    <2>4. \A v : AllWithin(v) => AllWithin(v)'
      BY <2>1, <2>2 DEF AllWithin
    <2>5. run # Idle => Ahead(run.tree, main')
      BY <1>1, <1>2, <2>2, AheadTransitive DEF Ordered
    <2>6. Ordered'
      BY <1>1, <2>1, <2>4, <2>5 DEF Ordered
    <2>7. ASSUME green # 0
          PROVE  \/ Targets(main', green)
                 \/ Captured(main', green) /\ main'.baseline = green
      <3>1. Within(main', green)
        BY <1>1, <2>1, <2>4, <2>7 DEF Ordered, AllWithin
      <3>2. CASE Targets(main, green)
        BY <1>1, <2>2, <3>1, <3>2, TargetsKept
      <3>3. CASE Targets(pr.head, green)
        BY <1>1, <1>2, <2>1, <2>2, <3>1, <3>3, TargetsKept
      <3>4. CASE Captured(main, green) /\ main.baseline = green
        <4>1. green \in Versions
          BY <1>1, <2>7 DEF TypeOK, Versions
        <4>2. Captured(main', green)  BY <2>3, <3>4, <4>1, CapturedGrown
        <4>3. green <= main'.baseline /\ main'.baseline <= green
          BY <2>2, <3>1, <3>4 DEF Ahead, Within
        <4>4. main'.baseline \in Nat  BY <1>1, TreeNumbers
        <4> QED  BY <1>1, <4>2, <4>3, <4>4
      <3> QED  BY <1>1, <2>7, <3>2, <3>3, <3>4 DEF GreenMeansCaptured
    <2> QED  BY <2>1, <2>6, <2>7 DEF GreenMeansCaptured
  <1>12. ASSUME NEW p \in Pins, Refactor(p) PROVE Ordered' /\ GreenMeansCaptured'
    <2>1. UNCHANGED <<latest, run, pr, green>>  BY <1>12 DEF Refactor
    <2>2. /\ main'.fixture = main.fixture /\ main'.baseline = main.baseline
          /\ \A q \in Pins : main'.pin[q].version = main.pin[q].version
      BY <1>1, <1>12, RefactorMain
    <2>3. \A v : Within(main, v) => Within(main', v)
      BY <2>2 DEF Within, UpTo
    <2>4. \A t : Ahead(t, main) => Ahead(t, main')
      BY <2>2 DEF Ahead
    <2>5. Ordered'
      BY <1>1, <2>1, <2>3, <2>4 DEF Ordered, AllWithin
    <2> QED  BY <1>1, <2>1, <2>2, <2>5 DEF GreenMeansCaptured, Targets, Captured
  <1>13. CASE UNCHANGED <<latest, main, run, pr, green>>
    BY <1>1, <1>13 DEF Ordered, AllWithin, GreenMeansCaptured
  <1>14. ASSUME NEW v \in Versions, NEW w \in Wires, Drift(v, w)
         PROVE  Ordered' /\ GreenMeansCaptured'
    BY <1>13, <1>14 DEF Drift
  <1>15. CASE UNCHANGED vars
    BY <1>13, <1>15 DEF vars
  <1> QED
    BY <1>3, <1>4, <1>5, <1>7, <1>8, <1>9, <1>10, <1>11, <1>12, <1>14, <1>15 DEF Next

(***************************************************************************)
(* The colour of a run says what it did: after a green run main or the     *)
(* request targets its release, or no request was due, through any merges  *)
(* and refactorings since.                                                 *)
(***************************************************************************)
THEOREM NightlyGreenMeansCaptured == SafeSpec => []GreenMeansCaptured
  <1>1. GreenInv => GreenMeansCaptured  BY DEF GreenInv
  <1> QED  BY InitGreen, NextGreen, SpecInvariant, <1>1, PTL DEF SafeSpec

-----------------------------------------------------------------------------
(***************************************************************************)
(* The type invariant.                                                     *)
(***************************************************************************)
THEOREM NightlyTypeOK == SafeSpec => []TypeOK
  <1>1. IInv => TypeOK  BY DEF IInv
  <1> QED  BY SpecInvariant, <1>1, PTL

(***************************************************************************)
(* However runs fail and whatever is merged, and for every number of       *)
(* pinned places: retargeting never leaves main half-way.                  *)
(***************************************************************************)
THEOREM NightlyPinsFaithful == SafeSpec => []PinsFaithful
  <1>1. IInv => PinsFaithful  BY DEF IInv, PinsFaithful, Coherent
  <1> QED  BY SpecInvariant, <1>1, PTL

-----------------------------------------------------------------------------
(***************************************************************************)
(* The refinement.                                                         *)
(***************************************************************************)
Target == [version |-> main.pin[APin].version, wire |-> main.pin[APin].wire]

LEMMA APinType ==
  ASSUME NEW t \in Tree
  PROVE  /\ APin \in Pins
         /\ t.pin[APin] \in [version : Versions, wire : Wires, found : BOOLEAN]
  <1>1. APin \in Pins  BY PinsAssumption DEF APin
  <1> QED  BY <1>1, TreeType

LEMMA HistoryInit == IInv => History!Init
  <1> SUFFICES ASSUME IInv PROVE History!Init
    OBVIOUS
  <1>1. main \in Tree /\ Coherent(main)  BY DEF IInv, TypeOK
  <1>2. main.fixture \in [Versions \X Surfaces -> Wires \cup {Absent}]
    BY <1>1, TreeType DEF Files
  <1>3. Target \in [version : Versions, wire : Wires]
    BY <1>1, APinType DEF Target
  <1>4. \A s \in Surfaces : main.fixture[<<Target.version, s>>] = Target.wire
    BY <1>1, APinType DEF Target, Coherent
  <1> QED  BY <1>2, <1>3, <1>4 DEF History!Init, Target

LEMMA HistoryStep == IInv /\ IInv' /\ [Next]_vars => [History!Next]_(History!vars)
  <1> SUFFICES ASSUME IInv, IInv', [Next]_vars PROVE [History!Next]_(History!vars)
    OBVIOUS
  <1>1. main \in Tree /\ main' \in Tree /\ Coherent(main')
    BY DEF IInv, TypeOK
  <1>2. CASE UNCHANGED main
    <2>1. UNCHANGED <<main.fixture, Target>>  BY <1>2 DEF Target, APin
    <2> QED  BY <2>1 DEF History!vars, Target
  <1>3. CASE Merge
    <2>1. Grown(main, main')  BY <1>3, MergeMain
    <2>2. History!Commit
      BY <1>1, <2>1, TreeType DEF History!Commit, Grown, Files
    <2>3. CASE main'.pin = main.pin
      <3>1. UNCHANGED Target  BY <2>3 DEF Target, APin
      <3> QED  BY <2>2, <3>1 DEF History!Next, Target
    <2>4. CASE main'.pin # main.pin
      <3>1. PICK v \in Versions, w \in Wires :
              Moved(main', v, w) /\ \A p \in Pins : main.pin[p].version < v
        BY <1>3, <2>4, MergeMain
      <3>2. APin \in Pins /\ APin' = APin  BY <1>1, APinType DEF APin
      <3>3. main'.pin[APin] = [version |-> v, wire |-> w, found |-> TRUE]
        BY <3>1, <3>2 DEF Moved
      <3>4. Target' = [version |-> v, wire |-> w]
        BY <3>2, <3>3 DEF Target
      <3>5. Target.version < v  BY <3>1, <3>2 DEF Target
      <3>6. v > Target.version
        <4>1. Target.version \in Nat /\ v \in Nat
          BY <1>1, APinType DEF Target, Versions
        <4> QED  BY <3>5, <4>1
      <3>7. \A s \in Surfaces : main'.fixture[<<v, s>>] = w
        BY <3>1 DEF Moved
      <3>8. History!Move
        BY <3>4, <3>6, <3>7 DEF History!Move, Target
      <3> QED  BY <2>2, <3>8 DEF History!Next
    <2> QED  BY <2>3, <2>4
  <1>4. ASSUME NEW p \in Pins, Refactor(p) PROVE UNCHANGED History!vars
    <2>1. /\ main'.fixture = main.fixture
          /\ \A q \in Pins : /\ main'.pin[q].version = main.pin[q].version
                             /\ main'.pin[q].wire = main.pin[q].wire
      BY <1>4, RefactorMain
    <2>2. APin \in Pins /\ APin' = APin  BY <1>1, APinType DEF APin
    <2> QED  BY <2>1, <2>2 DEF History!vars
  <1>5. UNCHANGED main \/ Merge \/ \E p \in Pins : Refactor(p)
    BY DEF Next, vars, Release, Drift, Checkout, Resolve, CaptureFails, Publish,
           Abort, Capture
  <1> QED  BY <1>2, <1>3, <1>4, <1>5

(***************************************************************************)
(* Main implements FingerprintHistory: captures are never overwritten, and *)
(* the target moves only forward.                                          *)
(***************************************************************************)
THEOREM NightlyKeepsHistory == SafeSpec => KeepsHistory
  <1>1. SafeSpec => History!Init
    <2>1. Init => History!Init  BY InitInvariant, HistoryInit
    <2> QED  BY <2>1 DEF SafeSpec
  <1>2. SafeSpec => [][History!Next]_(History!vars)
    BY SpecInvariant, HistoryStep, PTL DEF SafeSpec
  <1> QED  BY <1>1, <1>2, PTL DEF KeepsHistory, History!Spec
=============================================================================
