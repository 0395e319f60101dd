-------------------------- MODULE TransparentNames --------------------------
(***************************************************************************)
(* What the native route promises a client, with no store, no config and   *)
(* no renaming in sight (README.md and SPEC-001 of the repository: "tool   *)
(* names are restored in responses").  A request has some tools; while it  *)
(* is open the client may be told to use any of them, under its own name   *)
(* for it.  The one excuse is age: once Capacity later requests have been  *)
(* admitted with a renaming, the client may be told an alias instead, and  *)
(* it may never be told anything else.                                     *)
(***************************************************************************)
EXTENDS Integers

CONSTANTS
  Requests,
  Slots,     \* positions a tool may have in a request
  Capacity   \* how many renamed requests are remembered

VARIABLES
  phase,   \* request -> "idle", "sent" or "done"
  tools,   \* request -> the positions of its tools
  told,    \* request -> {<<position, "own" or "alias">>}
  behind   \* request -> renamed requests admitted after it (capped)

vars == <<phase, tools, told, behind>>

Older(n) == IF n < Capacity THEN n + 1 ELSE n

Init ==
  /\ phase = [r \in Requests |-> "idle"]
  /\ tools = [r \in Requests |-> {}]
  /\ told = [r \in Requests |-> {}]
  /\ behind = [r \in Requests |-> 0]

\* A request is admitted; admitting one with a renaming ages all the others.
Admit(r) ==
  /\ phase[r] = "idle"
  /\ phase' = [phase EXCEPT ![r] = "sent"]
  /\ \E T \in SUBSET Slots : tools' = [tools EXCEPT ![r] = T]
  /\ \/ behind' = behind
     \/ behind' = [q \in Requests |-> IF q = r THEN 0 ELSE Older(behind[q])]
  /\ UNCHANGED told

\* The client is told to use tool i, in the last part of a response or not.
Tell(r, i, how) ==
  /\ phase[r] = "sent" /\ i \in tools[r]
  /\ how = "alias" => behind[r] = Capacity
  /\ told' = [told EXCEPT ![r] = @ \cup {<<i, how>>}]
  /\ phase' \in {phase, [phase EXCEPT ![r] = "done"]}
  /\ UNCHANGED <<tools, behind>>

\* The response ends without a further mention.
Close(r) ==
  /\ phase[r] = "sent"
  /\ phase' = [phase EXCEPT ![r] = "done"]
  /\ UNCHANGED <<tools, told, behind>>

Next ==
  \E r \in Requests :
    \/ Admit(r) \/ Close(r)
    \/ \E i \in Slots, how \in {"own", "alias"} : Tell(r, i, how)

Spec == Init /\ [][Next]_vars
=============================================================================
