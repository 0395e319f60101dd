------------------------------- MODULE Picking -------------------------------
(* The members of a sequence at a set of positions, in their order: what a *)
(* loop that skips the others appends.  (By position and not by recursion, *)
(* so that it can be reasoned about.)                                      *)
EXTENDS Integers, FiniteSets

\* The k-th of a set of positions.
Place(places, k) ==
  CHOOSE i \in places : Cardinality({j \in places : j <= i}) = k

Picked(s, places) == [k \in 1..Cardinality(places) |-> s[Place(places, k)]]
=============================================================================
