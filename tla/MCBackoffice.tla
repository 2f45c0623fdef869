---------------------------- MODULE MCBackoffice ----------------------------
(* One camera; two units, of which one is central, and three locations, a   *)
(* camera of an incident in the lowest.                                      *)
EXTENDS Backoffice, TLC

CONSTANTS top, mid, low, guard, central, op

MCCoverages == <<[unit |-> guard, loc |-> mid, deep |-> TRUE], [unit |-> central, loc |-> top, deep |-> TRUE]>>
\* The camera's own location comes first, and what is above it, with all below, later.
ShallowFirst == <<[unit |-> guard, loc |-> mid, deep |-> FALSE], [unit |-> guard, loc |-> top, deep |-> TRUE]>>
MCRules == {[unit |-> guard, stage |-> 0, delay |-> 0], [unit |-> central, stage |-> 1, delay |-> 1]}

Line == (low :> mid) @@ (mid :> top) @@ (top :> NoLocation)
Two == (low :> mid) @@ (mid :> NoLocation) @@ (top :> NoLocation)
Setup(tree, bound, arrive, live, batch) ==
  [tree |-> tree, staff |-> Units, edits |-> bound, arrive |-> arrive, live |-> live, batch |-> batch,
   place |-> [i \in Incidents |-> low]]
MCAtRest == [Setup(Line, 0, {}, {}, 1) EXCEPT !.staff = {}]
MCRoutingSetups == {MCAtRest} \cup
  {Setup(Line, 0, {1, 2}, {1, 2}, 1), Setup(Line, 0, {1, 2}, {1}, 2),
   Setup(Line, 1, {1}, {1}, 1), Setup(Two, 2, {}, {}, 1)}
\* Nobody is assigned to a unit yet.
ScopeSetups == {[MCAtRest EXCEPT !.edits = 1]}
=============================================================================
