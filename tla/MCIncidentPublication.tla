----------------------- MODULE MCIncidentPublication -----------------------
(* The two cameras are alike, so the one that enters the slot first has a name: *)
(* the runs in which the other one does are the same under another name.        *)
EXTENDS IncidentPublication

CONSTANT First

FirstIsFirst == \A s \in Slots : gen[s] = 1 /\ tenant[s] # None => tenant[s].camera = First
=============================================================================
