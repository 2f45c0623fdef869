---- MODULE MCOfflineJobs ----
(* An analysis with both consumers, then one of Speed alone, whose drain      *)
(* marker takes the shorter way.                                              *)
EXTENDS OfflineJobs
MCKind == <<"BOTH", "SPEED">>
MCResults == <<1, 0>>

(* The pass of a Speed start overlaps the reconciler either while one run is  *)
(* known, with a cancel click and a lost parent, or with two runs and neither *)
(* of these.                                                                  *)
Scope ==
    \/ step["start"] = "idle"
    \/ row[2].state = "ABSENT"
    \/ launches <= 1 /\ cancels = 0
====
