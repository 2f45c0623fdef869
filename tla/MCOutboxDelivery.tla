-------------------------- MODULE MCOutboxDelivery --------------------------
(* e1 and e2 are two envelopes about one incident; e3 belongs to an offline   *)
(* run.                                                                       *)
EXTENDS OutboxDelivery

CONSTANTS e1, e2, e3
MCExternal == [e \in Events |-> IF e \in {e1, e2} THEN "x1" ELSE "x3"]
MCOwner    == [e \in Events |-> IF e = e3 THEN "run" ELSE "camera"]
MCOffline  == {e3}
=============================================================================
