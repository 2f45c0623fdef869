-------------------------- MODULE MCAdmissionQueue --------------------------
(* Slot 0, which also carries the sentinel, belongs to an ordered FILE; the   *)
(* other slot to a LIVE camera.                                               *)
EXTENDS AdmissionQueue

MCOrdered == {0}
=============================================================================
