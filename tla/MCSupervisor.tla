---------------------------- MODULE MCSupervisor ----------------------------
(* The runtime processes are model values.                                  *)
EXTENDS Supervisor, TLC
=============================================================================
