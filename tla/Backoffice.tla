----------------------------- MODULE Backoffice -----------------------------
(***************************************************************************)
(* The web application: the operators' commands to the cameras             *)
(* (DesiredState) and the incidents that come back (IncidentRouting).      *)
(* They live in one database and one set of web workers but share no row,  *)
(* so one behaviour follows one of them and the other is at rest.          *)
(***************************************************************************)
EXTENDS DesiredState, IncidentRouting

CONSTANTS Areas,             \* subset of {"cameras", "incidents"}
          AtRest               \* setup of the incidents that are not followed

ASSUME AreasAssumption == Areas \subseteq {"cameras", "incidents"}

VARIABLE area

backofficeVars == <<vars, routingVars, area>>

BackofficeInit ==
  /\ Init /\ RoutingInit /\ area \in Areas
  /\ IF area = "cameras" THEN routing = AtRest ELSE db = NoCameras /\ routing # AtRest

CamerasNext == area = "cameras" /\ Next /\ UNCHANGED <<routingVars, area>>
IncidentsNext == area = "incidents" /\ RoutingNext /\ UNCHANGED <<vars, area>>
BackofficeNext == CamerasNext \/ IncidentsNext

\* run_service ticks for ever, a web request gets on with what it began, and
\* run_incident_dispatcher ticks every few seconds.
CamerasFair(A) == area = "cameras" /\ A /\ UNCHANGED <<routingVars, area>>
BackofficeSpec ==
  /\ BackofficeInit /\ [][BackofficeNext]_backofficeVars
  /\ WF_backofficeVars(CamerasFair(TickBegins))
  /\ \A p \in Callers : WF_backofficeVars(CamerasFair(CallerStep(p)))
  /\ WF_backofficeVars(area = "incidents" /\ Dispatcher /\ UNCHANGED <<vars, area>>)
=============================================================================
