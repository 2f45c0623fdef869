-------------------------- MODULE IncidentRouting --------------------------
(***************************************************************************)
(* An imported incident (incidents/services): it is routed to the security *)
(* units that cover its camera, when it is imported and by every tick of   *)
(* the dispatcher, stage by stage as the delays of the rules run out; the  *)
(* first operator who acknowledges it ends that, and it is resolved.       *)
(* A transaction is one step; SQLite lets one write at a time, and an      *)
(* acknowledgement that finds the database busy is tried again.            *)
(***************************************************************************)
EXTENDS SecurityScope

CONSTANTS Incidents, NoUnit,
          Rules,               \* records [unit, stage, delay]
          MaxTime,             \* bound on the clock
          RoutingSetups        \* tree, staff, edits, the incidents that arrive, their place, live ones, batch size

ASSUME RoutingAssumption ==
  /\ NoUnit \notin Units /\ IsFiniteSet(Units) /\ MaxTime \in Nat
  /\ Rules \subseteq [unit : Units, stage : Nat, delay : Nat] /\ IsFiniteSet(Rules)
  /\ \A setup \in RoutingSetups : setup.tree \in [Locations -> Locations \cup {NoLocation}]

VARIABLES routing,             \* the setup
          now, rulesOn,        \* active rules
          incident,            \* the rows: incident, its routes, its audit events
          tick,                \* the dispatcher, with what its tick has read
          posted               \* what an operator has asked for

routingVars == <<scopeVars, routing, now, rulesOn, incident, tick, posted>>

Absent == [status |-> "absent", started |-> 0, state |-> "PENDING", routes |-> {}, by |-> NoUnit,
           audit |-> <<>>]
Asleep == [at |-> "idle", list |-> <<>>, time |-> 0, units |-> [i \in Incidents |-> {}], rules |-> {}, central |-> {}]
Nothing == [act |-> "none", incident |-> CHOOSE i \in Incidents : TRUE, unit |-> NoUnit]

RoutingInit ==
  /\ routing \in RoutingSetups /\ ScopeInit(routing.tree, routing.staff, routing.edits)
  /\ now = 0 /\ rulesOn = Rules /\ incident = [i \in Incidents |-> Absent]
  /\ tick = Asleep /\ posted = [u \in Users |-> Nothing]

Known(i) == incident[i].status # "absent"
IsOpen(i) == incident[i].status = "OPEN"
Place(i) == routing.place[i]

-----------------------------------------------------------------------------
(* route_incident: what it makes of an incident. *)
Event(act, unit, stage) == [act |-> act, unit |-> unit, stage |-> stage]
Has(row, unit, stage) == \E r \in row.routes : r.unit = unit /\ r.stage = stage

\* Mutant: every due route is audited, also one that is there.
AddedTwice(row, wanted) ==
  [row EXCEPT !.routes = @ \cup {[unit |-> w.unit, stage |-> w.stage, acked |-> FALSE] : w \in {v \in wanted : ~Has(row, v.unit, v.stage)}},
              !.audit = @ \o SetToSeq({Event(IF w.stage > 0 THEN "ESCALATED" ELSE "ROUTED", w.unit, w.stage) : w \in wanted})]
\* get_or_create: a route that is there stays as it is, and only a new one is audited.
Added(row, wanted) ==
  LET new == {w \in wanted : ~Has(row, w.unit, w.stage)} IN
  [row EXCEPT !.routes = @ \cup {[unit |-> w.unit, stage |-> w.stage, acked |-> FALSE] : w \in new},
              !.audit = @ \o SetToSeq({Event(IF w.stage > 0 THEN "ESCALATED" ELSE "ROUTED", w.unit, w.stage) : w \in new})]

\* Without a rule the central units that cover the place have it, or nobody.
Fallback(row, central) ==
  LET added == Added(row, {[unit |-> u, stage |-> 0] : u \in central})
      state == IF central = {} THEN "UNROUTED" ELSE "ROUTED"
  IN [added EXCEPT !.state = state,
                   !.audit = IF state = "UNROUTED" /\ row.state # state
                             THEN Append(@, Event("ROUTING_FAILED", NoUnit, 0)) ELSE @]
ByRules(row, rules, time) ==
  LET added == Added(row, {r \in rules : row.started + r.delay <= time})
  IN [added EXCEPT !.state = IF added.routes # {} THEN "ROUTED" ELSE "PENDING"]

\* Mutant: the status of the list is good enough.
MayRouteListed(i, row) == i \in routing.live
\* Looked at again under the lock of the row; an incident of a file is not routed.
MayRoute(i, row) == row.status = "OPEN" /\ i \in routing.live
Routed(i, row, rules, central, time) ==
  IF ~MayRoute(i, row) THEN row
  ELSE IF rules = {} THEN Fallback(row, central) ELSE ByRules(row, rules, time)

RulesFor(units) == {r \in rulesOn : r.unit \in units}

\* ingest_envelope: created and routed in one transaction, by the dispatcher between
\* its rounds of process_due_routes.
Ingest(i) ==
  /\ tick = Asleep /\ ~Known(i) /\ i \in routing.arrive
  /\ LET row == [Absent EXCEPT !.status = "OPEN", !.started = now,
                   !.audit = <<Event("INGESTED", NoUnit, 0)>>]
         units == UnitsCovering(Place(i))
     IN incident' = [incident EXCEPT ![i] = Routed(i, row, RulesFor(units), units \cap Central, now)]
  /\ UNCHANGED <<scopeVars, routing, now, rulesOn, tick, posted>>

-----------------------------------------------------------------------------
(* process_due_routes: one tick of the dispatcher. *)
\* Mutant: an incident that has a route is done.
ListedPending == {i \in Incidents : IsOpen(i) /\ incident[i].state # "ROUTED"}
Listed == {i \in Incidents : IsOpen(i)}
Oldest(n) ==
  LET all == SetToSortSeq(Listed, LAMBDA i, j : incident[i].started < incident[j].started \/ (incident[i].started = incident[j].started /\ i < j))
  IN SubSeq(all, 1, IF Len(all) < n THEN Len(all) ELSE n)

TickLists ==
  /\ tick.at = "idle" /\ Listed # {}
  /\ tick' = [Asleep EXCEPT !.at = "coverage", !.list = Oldest(routing.batch), !.time = now]
  /\ UNCHANGED <<scopeVars, routing, now, rulesOn, incident, posted>>
TickCovers ==
  /\ tick.at = "coverage"
  /\ tick' = [tick EXCEPT !.at = "rules",
                !.units = [i \in Incidents |-> IF i \in ToSet(tick.list) THEN UnitsCovering(Place(i)) ELSE {}]]
  /\ UNCHANGED <<scopeVars, routing, now, rulesOn, incident, posted>>
TickRules ==
  /\ tick.at = "rules"
  /\ tick' = [tick EXCEPT !.at = "route", !.rules = {r \in rulesOn : r.unit \in unitOn}, !.central = Central \cap unitOn]
  /\ UNCHANGED <<scopeVars, routing, now, rulesOn, incident, posted>>
TickRoutes ==
  /\ tick.at = "route"
  /\ LET i == Head(tick.list)
         units == tick.units[i]
     IN incident' = [incident EXCEPT ![i] =
          Routed(i, @, {r \in tick.rules : r.unit \in units}, tick.central \cap units, tick.time)]
  /\ tick' = IF Len(tick.list) = 1 THEN Asleep ELSE [tick EXCEPT !.list = Tail(@)]
  /\ UNCHANGED <<scopeVars, routing, now, rulesOn, posted>>
Dispatcher == TickLists \/ TickCovers \/ TickRules \/ TickRoutes

\* The dispatcher ends, or finds the database busy, and starts over.
DispatcherRestarts ==
  /\ tick # Asleep /\ Edited /\ tick' = Asleep
  /\ UNCHANGED <<parent, active, unitOn, covering, assigned, approved, editing, routing, now, rulesOn, incident, posted>>

-----------------------------------------------------------------------------
(* The operators. *)
RoutesOf(user, i) == {r \in incident[i].routes : user = Admin \/ r.unit \in UnitsOf(user)}

MayResolve(user, i) ==
  /\ incident[i].status = "ACKNOWLEDGED"
  /\ \/ user = Admin \/ incident[i].by \in UnitsOf(user)
     \/ \E r \in RoutesOf(user, i) : r.unit \in Central

\* The inbox offers to acknowledge and to resolve; an administrator may do it with
\* any incident.  The request is answered later.
Offered(user, i) ==
  {p \in [act : {"ack"}, incident : {i}, unit : Units \cup {NoUnit}] :
     IsOpen(i) /\ (user = Admin \/ \E r \in RoutesOf(user, i) : ~r.acked)
     /\ (p.unit = NoUnit \/ \E r \in RoutesOf(user, i) : r.unit = p.unit)}
  \cup {p \in [act : {"resolve"}, incident : {i}, unit : {NoUnit}] : MayResolve(user, i)}
Posts(user, p) ==
  /\ posted[user] = Nothing /\ posted' = [posted EXCEPT ![user] = p]
  /\ UNCHANGED <<scopeVars, routing, now, rulesOn, incident, tick>>
Answered(user) ==
  /\ posted' = [posted EXCEPT ![user] = Nothing]
  /\ UNCHANGED <<scopeVars, routing, now, rulesOn, tick>>

\* acknowledge_incident: for the first route of the user, if there is one.
Chosen(user, p) ==
  LET own == {r \in RoutesOf(user, p.incident) : p.unit = NoUnit \/ r.unit = p.unit}
  IN {r \in own : \A s \in own : r.stage <= s.stage}
Acknowledges(user) ==
  /\ posted[user].act = "ack" /\ IsOpen(posted[user].incident)
  /\ LET i == posted[user].incident
         row == incident[i]
     IN \/ \E r \in Chosen(user, posted[user]) :
             incident' = [incident EXCEPT ![i] =
               [row EXCEPT !.status = "ACKNOWLEDGED", !.by = r.unit,
                           !.routes = (@ \ {r}) \cup {[r EXCEPT !.acked = TRUE]},
                           !.audit = Append(@, Event("ACKNOWLEDGED", r.unit, r.stage))]]
        \/ /\ Chosen(user, posted[user]) = {} /\ user = Admin
           /\ incident' = [incident EXCEPT ![i] =
               [row EXCEPT !.status = "ACKNOWLEDGED", !.audit = Append(@, Event("ACKNOWLEDGED", NoUnit, 0))]]
  /\ Answered(user)
Resolves(user) ==
  /\ posted[user].act = "resolve" /\ MayResolve(user, posted[user].incident)
  /\ LET i == posted[user].incident IN
     incident' = [incident EXCEPT ![i].status = "RESOLVED", ![i].audit = Append(@, Event("RESOLVED", incident[i].by, 0))]
  /\ Answered(user)
\* Somebody was first, or the user is no longer responsible.
Refused(user) ==
  /\ \/ /\ posted[user].act = "ack"
        /\ ~IsOpen(posted[user].incident) \/ (Chosen(user, posted[user]) = {} /\ user # Admin)
     \/ posted[user].act = "resolve" /\ ~MayResolve(user, posted[user].incident)
  /\ Answered(user) /\ UNCHANGED incident

-----------------------------------------------------------------------------
RuleToggled(r) ==
  /\ Edited /\ rulesOn' = Toggled(rulesOn, r)
  /\ UNCHANGED <<parent, active, unitOn, covering, assigned, approved, editing, routing, now, incident, tick, posted>>
TimePasses ==
  /\ now < MaxTime /\ now' = now + 1
  /\ UNCHANGED <<scopeVars, routing, rulesOn, incident, tick, posted>>

RoutingNext ==
  \/ \E i \in Incidents : Ingest(i)
  \/ Dispatcher \/ DispatcherRestarts
  \/ \E user \in Users :
       \/ \E i \in Incidents : \E p \in Offered(user, i) : Posts(user, p)
       \/ Acknowledges(user) \/ Resolves(user) \/ Refused(user)
  \/ \E r \in Rules : RuleToggled(r)
  \/ ScopeNext /\ UNCHANGED <<routing, now, rulesOn, incident, tick, posted>>
  \/ TimePasses

-----------------------------------------------------------------------------
Entries(row, acts) == {k \in DOMAIN row.audit : row.audit[k].act \in acts}
Routing == {"ROUTED", "ESCALATED"}

\* The audit tells what happened: one entry for every route, one acknowledgement, by
\* the unit that has it and whose route carries it, one resolution, and a routed
\* incident has a route (incidents/services/routing.py, actions.py).  Nobody is alarmed
\* about an incident that somebody has taken: no route, and no failure to route, follows
\* the acknowledgement, although the dispatcher goes by a list, rules and coverage it
\* has read before.
AuditTrue ==
  \A i \in Incidents : LET row == incident[i] IN
    /\ \A r \in row.routes :
         Cardinality({k \in Entries(row, Routing) : row.audit[k].unit = r.unit /\ row.audit[k].stage = r.stage}) = 1
    /\ Cardinality(Entries(row, Routing)) = Cardinality(row.routes)
    /\ Cardinality(Entries(row, {"ACKNOWLEDGED"})) = (IF row.status \in {"ACKNOWLEDGED", "RESOLVED"} THEN 1 ELSE 0)
    /\ Cardinality(Entries(row, {"RESOLVED"})) = (IF row.status = "RESOLVED" THEN 1 ELSE 0)
    /\ {r.unit : r \in {s \in row.routes : s.acked}} = {row.by} \ {NoUnit}
    /\ \A k \in Entries(row, {"ACKNOWLEDGED"}) : row.audit[k].unit = row.by
    /\ row.state = "ROUTED" => row.routes # {}
    /\ \A a \in Entries(row, {"ACKNOWLEDGED"}), k \in Entries(row, Routing \cup {"ROUTING_FAILED"}) : k < a

\* The due routes of the rules in force are made, unless the incident is taken: by a
\* dispatcher that keeps ticking, while the open incidents fit into one tick, once the
\* administrator leaves the scopes alone.
Waits(i, r) ==
  /\ IsOpen(i) /\ i \in routing.live /\ Cardinality(Listed) <= routing.batch
  /\ r \in RulesFor(UnitsCovering(Place(i))) /\ incident[i].started + r.delay <= now
  /\ ~Has(incident[i], r.unit, r.stage)
DueIsRouted == <>[](\A i \in Incidents, r \in Rules : ~Waits(i, r))
=============================================================================
