--------------------------- MODULE SecurityScope ---------------------------
(***************************************************************************)
(* Who is responsible for a place (services/access_scope.py): a tree of    *)
(* locations, security units that cover locations, with or without what is *)
(* below them, and users who are assigned to units.  Routing asks from a   *)
(* location up to the units, the pages ask from a user down to the         *)
(* locations.  The pages of the administrator change all of it.            *)
(***************************************************************************)
EXTENDS Naturals, Sequences, FiniteSets, SequencesExt

CONSTANTS Locations, NoLocation,
          Units, Central,     \* security units, and those with is_central
          Users, Admin,       \* Admin is one of the users: is_it_admin
          Coverages,          \* rows [unit, loc, deep], in the order of the query
          Editors             \* pages that may edit the tree at the same time

ASSUME ScopeAssumption ==
  /\ IsFiniteSet(Locations) /\ NoLocation \notin Locations /\ Central \subseteq Units /\ Admin \in Users
  /\ Coverages \in Seq([unit : Units, loc : Locations, deep : BOOLEAN])

VARIABLES parent, active,     \* of a location
          unitOn, covering,   \* active units and coverage rows
          assigned, approved, \* the units of a user; approved profiles
          editing,            \* a location form that has been checked, not yet saved
          edits               \* what is left of the bound on changes

scopeVars == <<parent, active, unitOn, covering, assigned, approved, editing, edits>>

NoEdit == [loc |-> NoLocation, parent |-> NoLocation, active |-> FALSE]

ScopeInit(tree, units, bound) ==
  /\ parent = tree /\ active = [l \in Locations |-> TRUE]
  /\ unitOn = Units /\ covering = DOMAIN Coverages
  /\ assigned = [u \in Users |-> units] /\ approved = Users
  /\ editing = [e \in Editors |-> NoEdit] /\ edits = bound

-----------------------------------------------------------------------------
Depth == Cardinality(Locations)

\* A location and all that is above it; in a tree with a cycle, the cycle.
Ancestors(l) ==
  LET up[n \in 0..Depth] == IF n = 0 THEN {l} ELSE UNION {{x, parent[x]} \ {NoLocation} : x \in up[n - 1]}
  IN up[Depth]
Rooted(l) == \E a \in Ancestors(l) : parent[a] = NoLocation

\* A location is open when it and all above it are active and there is no cycle.
Effective(l) == Rooted(l) /\ \A a \in Ancestors(l) : active[a]

\* build_location_security_unit_index: from a location up.
UnitsCovering(l) ==
  IF l = NoLocation \/ ~Effective(l) THEN {}
  ELSE {u \in unitOn : \E k \in covering :
          LET c == Coverages[k] IN
          c.unit = u /\ (c.loc = l \/ (c.deep /\ c.loc \in Ancestors(l)))}

UnitsOf(user) == IF user \in approved THEN assigned[user] \cap unitOn ELSE {}

\* Mutant: what is shut off is walked into.
BelowAll(root, covered) ==
  LET down[n \in 0..Depth] == IF n = 0 THEN {root}
        ELSE LET above == down[n - 1] IN above \cup {c \in Locations \ covered : parent[c] \in above}
  IN down[Depth]
\* The walk down from a covered location does not enter what is covered already.
Below(root, covered) ==
  LET down[n \in 0..Depth] == IF n = 0 THEN {root}
        ELSE LET above == down[n - 1]
             IN above \cup {c \in Locations \ covered : parent[c] \in above /\ Effective(c)}
  IN down[Depth]

\* _covered_location_ids: from a user down, row by row.
CoveredBy(units) ==
  LET covered[k \in 0..Len(Coverages)] ==
        IF k = 0 THEN {}
        ELSE LET c == Coverages[k] IN
             IF k \notin covering \/ c.unit \notin units \/ ~Effective(c.loc) THEN covered[k - 1]
             ELSE covered[k - 1] \cup IF c.deep THEN Below(c.loc, covered[k - 1]) ELSE {c.loc}
  IN covered[Len(Coverages)]

\* get_user_accessible_cameras, for a camera at a location.
MayView(user, l) == user = Admin \/ l \in CoveredBy(UnitsOf(user))

-----------------------------------------------------------------------------
(* The pages of the administrator. *)
Edited == edits > 0 /\ edits' = edits - 1

\* Location.clean: a location is not put below itself.  What is checked is saved
\* by a statement of its own.
Allowed(l, p) == p # NoLocation => l \notin Ancestors(p) /\ Rooted(p)
LocationChecked(e, l, p, on) ==
  /\ editing[e] = NoEdit /\ Allowed(l, p) /\ Edited
  /\ p # parent[l] \/ on # active[l]
  /\ editing' = [editing EXCEPT ![e] = [loc |-> l, parent |-> p, active |-> on]]
  /\ UNCHANGED <<parent, active, unitOn, covering, assigned, approved>>
LocationSaved(e) ==
  /\ editing[e] # NoEdit
  /\ parent' = [parent EXCEPT ![editing[e].loc] = editing[e].parent]
  /\ active' = [active EXCEPT ![editing[e].loc] = editing[e].active]
  /\ editing' = [editing EXCEPT ![e] = NoEdit]
  /\ UNCHANGED <<unitOn, covering, assigned, approved, edits>>

Toggled(set, x) == IF x \in set THEN set \ {x} ELSE set \cup {x}
UnitToggled(u) ==
  /\ Edited /\ unitOn' = Toggled(unitOn, u)
  /\ UNCHANGED <<parent, active, covering, assigned, approved, editing>>
CoverageToggled(k) ==
  /\ Edited /\ covering' = Toggled(covering, k)
  /\ UNCHANGED <<parent, active, unitOn, assigned, approved, editing>>

\* UserEditForm.save: the assignments that are not chosen are ended; an assignment
\* to a unit that is switched off is ended as well, for the form does not show it.
UserEdited(user, units) ==
  /\ Edited /\ units \subseteq unitOn
  /\ assigned' = [assigned EXCEPT ![user] = units]
  /\ UNCHANGED <<parent, active, unitOn, covering, approved, editing>>
\* user_approve, user_reject, and the status of the form.
UserJudged(user) ==
  /\ Edited /\ approved' = Toggled(approved, user)
  /\ UNCHANGED <<parent, active, unitOn, covering, assigned, editing>>

ScopeNext ==
  \/ \E e \in Editors, l \in Locations, p \in Locations \cup {NoLocation}, on \in BOOLEAN :
       LocationChecked(e, l, p, on)
  \/ \E e \in Editors : LocationSaved(e)
  \/ \E u \in Units : UnitToggled(u)
  \/ \E k \in DOMAIN Coverages : CoverageToggled(k)
  \/ \E user \in Users \ {Admin} : UserJudged(user) \/ \E units \in SUBSET Units : UserEdited(user, units)

-----------------------------------------------------------------------------
\* What a user is shown, a unit of the user covers: the walk down never leaves what
\* routing finds going up, whatever the tree becomes under two editors at once
\* (_covered_location_ids against build_location_security_unit_index).
ScopeContained ==
  \A user \in Users \ {Admin} :
    \A l \in CoveredBy(UnitsOf(user)) : UnitsOf(user) \cap UnitsCovering(l) # {}

\* "Bulk form of coverage resolution, shared by access and routing services."
\* (access_scope.py:176): both find the same.
ScopeAgrees ==
  \A user \in Users \ {Admin}, l \in Locations :
    UnitsOf(user) \cap UnitsCovering(l) # {} => MayView(user, l)
=============================================================================
