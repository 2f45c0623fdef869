SPECIFICATION BackofficeSpec
CONSTANTS
    c1 = c1
    None = None
    Daemon = Daemon
    w1 = w1
    Cameras = {c1}
    Web = {w1}
    Commands = {}
    MaxCommands = 0
    MaxChanges = 0
    MaxFaults = 0
    top = top
    mid = mid
    low = low
    guard = guard
    central = central
    op = op
    Admin = Admin
    Locations = {top, mid, low}
    NoLocation = NoLocation
    Units = {guard, central}
    Central = {central}
    Users = {op, Admin}
    Coverages <- ShallowFirst
    Editors = {1, 2}
    Incidents = {1, 2}
    NoUnit = NoUnit
    Rules <- MCRules
    MaxTime = 1
    RoutingSetups <- ScopeSetups
    AtRest <- MCAtRest
    Areas = {"incidents"}
INVARIANTS ScopeAgrees
CHECK_DEADLOCK FALSE
