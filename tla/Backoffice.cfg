SPECIFICATION BackofficeSpec
CONSTANTS
    c1 = c1
    None = None
    Daemon = Daemon
    w1 = w1
    Cameras = {c1}
    Web = {w1}
    Commands = {"pause", "resume", "speedStart", "speedStop", "hardStop", "start"}
    MaxCommands = 2
    MaxChanges = 1
    MaxFaults = 1
    top = top
    mid = mid
    low = low
    guard = guard
    central = central
    op = op
    Admin = Admin
    Locations = {top, mid, low}
    NoLocation = NoLocation
    Units = {guard, central}
    Central = {central}
    Users = {op, Admin}
    Coverages <- MCCoverages
    Editors = {1, 2}
    Incidents = {1, 2}
    NoUnit = NoUnit
    Rules <- MCRules
    MaxTime = 1
    RoutingSetups <- MCRoutingSetups
    AtRest <- MCAtRest
    Areas = {"cameras", "incidents"}
INVARIANTS PausesKept AuditTrue ScopeContained
PROPERTIES Converges StartServed DueIsRouted
CHECK_DEADLOCK FALSE
