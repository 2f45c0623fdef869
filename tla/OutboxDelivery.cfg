SPECIFICATION FairSpec
CONSTANTS
    e1 = e1
    e2 = e2
    e3 = e3
    Events = {e1, e2, e3}
    NoEvent = NoEvent
    External <- MCExternal
    Owner <- MCOwner
    Offline <- MCOffline
    MaxFailures = 2
    MaxReplaced = 1
INVARIANTS ExactlyOnce EvidenceKept
PROPERTIES KnownIsDelivered
