SPECIFICATION FairSpec
CONSTANTS
    SlotCount = 2
    PendingPerCamera = 2
    BatchSize = 2
    Ordered <- MCOrdered
    MaxRequests = 4
    MaxKills = 1
INVARIANTS Accounting FairAndInOrder
PROPERTIES SentinelLast WorkerLeaves
CHECK_DEADLOCK FALSE
