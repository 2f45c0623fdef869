SPECIFICATION FairSpec
CONSTANTS
    NRuns = 2
    Kind <- MCKind
    MaxResults <- MCResults
    MaxParents = 2
    MaxCancels = 1
    Starts = {"start"}
PROPERTIES ImplementsContract NeverReplayed RunEnds
CHECK_DEADLOCK FALSE
CONSTRAINT Scope
