SPECIFICATION FairSpec
CONSTANTS
  Cameras = {c1, c2}
  Slots = {0}
  None = None
  MaxEvents = 2
  MaxGen = 3
  MaxEpoch = 2
  First = c1
CONSTRAINT FirstIsFirst
INVARIANTS PublishedOnce
PROPERTIES FailedSilent Resolved
CHECK_DEADLOCK FALSE
