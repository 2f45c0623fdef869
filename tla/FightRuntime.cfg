SPECIFICATION FairSpec
CONSTANTS
  file = file
  live = live
  Loads <- MCLoads
  Cameras = {file, live}
  Files = {file}
  Slots = {0, 1}
  None = None
  ServiceRestartLimit = 2
  CameraRestartLimit = 1
  MaxRevisions = 2
  MaxFaults = 2
  MaxGen = 8
INVARIANTS FlowingIsPublishable ReadingOrdered
PROPERTIES CleanEndIsFinal WaitingServed FileEnds
CHECK_DEADLOCK FALSE
