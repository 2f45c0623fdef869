SPECIFICATION ClassicSpec
CONSTANTS
  ClipCap = 1
  JobCap = 1
  HubCap = 2
  PreLen = 2
  MaxEventFrames = 4
  MinHits = 2
  Grace = 1
  LiveSetups <- MCLiveSetups
  StaticSetups <- MCStaticSetups
  StaticJobCap = 1
  StaticResultCap = 1
  OnNeed = 2
  OffNeed = 2
  ClipLen = 2
  ClipReset = 1
  InvalidDrop = 1
  InvalidReset = 2
  MinPair = 1
  Stride = 1
  LoopSetups <- MCLoopSetups
  N = 6
  Probes = 2
  Need2p = 1
  MergeGap = 2
  BatchSetups <- MCBatchSetups
INVARIANTS ClassicDelivered
PROPERTIES ClassicEnds
