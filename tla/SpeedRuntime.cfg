SPECIFICATION SpeedSpec
CONSTANTS
  LineA = 4
  LineB = 7
  Reach = 4
  MaxAge = 1
  MinHits = 2
  HistoryLength = 3
  OpenFrames = 1
  CloseFrames = 1
  IgnoreFrames = 1
  MinDelta = 1
  MaxDelta = 6
  MinSpeed = 1
  MaxSpeed = 4
  Threshold = 1
  MinPoints = 2
  ConfirmFrames = 2
  EmitFrames = 3
  Cooldown = 4
  Setups <- MCSetups
  Slowest = 1
  Steps = {1, 2}
  Road = 11
  MaxBlind = 1
  MaxFaults = 1
  MaxAttempts = 1
INVARIANTS EachReportedOnce NothingUnreported
PROPERTIES WaitEnds
CHECK_DEADLOCK FALSE
