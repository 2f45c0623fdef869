SPECIFICATION MainFairSpec
CONSTANTS
  StallFail = 2
  ReconnectGrace = 3
  InferenceFail = 3
  StartupGrace = 3
  SharedTimeout = 2
  Cooldown = 3
  RestartLimit = 1
  MaxAge = 3
  Setups <- MCSetups
CONSTRAINT FirstGeneration
INVARIANTS ExitComplete
PROPERTIES ReplacedForCause HungIsReplaced StopEnds
CHECK_DEADLOCK FALSE
