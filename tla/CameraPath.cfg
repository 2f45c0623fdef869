SPECIFICATION CameraFairSpec
CONSTANTS
  Frames = 3
  LiveFrames = 2
  FightCapacity = 1
  SpeedCapacity = 1
  MaxFaults = 1
  YoloStride = 2
  PoseStride = 2
  PrebufferFrames = 2
  MaxEventFrames = 2
  CloseGrace = 1
  MinQueueFrames = 2
  PoseHold = 1
INVARIANTS ClipsRepeatNothing FileWhole AnswersAreOwn
CHECK_DEADLOCK FALSE
PROPERTY CameraEnds
