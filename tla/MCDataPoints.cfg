SPECIFICATION Spec
CONSTANTS
  Frames <- MixedFrames
  QLen = 2
  MaxFrames = 3
INVARIANTS
  TypeOK PointsAreAnswered FedIsAnswered
CHECK_DEADLOCK FALSE
