SPECIFICATION Spec
CONSTANTS
  Frames <- FeedFrames
  QLen = 4
  MaxFrames = 2
INVARIANTS
  AnsweredIsFed
