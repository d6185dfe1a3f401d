SPECIFICATION RingSpec
CONSTANTS
  N = 4
  MaxBytes = 12
INVARIANT
  NoDataMeansTaken
CHECK_DEADLOCK FALSE
