SPECIFICATION Spec
CONSTANTS
  Keys <- TwoKeys
  KEY_EVENT_LONG_COUNT = 2
  MinRelease = 2
  QueueLen = 2
  MaxPresses = 2
  MaxNews = 2
INVARIANTS
  AppTypeOK EventsTellTheHold AcceptedIsPending
PROPERTIES
  OwedIsDone
