SPECIFICATION Spec
CONSTANTS
  N = 4
  MaxBytes = 33
  Limit = 3
  MaxOverruns = 1
  MaxEmpty = 1
  Leftovers <- MCLeftovers
  Streams <- MCStreams
INVARIANTS
  TypeOK
  HandledAsSent
PROPERTIES
  TakenInOrder
  AllHandled
CHECK_DEADLOCK FALSE
