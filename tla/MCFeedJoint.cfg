SPECIFICATION Spec
CONSTANTS
  Portions <- MCPortions
  WaterParams <- MCOnOff
  Detectors <- MCFoodDetector
  Exceptions <- MCReports
  QLen = 2
  DpAfterInit = TRUE
  Tares = TRUE
INVARIANTS
  TypeOK FeedIsTimed PumpIsTimed LampShowsPump MotorOnlyForPortions
