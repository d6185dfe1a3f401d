SPECIFICATION SidesSpec
CONSTANTS
  Portions <- MCPortions
  WaterParams <- MCOnOnly
  Detectors <- MCWaterDetector
  Exceptions <- MCReports
  QLen = 1
  DpAfterInit = TRUE
  Tares = TRUE
INVARIANTS
  PumpRunsWithTimer NoWriteIsLostAlone
PROPERTIES
  ImplementsFeeder FeedingEnds PumpingEnds
