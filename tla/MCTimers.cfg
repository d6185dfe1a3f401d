SPECIFICATION TimersSpec
CONSTANTS
  Modulus = 256
  Period = 10
  Holdoff = 50
  MaxTicks = 20
  Conditions = {water_low, stuck}
  Ratio = 3
  Samples <- AroundTheRows
  Loads <- ThreeLoads
  Strays <- TwoStrays
  Reads = 3
INVARIANTS
  TimersTypeOK HoldoffIsOver LevelIsEarned ScaleIsRight
PROPERTIES
  HoldoffIsKept ReportsAreDue
