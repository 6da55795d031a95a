CONSTANTS
  None = None
  Qualities <- MCQualities
  SymbolCooldown = 2
  DirectionCooldown = 3
  MinConfluence = 4
  MinConfidence = 5
  MaxRisk = 4
  LossStep = 1
  MaxLosses = 2
  HardMax = 3
  DayOf <- MCDayOf
  MaxHolding = 2
  MaxCandles = 4
SPECIFICATION Spec
INVARIANTS
  LossesAreLosses
CHECK_DEADLOCK FALSE
