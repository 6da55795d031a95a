CONSTANTS
  None = None
  Qualities <- MCQualities
  SymbolCooldown = 2
  DirectionCooldown = 3
  MinConfluence = 4
  MinConfidence = 5
  MaxRisk = 4
  LossStep = 1
  MaxLosses = 2
  HardMax = 3
  DayOf <- MCDayOf
  MaxHolding = 2
  MaxCandles = 8
  Procs = {p, q}
  MaxEvent = 2
  MaxStarts = 3
  Reports = {r1, r2}
  Prices = {0, 2}
  Sizes = {0, 1, 2}
  MaxResets = 1
  Results <- MCResults
  GovernedDays <- MCGovernedDays
  WeekOf <- MCWeekOf
  MaxDailyLoss = 2
  MaxWeeklyLoss = 3
  MaxDayStreak = 2
  MaxStreak = 3
  Defensive = 2
  Preservation = 3
  Short = 2
  Long = 3
  GovernedCandles = 6
SPECIFICATION ServicesSpec
INVARIANTS
  PlanMatchesCandidate
  WithinLimits
  StoreIsFaithful
  DeskIsTrue
  CountersMatchLog
PROPERTIES
  GovernorPrevails
SYMMETRY MCSymmetry
CHECK_DEADLOCK FALSE
