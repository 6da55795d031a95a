CONSTANTS
  Tape <- MCTape
  WindowSize = 4
  Lookback = 1
  RangeWindow = 4
  SqueezeBars = 3
  RecentBars = 3
  GapMin = 50
  GapSmall = 2500
  GapLarge = 4500
  ScoreThreshold = 20
  Pairs = {"x", "y"}
  Results <- MCResults
  MaxEdits = 2
  Flows <- MCFlows
  SeriesSet <- MCSeries
  Volumes = {0, 2, 3}
  BandPeriod = 3
  BandSlack = 0
  BandWidth = 1
  BandRatio = 2
  BandVolume = 3
  VolumeBack = 2
  BandHolding = 2
SPECIFICATION Spec
INVARIANTS
  SomePromiseKept
CHECK_DEADLOCK FALSE
