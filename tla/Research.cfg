CONSTANTS
  Topics = {"strategy", "replays", "signal", "decision", "bounce", "memory", "beliefs", "books", "lab", "mind", "ideas", "curve", "edge"}
  Null = null
  Torn = torn
  Tape <- ZigZag
  Clock <- Hours
  WindowSize = 7
  Lookback = 1
  RangeWindow = 4
  SqueezeBars = 3
  RecentBars = 3
  GapMin = 50
  GapSmall = 2500
  GapLarge = 4500
  ScoreThreshold = 20
  TapeWarmup = 3
  EmaPeriods = {2, 3, 4}
  AtrPeriod = 2
  VolumeLookback = 3
  FreshSweep = 2
  FreshGap = 2
  MinConfidence = 60
  Bars <- MCBars
  MaxBars = 3
  BarWarmup = 1
  StopMethods = {"baseline", "wide25", "atr14_20", "avg5", "structure", "hybrid", "avg5_hybrid"}
  EntryMethods = {"immediate", "skip_low_volatility", "confirm_1c", "no_reverse_0.5r", "confirm_direction"}
  Scale = 240
  Few = 2
  Many = 3
  TrLength = 2
  MaxHolding = 1
  Cost = 15
  Funding = 1
  Reference <- MCReference
  Threshold = 50
  Contexts <- MCContexts
  Books <- MCBooks
  Quantities = {1, 30, 55, 100}
  SteadyBooks = 3
  HalfLength = 2
  Thin = 50
  Wall = 200
  MaxBooks = 5
  Cases <- MCCases
  Signature <- MCSignature
  MinMemory = 1
  Limit = 4
  Base = 60
  MaxWrites = 4
  Prior <- MCPrior
  NoTradeOf = {4}
  Evidence <- MCEvidence
  Thresholds = {100, 240}
  MaxUpdates = 4
  Gross <- MCGross
  MinTrades = 6
  MaxLength = 8
  Decisions <- MCDecisions
  HypothesisSets <- MCHypotheses
  Reports <- MCReports
  Figures <- MCFigures
  ObservationSets <- MCObservations
  SeriesSet <- MCSeries
  Volumes = {0, 2, 3}
  BandPeriod = 3
  BandSlack = 0
  BandWidth = 1
  BandRatio = 2
  BandVolume = 3
  VolumeBack = 2
  BandHolding = 2
SPECIFICATION Spec
INVARIANTS
  FiltersNeverAgree
  ExitsAreFair
  WorstFillHolds
  DecisionsAreEarned
  BooksCalmDown
  BacktestsBounded
  VerdictsAreBroad
  JudgedSoundly
  FalsifiedNeverWin
PROPERTIES
  MemoryHolds
  EvidenceDecides
CHECK_DEADLOCK FALSE
