CONSTANTS
  A = A
  B = B
  none = none
  NoSlot = none
  Symbols = {A, B}
  Offered <- MCOffered
  Results <- MCResults
  MaxActive = 2
  MinClosed = 2
  MaxRounds = 8
  MaxFaults = 2
SPECIFICATION MCSpec
INVARIANTS
  OneTradePerSymbol
  CleanReview
PROPERTIES
  FreshWhenClean
CHECK_DEADLOCK FALSE
