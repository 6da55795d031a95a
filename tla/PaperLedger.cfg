CONSTANTS
  A = A
  B = B
  bb = bb
  fam = fam
  none = none
  NoIntent = none
  Trusted <- MCTrusted
  Promotable <- MCPromotable
  MaxNotional = 9000
  Intents <- MCIntents
  Quotes <- MCQuotes
  Sizes <- MCSizes
  MaxActive = 2
  MaxTrades = 3
  MaxClock = 1
  StaleAfter = 0
  MaxKills = 1
SPECIFICATION MCSpec
INVARIANTS
  NoDuplicateOpen
  LedgerSound
  SettledOnce
  Reconciled
  NotionalWithinCap
PROPERTIES
  FillsFinal
  OnlyPromotedWritten
  ImplementsBook
  WaitingOrdersEnd
