CONSTANTS
  A = A
  B = B
  loop = loop
  loop2 = loop2
  test = test
  none = none
  NoSignal = none
  MaxTrades = 1
  MaxNotional = 216
  Loops = {loop}
  Testers = {}
  Signals <- MCTwo
  Hedged = FALSE
  ReadsFail = TRUE
  MaxOrders = 2
  MaxFaults = 1
  StartLeverage <- MCUnset
SPECIFICATION Spec
INVARIANTS
  OneTrade
