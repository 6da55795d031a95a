CONSTANTS
  A = A
  B = B
  loop = loop
  loop2 = loop2
  test = test
  none = none
  NoSignal = none
  MaxTrades = 1
  MaxNotional = 216
  Loops = {loop}
  Testers = {}
  Signals <- MCBoth
  Hedged = TRUE
  ReadsFail = FALSE
  MaxOrders = 2
  MaxFaults = 0
  StartLeverage <- MCUnset
SPECIFICATION Spec
INVARIANTS
  LeverageHonoured
