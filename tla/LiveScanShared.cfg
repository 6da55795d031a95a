CONSTANTS
  A = A
  B = B
  loop = loop
  loop2 = loop2
  test = test
  none = none
  NoSignal = none
  MaxTrades = 1
  MaxNotional = 216
  Loops = {loop}
  Testers = {test}
  Signals <- MCTwo
  Hedged = FALSE
  ReadsFail = FALSE
  MaxOrders = 3
  MaxFaults = 1
  StartLeverage <- MCUnset
SPECIFICATION Spec
INVARIANTS
  EntryLogged
  CleanedAreClosed
PROPERTIES
  ImplementsDesk
