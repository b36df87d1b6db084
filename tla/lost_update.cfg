SPECIFICATION Spec
CONSTANTS
  Price = 1
  MinTopup = 2
  OverdraftTime = 1
  ExtensionTime = 1
  MaxExtensions = 1
  DayLength = 2
  None = None
  Sessions = {s1, s2}
  Keys = {k1, k2}
  FreeTime = 2
  Amounts <- NoAmounts
  Cards <- PlainCards
  MaxTime = 2
  MaxRuns = 3
  Lag = 1
INVARIANT BalanceMatchesLedger
