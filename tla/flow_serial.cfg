SPECIFICATION Spec
CONSTANTS
  Price = 1
  MinTopup = 2
  OverdraftTime = 1
  ExtensionTime = 1
  MaxExtensions = 1
  DayLength = 2
  None = None
  Sessions = {s1}
  Keys = {k1, k2}
  FreeTime = 2
  Amounts <- MixedAmounts
  Cards <- OpenCards
  MaxTime = 4
  MaxRuns = 4
  Lag = 1
INVARIANT SerialExact
PROPERTY SerialSpec
