SPECIFICATION Spec
CONSTANTS
  Price = 1
  MinTopup = 2
  OverdraftTime = 1
  ExtensionTime = 1
  MaxExtensions = 1
  DayLength = 3
  None = None
  Sessions = {s1, s2}
  Keys = {k1, k2}
  FreeTime = 2
  Amounts <- TopupOnly
  Cards <- LimitedCards
  MaxTime = 4
  MaxRuns = 4
  Lag = 1
SYMMETRY Symmetry
INVARIANTS TypeOK ChargedOnce EveryPeriodPaid DailyLimitHolds HitsKept DriftNeedsStaleCopy
PROPERTY EditsKeepMoney
