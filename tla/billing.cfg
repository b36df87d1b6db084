SPECIFICATION AuditSpec
CONSTANTS
  Price = 1
  MinTopup = 2
  OverdraftTime = 2
  ExtensionTime = 1
  MaxExtensions = 1
  DayLength = 2
  None = None
  Amounts <- MCAmounts
  Cards <- MCCards
  MaxTime = 6
  MaxEntries = 4
  Lag = 1
INVARIANTS AuditTypeOK OverdraftEpisode DayCapHolds
PROPERTY NoDebtAfterDeadline
