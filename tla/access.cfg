SPECIFICATION Spec
CONSTANTS
  Handlers = {h1, h2}
  MaxAttempts = 2
  LockTime = 1
  MaxPerHour = 1
  Hour = 1
  ResetTtl = 1
  InviteTtl = 2
  ConfirmTtl = 2
  MaxTime = 2
  MaxRuns = 3
SYMMETRY Symmetry
INVARIANTS TypeOK LettersBounded LinkUsesBounded LinksStayFew OldSessionsNeedRace PasswordKept SessionsConfirmed FailuresCounted
PROPERTY LockHolds
