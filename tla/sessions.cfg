SPECIFICATION Spec
CONSTANTS
  Handlers = {h1, h2}
  Ttl = 6
  IdleTime = 4
  Throttle = 1
  MaxAttempts = 2
  LockTime = 1
  None = None
  MaxTime = 7
  MaxRuns = 4
  MaxSessions = 2
  MaxChanges = 1
  Lag = 2
SYMMETRY Symmetry
INVARIANTS TypeOK SessionsFollowCredentials
PROPERTIES ClosedForGood IdleIsIdle
