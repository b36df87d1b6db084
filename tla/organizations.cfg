SPECIFICATION Spec
CONSTANTS
  main = main
  second = second
  r1 = r1
  r2 = r2
  Sessions = {s1, s2}
  Accounts = {a1}
  Orgs = {o1, o2}
  Aliases = {main, second}
  Requisites = {r1, r2}
  Forms <- MixedForms
  Tokens = {t1}
  Throttle = 0
  CacheTtl = 1
  CacheSize = 1
  None = None
  MaxTime = 2
  MaxRuns = 3
  MaxFiles = 2
SYMMETRY Symmetry
INVARIANTS TypeOK DefaultsNeedRace LogosAtHand AnswerShowsRow MarksFollowUse
