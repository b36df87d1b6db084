SPECIFICATION Spec
CONSTANTS
  t1 = t1
  t2 = t2
  o1 = o1
  o2 = o2
  l1 = l1
  l2 = l2
  c1 = c1
  c2 = c2
  i1 = i1
  i2 = i2
  Sessions = {s1, s2}
  Account = account
  Tokens = {t1, t2}
  Orgs = {o1, o2}
  Invites = {l1, l2}
  Cookies = {c1, c2}
  Invoices = {i1, i2}
  OrgOf <- Owner
  Names = {x}
  Place <- Keys
INVARIANT DeadlocksNamed
PROPERTY EveryoneEnds
