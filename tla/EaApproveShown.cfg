SPECIFICATION Spec
CONSTANTS
  e1 = e1
  e2 = e2
  a1 = a1
  a2 = a2
  t1 = t1
  t2 = t2
  f1 = f1
  f2 = f2
  p1 = p1
  u1 = u1
  u2 = u2
  w1 = w1
  w2 = w2
  Emails = {e1}
  Addresses = {a1}
  Texts = {t1, t2}
  Files = {}
  Users = {u1, u2}
  NoUser = NoUser
  NoHash = NoHash
  Workers = {w1}
  Prospects = {}
  NoProspect = NoProspect
  ProspectOf <- MCProspectOf
  ProspectAddress <- MCProspectAddress
  NoEmail = NoEmail
  DailyLimit = 1
  MayStall = FALSE
  MaxApprovals = 1
  MaxDays = 1
  MaxCrashes = 0
PROPERTY ApprovedAsShown
