SPECIFICATION Spec
CONSTANTS
  e1 = e1
  e2 = e2
  a1 = a1
  a2 = a2
  t1 = t1
  t2 = t2
  f1 = f1
  f2 = f2
  p1 = p1
  u1 = u1
  u2 = u2
  w1 = w1
  w2 = w2
  Emails = {e1}
  Addresses = {a1, a2}
  Texts = {t1}
  Files = {}
  Users = {u1}
  NoUser = NoUser
  NoHash = NoHash
  Workers = {w1}
  Prospects = {p1}
  NoProspect = NoProspect
  ProspectOf <- MCProspectOf
  ProspectAddress <- MCProspectAddress
  NoEmail = NoEmail
  DailyLimit = 1
  MayStall = FALSE
  MaxApprovals = 2
  MaxDays = 1
  MaxCrashes = 1
PROPERTIES ClaimRespectsOptOut ApproverStands
