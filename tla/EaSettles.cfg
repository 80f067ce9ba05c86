SPECIFICATION SettlesSpec
CONSTANTS
  e1 = e1
  a1 = a1
  t1 = t1
  f1 = f1
  f2 = f2
  u1 = u1
  one = one
  two = two
  Emails = {e1}
  Addresses = {a1}
  Texts = {t1}
  Files = {f1, f2}
  Users = {u1}
  NoUser = NoUser
  NoHash = NoHash
  Workers = {one}
  Prospects = {}
  NoProspect = NoProspect
  ProspectOf <- MCProspectOf
  ProspectAddress <- MCProspectAddress
  NoEmail = NoEmail
  DailyLimit = 2
  MayStall = TRUE
  MaxApprovals = 1
  MaxDays = 1
  MaxCrashes = 1
  Pollers = {one, two}
  LastMessage = 2
  PageSize = 1
  MaxPerPoll = 1
  MaxExpiries = 0
  MaxDeleted = 0
INVARIANT OncePerApproval
PROPERTIES SendingSettles MailIsRead
