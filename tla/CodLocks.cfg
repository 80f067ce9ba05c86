SPECIFICATION BusinessSpec
CONSTANTS
  one = one
  two = two
  plan = plan
  extra = extra
  bank = bank
  scale = scale
  topup = topup
  shop = shop
  emp = emp
  asset = asset
  may1 = may1
  may2 = may2
  june = june
  Payments = {plan, extra, bank}
  Plan <- PlanOf
  Product <- ProductFor
  Slips = {bank}
  TopUp = topup
  TopUpPlan = scale
  Trial = Trial
  Free = Free
  PayCalls = {one, two}
  MaxPayCalls = 3
  MaxPayFails = 1
  MaxNights = 1
  Prices <- PriceList
  OneOff = {30}
  FirstPrice = 0
  MaxUses = 1
  Requests = {one, two}
  Tabs = {one, two}
  MaxChanges = 0
  MaxBuys = 0
  MaxToggles = 0
  MaxDeaths = 1
  Employees = {emp}
  Advances <- GivenAdvances
  AdvanceOf <- AdvancesOf
  Assets = {asset}
  AssetOf <- AssetsOf
  Charge <- Charges
  Runs = {may1, may2, june}
  Period <- Periods
  Covers <- Branches
  Gross <- Salaries
  Clerks = {one, two}
  MaxAmount = 0
  MaxRequests = 0
  MaxOverlaps = 1
  MaxStops = 1
  Pollers = {one, two}
  LastMessage = 0
  PageSize = 1
  MaxPerPoll = 1
  MaxExpiries = 0
  MaxDeleted = 0
SYMMETRY Symmetry
INVARIANT LapsedCodStaysOpen
CHECK_DEADLOCK FALSE
