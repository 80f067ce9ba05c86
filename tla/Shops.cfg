SPECIFICATION ShopsSpec
CONSTANTS
  o1 = o1
  o2 = o2
  one = one
  two = two
  t1 = t1
  t2 = t2
  tea = tea
  rice = rice
  loan = loan
  cashsale = cashsale
  refill = refill
  ann = ann
  bob = bob
  short = short
  long = long
  trade = trade
  cart1 = cart1
  cart2 = cart2
  Orders = {o1, o2}
  Requests = {one, two}
  Trackings = {t1, t2}
  Quantities = {1, 2}
  MayOverlap = FALSE
  MaxStock = 2
  MaxRequests = 3
  MaxRemittances = 2
  Goods = {tea, rice}
  Stocked <- FirstStock
  Sales = {loan, cashsale}
  OnCredit = {loan}
  Total <- Totals
  Purchases = {refill}
  Items = {1, 2, 3, 4, 5}
  PaperOf <- LinePapers
  GoodOf <- LineGoods
  Quantity <- LineQuantities
  Tills = {one, two}
  MaxServed = 4
  MaxBroken = 1
  Carts = {cart1, cart2}
  Syncs = {one, two}
  MaxRuns = 3
  MaxClosed = 1
  Colleagues = {ann, bob}
  RosterDays = {1, 2}
  Shifts = {1, 2, 3}
  Swaps = {trade}
  Leaves = {short, long}
  LeaveBy <- LeaveFor
  Off <- DaysOff
  HalfDay = {}
  Entitled = 4
  NoShift = 0
  Desks = {one, two}
  MaxFills = 2
  MaxFiled = 4
SYMMETRY Symmetry
INVARIANTS
  ShopsTypeOK StockOutWhileDelivered SettledOnce
  StockAddsUp CreditAddsUp
  SaleKept SoldOnce
  LeaveHolds
PROPERTIES CorrectionSticks SwappedAsAsked
CHECK_DEADLOCK FALSE
