SPECIFICATION ScheduledSpec
CONSTANTS
  one = one
  two = two
  job = job
  lead1 = lead1
  ann = ann
  bob = bob
  offerA = offerA
  offerB = offerB
  Workers = {one, two}
  Jobs = {1, 2}
  Batch = 2
  MaxAttempts = 2
  MaySlow = FALSE
  MaxCrashes = 1
  MaxRetries = 1
  Tasks = {job}
  Taskers = {ann, bob}
  Offers = {offerA, offerB}
  OfferBy <- OffersBy
  OfferFor <- OffersFor
  Calls = {one, two}
  hourly = hourly
  Nobody = Nobody
  EditsOverlap = FALSE
  MaxCalls = 6
  MaxFailures = 1
  Leads = {lead1}
  MaxFollowUps = 1
  MaxMails = 2
  Agents = {one, two}
  Late = FALSE
  MaxLosses = 1
INVARIANTS ScheduledTypeOK OneHolder AcceptedIsHired CreditedOnce TouchesInOrder NeverForgotten
PROPERTIES ActsLocked JobsEnd HireKept CompletedCloses EndsForGood
CHECK_DEADLOCK FALSE
