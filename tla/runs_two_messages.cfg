CONSTANTS
  u1 = u1
  c1 = c1
  r1 = r1
  r2 = r2
  m1 = m1
  m2 = m2
  w1 = w1
  w2 = w2
  Users = {u1}
  Unlimited = {}
  Cvs = {c1}
  Runs = {r1}
  OwnerOf <- OneRunOwner
  CvOf <- OneRunCv
  RunOf <- OneRunMsg
  Messages = {m1, m2}
  Workers = {w1, w2}
  Replicas = {"api1"}
  DailyRunLimit = 1
  NumSources = 1
  Listings <- Listing
  MaxDeliveryCount = 2
  Faults = {"lock_expiry", "stall", "duplicate_send"}
  NoWorker = NoWorker
  NoRun = NoRun
  NoMessage = NoMessage
  NoLog = NoLog
  Failed = Failed
SPECIFICATION FairSpec
INVARIANTS NothingHollow QueuedRunHasCarrier
PROPERTIES EveryRunTerminates
CHECK_DEADLOCK FALSE
