CONSTANTS
  NumSources = 2
  MaxRetries = 2
  MaxListings = 2
  Urls <- UrlsOfThree
  MaxCalls = 3
  MaxAttempts = 2
  Usages <- FreeOrPaid
  NoFinops = NoFinops
  NoLog = NoLog
  Failed = Failed
SPECIFICATION FairSpec
INVARIANTS ExecutionTypeOK CallsWithinBudget EveryListingAccountedFor RetriedBeforeSkipped NoSourceGivenUpEarly MessageTellsWhy
PROPERTIES EveryExecutionEnds ExecutesClaimedRun
CHECK_DEADLOCK FALSE
