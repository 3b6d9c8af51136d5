CONSTANTS
  NumSources = 1
  MaxRetries = 0
  MaxListings = 2
  Urls <- UrlsOfTwo
  MaxCalls = 3
  MaxAttempts = 2
  Usages <- FreeOrPaid
  NoFinops = NoFinops
  NoLog = NoLog
  Failed = Failed
SPECIFICATION FairSpec
INVARIANTS FinopsCoversBill
CHECK_DEADLOCK FALSE
