CONSTANTS
  NumSources = 2
  MaxRetries = 0
  MaxListings = 1
  Urls <- UrlsOfTwo
  MaxCalls = 3
  MaxAttempts = 2
  Usages <- FreeOrPaid
  NoFinops = NoFinops
  NoLog = NoLog
  Failed = Failed
SPECIFICATION FairSpec
INVARIANTS NoJobsFoundAsDocumented
CHECK_DEADLOCK FALSE
