\* Each of these is violated; TLC stops at the first it meets.
SPECIFICATION FairQueueSpec
CONSTANTS
  Ingester <- MCIngester
  ReadCount = 1
  MaxLen = 2
  MaxBatches = 3
  MaxEvents = 3
  MaxCrashes = 1
INVARIANTS
  DrainedBeforeLive
PROPERTIES
  FailedIsRetried
  GroupIsRetried
CHECK_DEADLOCK FALSE
