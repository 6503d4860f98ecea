SPECIFICATION FairQueueSpec
CONSTANTS
  Ingester <- MCIngester
  ReadCount = 2
  MaxLen = 2
  MaxBatches = 4
  MaxEvents = 4
  MaxCrashes = 1
INVARIANTS
  AckMeansScanned
  OnlyOldEventsMissed
PROPERTIES
  EventsAreRead
CHECK_DEADLOCK FALSE
