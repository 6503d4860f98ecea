\* EveryRowIsRevisited is violated under these constants.
SPECIFICATION FairSpec
CONSTANTS
  None = None
  Symbol = {s1}
  SlotsPerDay = 2
  OpenSlots = 1
  Weekend <- MCWeekend
  Holidays <- MCHolidays
  Verified <- MCVerified
  Warning <- MCWarning
  StaleAfter <- MCStaleAfter
  After <- MCAfter
  MaxLag = 0
  ListLimit = 1
  MaxTime = 3
  MaxRows = 1
  MaxAhead = 1
INVARIANTS
  OutagesAreSeen
PROPERTIES
  FollowUpFills
CHECK_DEADLOCK FALSE
