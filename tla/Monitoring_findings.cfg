\* Each of these is violated; TLC stops at the first it meets.
SPECIFICATION Spec
CONSTANTS
  None = None
  Symbol = {s1}
  SlotsPerDay = 2
  OpenSlots = 1
  Weekend <- MCWeekend
  Holidays <- MCHolidays
  Verified <- MCVerified
  Warning <- MCWarning
  StaleAfter <- MCStaleAfter
  After <- MCAfter
  MaxLag = 0
  ListLimit = 1
  MaxTime = 5
  MaxRows = 1
  MaxAhead = 0
INVARIANTS
  AliveIsNotStale
  FirstBarIsRecorded
CHECK_DEADLOCK FALSE
