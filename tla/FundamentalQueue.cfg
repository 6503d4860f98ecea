\* EachLimitWaitsLonger is violated with Proc = {p1}, Slot = {s1},
\* Sources = {"upstox", "trendlyne"}, MaxPerDay = 6, MaxCooldown = 4, Ttl = 2, DayLength = 4,
\* MaxTime = 4, MaxFaults = 0, MaxClosed = 0 and without SYMMETRY.
\* NeverTwoRuns is violated with the constants below.
SPECIFICATION Spec
CONSTANTS
  Proc = {p1, p2}
  Slot = {s1, s2}
  Row <- MCRow
  SymbolOf <- MCSymbolOf
  Rank <- MCRank
  Sources = {"trendlyne"}
  MaxPerRun = 3
  MaxPerDay = 3
  BatchSize = 2
  Cooldown = 1
  Multiplier = 2
  MaxCooldown = 2
  Ttl = 1
  DayLength = 2
  MaxTime = 2
  MaxFaults = 1
  MaxClosed = 1
INVARIANTS OneRunAtATime RequestsBounded RowsFollowSnapshots
PROPERTY NoFetchWhilePaused
CHECK_DEADLOCK FALSE
SYMMETRY Symmetry
