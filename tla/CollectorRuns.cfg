\* PacedOverall is violated with Job = {"sweep", "gapfill"}, Items = 1.
SPECIFICATION FairSpec
CONSTANTS
  Job = {"gapfill", "symbols"}
  Items = 2
  MaxRetries = 2
  Interval = 2
  Backoff = 1
  MaxLost = 1
PROPERTIES PacedPerRun RunEnds Recovers
