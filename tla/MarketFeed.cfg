\* BackfillKept is violated with MaxSocket = 2, MaxRepeats = 0;
\* CompletedBarKept is violated under these constants.
SPECIFICATION FairSpec
CONSTANTS
  Key = {k1}
  Rest = {"gapfill"}
  MaxMinute = 3
  MaxTrades = 2
  MaxSocket = 1
  MaxRepeats = 1
  MaxFaults = 1
INVARIANTS NeverOverstates PendingInOrder
PROPERTIES GapFillEnds PendingDrains
CHECK_DEADLOCK FALSE
