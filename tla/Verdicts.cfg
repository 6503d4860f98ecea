SPECIFICATION VerdictSpec
CONSTANTS
  None = None
  Data <- DataValue
  Members <- MembersValue
  Replies <- RepliesValue
  Closes = {106}
  MaxDay = 2
  MaxBars = 1
  MaxFetches = 1
INVARIANTS TrustedWhenQualified AlertsAreCurrent AlertsMeetMinimum StrongIsPaid
