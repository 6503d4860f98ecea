SPECIFICATION VerdictSpec
CONSTANTS
  None = None
  Data <- DataValue
  Members <- MembersValue
  Replies <- BothReply
  Closes = {106}
  MaxDay = 2
  MaxBars = 1
  MaxFetches = 1
INVARIANT FetchedIsScored
