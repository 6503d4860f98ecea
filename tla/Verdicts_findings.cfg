\* Each of these is violated; TLC stops at the first it meets.
SPECIFICATION VerdictSpec
CONSTANTS
  None = None
  Data <- DataValue
  Members <- MembersValue
  Replies <- RepliesValue
  Closes = {106}
  MaxDay = 2
  MaxBars = 1
  MaxFetches = 1
INVARIANTS OrbIsTrusted ExplanationAgrees QualifiedMeetsMinimum
