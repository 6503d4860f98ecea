\* EveryTriggerAlerted is violated under these constants.
SPECIFICATION Spec
CONSTANTS
  Symbol = {"s1", "s2"}
  Score <- MCScore
  Threshold = 3
  MaxRuns = 4
  MaxCrashes = 1
INVARIANTS
  TypeOK
  LogMatchesPointer
  AlertsHaveTransitions
  VerdictReflectsState
PROPERTIES
  ImplementsLifecycle
CHECK_DEADLOCK FALSE
