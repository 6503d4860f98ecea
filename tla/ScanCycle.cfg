\* SecondScanUpdates is violated under these constants.
SPECIFICATION FairSpec
CONSTANTS
  Symbol = {1, 2}
  Universe = {2}
  MaxDay = 3
  MaxRev = 2
  MaxRevised = 1
  FetchDay = {2}
  BatchSize = 2
INVARIANTS VerdictMatchesFeatures CountsMatchRows
PROPERTIES NoLostUpdate FeaturesCatchUp
