SPECIFICATION FusionSpec
CONSTANTS
  None = None
  Stock = {"a", "b"}
  Underlying = "a"
  Sectors = {"it"}
  Benchmark = "nifty"
  Contracts <- ContractsValue
  Chains <- ChainsValue
  Histories <- HistoriesValue
  Articles <- ArticlesValue
  Injected = {TRUE, FALSE}
  Prices <- PricesValue
  Vwaps <- VwapsValue
  Features <- FeaturesValue
  Readings <- ReadingsValue
  FirstBars <- FirstBarsValue
  FirstFeatures <- FirstFeaturesValue
  FirstReadings <- FirstReadingsValue
  Fundamental <- FundamentalValue
  ReadBack = 20
  MaxTime = 3
  MaxChanges = 1
  MaxOiRuns = 1
INVARIANTS OneRegimePerRun EvidenceOnly ReadsNearestContract
