\* Each of these is violated; TLC stops at the first it meets.
SPECIFICATION FusionSpec
CONSTANTS
  None = None
  Stock = {"a", "b"}
  Underlying = "a"
  Sectors = {"it"}
  Benchmark = "nifty"
  Contracts <- ContractsValue
  Chains <- ChainsValue
  Histories <- HistoriesValue
  Articles <- ArticlesValue
  Injected = {FALSE}
  Prices <- PricesValue
  Vwaps <- VwapsValue
  Features <- FeaturesValue
  Readings <- ReadingsValue
  FirstBars <- FirstBarsValue
  FirstFeatures <- FirstFeaturesValue
  FirstReadings <- FirstReadingsValue
  Fundamental <- FundamentalValue
  ReadBack = 2
  MaxTime = 3
  MaxChanges = 1
  MaxOiRuns = 2
INVARIANTS FuturesAreSeen LatestRunIsUsed BreadthIsOfOneDay FutureIsFound
