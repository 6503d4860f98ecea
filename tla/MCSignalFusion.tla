---------------------------- MODULE MCSignalFusion ----------------------------
(* Model-checking instance of SignalFusion: two stocks, a sector index and
   the benchmark, two expiries and the articles that matter. *)
EXTENDS SignalFusion

Mood(up) ==
  [trend_direction |-> IF up THEN "up" ELSE None, trend_strength |-> IF up THEN 80 ELSE None,
   ema20 |-> 100, ema50 |-> None, ema200 |-> IF up THEN 100 ELSE None,
   rsi14 |-> IF up THEN 60 ELSE None, macd_histogram |-> None, adx14 |-> None,
   relative_volume |-> IF up THEN 15 ELSE None, accumulation_score |-> None,
   distribution_score |-> None, volatility_squeeze |-> FALSE, atr_expansion |-> FALSE,
   higher_high |-> up, higher_low |-> up, width_z |-> IF up THEN -1 ELSE None,
   momentum_score |-> None, performance_z |-> IF up THEN 1 ELSE None, acceleration_z |-> None]
FeaturesValue == {Mood(TRUE)}
ReadingsValue == {[ratio |-> 1, momentum |-> -1]}

\* A first bar of 95..105, then one that closes lower and is both a new high and a
\* new low, and one that closes higher inside it.
Traded(close, high, low) == [close |-> close, high |-> high, low |-> low, volume |-> close]
PricesValue == {Traded(96, 107, 90), Traded(103, 104, 99)}
VwapsValue == {100}
OneBar(close) ==
  LET new == Merged([date |-> 0], Traded(close, close + 5, close - 5))
  IN  [last |-> new, prior |-> None, high |-> new.high, low |-> new.low]
FirstBarsValue == [a |-> OneBar(100), b |-> OneBar(100), it |-> OneBar(100), nifty |-> OneBar(100)]
FirstFeaturesValue == [a |-> Mood(FALSE), b |-> None, it |-> Mood(TRUE), nifty |-> Mood(FALSE)]
FirstReadingsValue ==
  [a |-> [ratio |-> 0, momentum |-> None], b |-> None,
   it |-> [ratio |-> -1, momentum |-> 2], nifty |-> None]

\* Two futures listed together, the first expires while they are cached; a third
\* and an option are listed later.
ContractsValue ==
  {[type |-> "FUT", expiry |-> 1, listed |-> 0], [type |-> "CE", expiry |-> 1, listed |-> 0],
   [type |-> "FUT", expiry |-> 2, listed |-> 0], [type |-> "FUT", expiry |-> 9, listed |-> 2],
   [type |-> "PE", expiry |-> 9, listed |-> 2]}
Leg(type, valid) == [type |-> type, valid |-> valid, price |-> 2, close |-> 1, oi |-> 8, prev_oi |-> 0]
ChainsValue == {{[strike |-> 100, legs |-> {Leg("CE", TRUE), Leg("PE", TRUE)}]},
                {[strike |-> 100, legs |-> {Leg("CE", FALSE)}]}}
HistoriesValue == {<< >>, <<[close |-> 5, oi |-> 4]>>,
                   <<[close |-> 5, oi |-> 4], [close |-> 4, oi |-> 6]>>}

Article(token, published, topics, good) ==
  [token |-> token, published |-> published, topics |-> topics, positive |-> IF good THEN 1 ELSE 0,
   negative |-> IF good THEN 0 ELSE 2, heading |-> TRUE]
ArticlesValue ==
  {Article("a", 0, {"RESULTS", "DIVIDEND"}, TRUE), Article("a", 0, {"SECTOR_CATALYST"}, FALSE),
   Article("z", 2, {"RESULTS"}, FALSE), Article("b", None, {"REGULATORY"}, TRUE)}
FundamentalValue ==
  [a |-> [revenue_growth_3y |-> 22, eps_growth_3y |-> 15, roe |-> 18, roce |-> 9, net_margin |-> 2,
          debt_to_equity |-> 4, pe |-> 30, operating_cash_flow |-> -3],
   b |-> [pe |-> 12]]
=============================================================================
