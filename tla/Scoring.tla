------------------------------- MODULE Scoring -------------------------------
(***************************************************************************)
(* The technical and the fundamental score: banded sub-scores of factors,  *)
(* averaged with the weights of their categories over the factors that are *)
(* known.  Prices and percentages are whole numbers, relative volume is in *)
(* tenths, a score in hundredths, a percentage difference in hundredths of *)
(* a percent.  An unknown value is None.                                   *)
(***************************************************************************)
EXTENDS Integers, Sequences, FiniteSets, FiniteSetsExt

CONSTANT None   \* an absent value (a model value)

MinCompleteness == 50   \* fundamental_min_data_completeness_pct

TechnicalCategoryWeight ==   \* technical_weight_..., in percent
  [trend |-> 25, momentum |-> 20, volume |-> 20, volatility |-> 10, vwap |-> 15, structure |-> 10]
FundamentalCategoryWeight ==   \* fundamental_weight_..., in percent
  [growth |-> 20, profitability |-> 20, financial_strength |-> 20, cash_flow |-> 15,
   valuation |-> 15, ownership |-> 10]
FundamentalShare == 30   \* overall_fundamental_weight, in percent
TechnicalShare == 70     \* overall_technical_weight

-----------------------------------------------------------------------------
(* Bands and averages. *)

\* The score of the first band the value reaches, and the last one's otherwise.
FirstBand(bands, reached) ==
  bands[IF reached = {} THEN Len(bands) ELSE Min(reached)][2]
HigherIsBetter(value, bands) ==
  IF value = None THEN None ELSE FirstBand(bands, {k \in DOMAIN bands : value >= bands[k][1]})
LowerIsBetter(value, bands) ==
  IF value = None THEN None ELSE FirstBand(bands, {k \in DOMAIN bands : value <= bands[k][1]})

\* How far price stands above level, in hundredths of a percent.
PctAbove(price, level) ==
  IF level = None \/ level = 0 THEN None ELSE (10000 * price) \div level - 10000

Rounded(n, d) == (2 * n + d) \div (2 * d)
Clamped(low, x, high) == Max({low, Min({x, high})})

\* Weighted means are taken over the known factors; an unknown one leaves the
\* weights of the others to share the whole.
Known(score) == {f \in DOMAIN score : score[f] # None}
Total(S, amount) == MapThenSumSet(LAMBDA x : amount[x], S)   \* over the members of S
WeightedSum(factors, score, weight) == MapThenSumSet(LAMBDA f : score[f] * weight[f], factors)
MeanOverAll(score, weight) ==   \* mutant: an unknown factor counts as a zero
  LET total == Total(DOMAIN score, weight)
  IN  Rounded(100 * WeightedSum(Known(score), score, weight), total)
Mean(score, weight) ==
  LET total == Total(Known(score), weight)
  IN  IF total = 0 THEN None
      ELSE Rounded(100 * WeightedSum(Known(score), score, weight), total)
\* A factor gets its category's weight shared with the other factors of the
\* category (60 makes every share a whole number).
Shares(category, weight) ==
  [f \in DOMAIN category |->
     (60 * weight[category[f]]) \div Cardinality({g \in DOMAIN category : category[g] = category[f]})]

-----------------------------------------------------------------------------
(* Technical score. *)

TechnicalCategory ==
  [trend_direction |-> "trend", price_vs_ema20 |-> "trend", price_vs_ema50 |-> "trend",
   rsi14 |-> "momentum", macd_histogram |-> "momentum", adx14 |-> "momentum",
   relative_volume |-> "volume", accumulation_vs_distribution |-> "volume",
   volatility_state |-> "volatility", price_vs_vwap |-> "vwap", market_structure |-> "structure"]
TechnicalWeight == Shares(TechnicalCategory, TechnicalCategoryWeight)

ScoreRsi(v) ==
  CASE v = None -> None
    [] v # None /\ v \in 55..70 -> 100
    [] v # None /\ v \in (45..54) \cup (71..80) -> 70
    [] v # None /\ (v \in 35..44 \/ v > 80) -> 40
    [] OTHER -> 20
ScoreTrend(direction) ==
  IF direction = None THEN None ELSE [up |-> 90, sideways |-> 50, down |-> 15][direction]
ScoreVsEma(price, ema) ==
  HigherIsBetter(PctAbove(price, ema), <<<<300, 100>>, <<0, 70>>, <<-300, 40>>, <<-99900, 20>>>>)
ScoreVwap(price, vwap) ==
  HigherIsBetter(PctAbove(price, vwap), <<<<100, 90>>, <<0, 65>>, <<-100, 40>>, <<-99900, 20>>>>)
ScoreAdx(v) == HigherIsBetter(v, <<<<30, 100>>, <<25, 80>>, <<20, 60>>, <<15, 40>>, <<0, 20>>>>)
ScoreVolume(v) == HigherIsBetter(v, <<<<30, 100>>, <<20, 85>>, <<15, 70>>, <<10, 50>>, <<0, 30>>>>)
ScoreAccumDist(v) ==
  HigherIsBetter(v, <<<<20, 90>>, <<5, 70>>, <<-5, 50>>, <<-20, 30>>, <<-999, 10>>>>)
ScoreStructure(highs) == [n \in 0..2 |-> 30 * (n + 1)][highs]

\* The factors of a symbol with the latest price, daily features and session.
TechnicalFactors(price, d, vwap) ==
  [trend_direction |-> ScoreTrend(d.trend_direction),
   price_vs_ema20 |-> ScoreVsEma(price, d.ema20),
   price_vs_ema50 |-> ScoreVsEma(price, d.ema50),
   rsi14 |-> ScoreRsi(d.rsi14),
   macd_histogram |->
     IF d.macd_histogram = None THEN None ELSE IF d.macd_histogram > 0 THEN 80 ELSE 20,
   adx14 |-> ScoreAdx(d.adx14),
   relative_volume |-> ScoreVolume(d.relative_volume),
   accumulation_vs_distribution |->
     IF None \in {d.accumulation_score, d.distribution_score} THEN None
     ELSE ScoreAccumDist(d.accumulation_score - d.distribution_score),
   volatility_state |-> IF d.volatility_squeeze THEN 80 ELSE IF d.atr_expansion THEN 65 ELSE 50,
   price_vs_vwap |-> ScoreVwap(price, vwap),
   market_structure |-> ScoreStructure((IF d.higher_high THEN 1 ELSE 0) + (IF d.higher_low THEN 1 ELSE 0))]

TechnicalScore(factors) ==
  LET mean == Mean(factors, TechnicalWeight) IN IF mean = None THEN 0 ELSE mean

-----------------------------------------------------------------------------
(* Fundamental score. *)

FundamentalCategory ==
  [revenue_growth_3y |-> "growth", eps_growth_3y |-> "growth", profit_growth_3y |-> "growth",
   roe |-> "profitability", roce |-> "profitability", operating_margin |-> "profitability",
   net_margin |-> "profitability", debt_to_equity |-> "financial_strength",
   interest_coverage |-> "financial_strength", operating_cash_flow |-> "cash_flow",
   free_cash_flow |-> "cash_flow", pe |-> "valuation", promoter_holding |-> "ownership",
   promoter_pledge |-> "ownership"]
FundamentalWeight == Shares(FundamentalCategory, FundamentalCategoryWeight)

ScoreGrowth(v) == HigherIsBetter(v, <<<<20, 100>>, <<12, 80>>, <<6, 60>>, <<0, 40>>, <<-999, 20>>>>)
ScoreReturn(v) == HigherIsBetter(v, <<<<20, 100>>, <<15, 80>>, <<10, 60>>, <<5, 40>>, <<-999, 20>>>>)
ScoreMargin(v) == HigherIsBetter(v, <<<<25, 100>>, <<15, 80>>, <<8, 60>>, <<3, 40>>, <<-999, 20>>>>)
\* debt to equity in tenths
ScoreDebt(v) == LowerIsBetter(v, <<<<3, 100>>, <<5, 80>>, <<10, 60>>, <<20, 40>>, <<9990, 20>>>>)
ScoreCoverage(v) == HigherIsBetter(v, <<<<10, 100>>, <<5, 80>>, <<2, 60>>, <<1, 40>>, <<-999, 20>>>>)
ScoreCash(v) == IF v = None THEN None ELSE IF v > 0 THEN 80 ELSE 20
ScorePe(v) ==
  IF v # None /\ v <= 0 THEN 50 ELSE LowerIsBetter(v, <<<<15, 90>>, <<25, 70>>, <<40, 50>>, <<999, 30>>>>)
ScoreHolding(v) == HigherIsBetter(v, <<<<50, 90>>, <<30, 70>>, <<15, 50>>, <<-999, 30>>>>)
ScorePledge(v) == LowerIsBetter(v, <<<<0, 100>>, <<5, 70>>, <<20, 40>>, <<999, 10>>>>)

\* f, and g where f says nothing ({**g, **f} in the code).
Merged(f, g) == [k \in DOMAIN f \cup DOMAIN g |-> IF k \in DOMAIN f THEN f[k] ELSE g[k]]
\* Fields a source did not report are not in the domain of its data d.
Value(d, field) == IF field \in DOMAIN d THEN d[field] ELSE None
FundamentalFactors(d) ==
  [f \in DOMAIN FundamentalCategory |->
     LET v == Value(d, f) IN
     CASE f \in {"revenue_growth_3y", "eps_growth_3y", "profit_growth_3y"} -> ScoreGrowth(v)
       [] f \in {"roe", "roce"} -> ScoreReturn(v)
       [] f \in {"operating_margin", "net_margin"} -> ScoreMargin(v)
       [] f = "debt_to_equity" -> ScoreDebt(v)
       [] f = "interest_coverage" -> ScoreCoverage(v)
       [] f \in {"operating_cash_flow", "free_cash_flow"} -> ScoreCash(v)
       [] f = "pe" -> ScorePe(v)
       [] f = "promoter_holding" -> ScoreHolding(v)
       [] OTHER -> ScorePledge(v)]

Completeness(score) == (100 * Cardinality(Known(score))) \div Cardinality(DOMAIN score)
\* The reported score: None when there is no data, or too little of it.
FundamentalScore(d) ==
  IF d = None THEN None
  ELSE LET f == FundamentalFactors(d)
       IN  IF Completeness(f) < MinCompleteness THEN None ELSE Mean(f, FundamentalWeight)
RiskFlags(d) ==
  IF d = None THEN {"no_data"}
  ELSE {f \in {"pledge", "debt", "limited"} :
          CASE f = "pledge" -> Value(d, "promoter_pledge") # None /\ d.promoter_pledge > 20
            [] f = "debt" -> Value(d, "debt_to_equity") # None /\ d.debt_to_equity > 20
            [] OTHER -> Completeness(FundamentalFactors(d)) < MinCompleteness}

-----------------------------------------------------------------------------
(* Overall score and quality. *)

CombineScores(fundamental, technical) ==
  IF fundamental = None THEN technical
  ELSE Rounded(fundamental * FundamentalShare + technical * TechnicalShare, 100)
QualityFromScore(score) == IF score >= 7500 THEN "HIGH" ELSE IF score >= 5500 THEN "MEDIUM" ELSE "LOW"
=============================================================================
