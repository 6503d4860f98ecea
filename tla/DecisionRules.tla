---------------------------- MODULE DecisionRules ----------------------------
(***************************************************************************)
(* The eight decision rules, the verdict drawn from them, and the          *)
(* compounding assessment of a saved snapshot.  A snapshot is a function   *)
(* from the keys it holds to their values: a key it lacks reads as None.   *)
(***************************************************************************)
EXTENDS Scanners

MinAlertScore == 8000      \* decision_min_alert_score
DecisionMinRvol == 20      \* decision_min_rvol, in tenths
DecisionMinAdx == 25       \* decision_min_adx
ResistanceDistance == 3    \* decision_resistance_distance_percent
MaxDataAge == 1            \* decision_max_data_age_days
HighPriorityScore == 9000  \* alert_high_priority_score

Get(snap, key) == Value(snap, key)

-----------------------------------------------------------------------------
(* The rules: each says whether a row passes on a day. *)

RequiredAlways(scanner) ==   \* mutant: every scanner needs the breakout features
  BreakoutFields \cup {"price"}
RequiredFeatures(scanner) ==
  IF scanner = "breakout_v1" THEN BreakoutFields \cup {"price"}
  ELSE {"price", "adx14", "relative_volume"}
HasRequired(row) == \A k \in RequiredFeatures(row.scanner) : Get(row.snap, k) # None

RowDate(row) == row.date   \* mutant: the age of the scan, not of its features
EffectiveDate(row) ==
  IF Get(row.snap, "feature_date") # None THEN row.snap.feature_date ELSE row.date
Fresh(row, today) == today - EffectiveDate(row) <= MaxDataAge

GoodScore(row) == row.score >= MinAlertScore
TrendAligned(row) ==
  \/ row.scanner # "breakout_v1"
  \/ /\ \A k \in {"ema20", "ema50", "ema200"} : Get(row.snap, k) # None
     /\ row.snap.ema20 > row.snap.ema50 /\ row.snap.ema50 > row.snap.ema200
EnoughVolume(row) == AtLeast(Get(row.snap, "relative_volume"), DecisionMinRvol)
StrongAdx(row) == AtLeast(Get(row.snap, "adx14"), DecisionMinAdx)
NearEnough(row) ==
  \/ row.scanner \notin {"breakout_v1", "pre_breakout_v1"}
  \/ LET p == Get(row.snap, "price")
         r == Get(row.snap, "resistance_level")
     IN  /\ p # None /\ r # None /\ r # 0
         /\ 100 * Distance(p, r) <= ResistanceDistance * r

CoreRules == {"minimum_score", "trend", "relative_volume", "adx", "resistance_proximity"}
DataRules == {"required_features", "data_freshness"}
Passes(rule, row, today) ==
  CASE rule = "required_features" -> HasRequired(row)
    [] rule = "data_freshness" -> Fresh(row, today)
    [] rule = "minimum_score" -> GoodScore(row)
    [] rule = "trend" -> TrendAligned(row)
    [] rule = "relative_volume" -> EnoughVolume(row)
    [] rule = "adx" -> StrongAdx(row)
    [] OTHER -> NearEnough(row)
Failed(row, today) == {rule \in DataRules \cup CoreRules : ~Passes(rule, row, today)}

\* A rejected row is beyond trust; an alert passes every rule while the market
\* is open; everything else is watched.
Decision(row, today, open) ==
  CASE Failed(row, today) \cap DataRules # {} -> "REJECT"
    [] Failed(row, today) = {} /\ open -> "ALERT"
    [] OTHER -> "WATCH"
Quality(row, decision) ==
  CASE decision = "REJECT" -> None
    [] decision = "WATCH" -> "LOW"
    [] OTHER -> IF row.score >= HighPriorityScore THEN "HIGH" ELSE "MEDIUM"

-----------------------------------------------------------------------------
(* Compounding: target, stop, confirmation and the decision about them.    *)
(* The reward/risk ratio and the percentages are in hundredths.            *)

UpsideBands ==
  <<<<2000, "EXCEPTIONAL">>, <<1500, "VERY_STRONG">>, <<1200, "STRONG">>, <<800, "GOOD">>,
    <<500, "MINIMUM_OPPORTUNITY">>>>
ClassifyUpside(pct) ==
  IF pct = None THEN "UNKNOWN"
  ELSE IF pct < 500 THEN "NOT_ATTRACTIVE"
  ELSE FirstBand(UpsideBands, {k \in DOMAIN UpsideBands : pct >= UpsideBands[k][1]})
UpsideScore(class) ==   \* _UPSIDE_SCORE
  [UNKNOWN |-> 0, NOT_ATTRACTIVE |-> 10, MINIMUM_OPPORTUNITY |-> 45, GOOD |-> 65, STRONG |-> 80,
   VERY_STRONG |-> 90, EXCEPTIONAL |-> 90][class]

Above(v, w) == v # None /\ v > w
Below(v, w) == v # None /\ v > 0 /\ v < w
DeriveTarget(snap) ==
  LET p == Get(snap, "price")
      r == Get(snap, "resistance_level")
      s == Get(snap, "support_level")
      h == Get(snap, "swing_high")
  IN  IF p = None \/ p <= 0 THEN None
      ELSE IF None \notin {r, s} /\ Above(r, s) THEN 2 * r - s
      ELSE IF Above(r, p) THEN r
      ELSE IF Above(h, p) THEN h ELSE None

\* The nearest stop below the price; twice the price level keeps 1.5 ATR whole.
StopCandidates(snap) ==
  LET p == snap.price
      near == {2 * v : v \in {w \in {Get(snap, "support_level")} : Below(w, p)}}
              \cup {2 * p - 3 * v : v \in {w \in {Get(snap, "atr14")} : Above(w, 0)}}
  IN  IF near # {} THEN near ELSE {2 * v : v \in {w \in {Get(snap, "swing_low")} : Below(w, p)}}
DeriveStop(snap) ==
  IF Get(snap, "price") = None \/ Get(snap, "price") <= 0 \/ StopCandidates(snap) = {} THEN None
  ELSE IF Max(StopCandidates(snap)) > 0 THEN Max(StopCandidates(snap)) ELSE None

\* Twice the distance of the price to its target and to its stop.
Reward(snap) == 2 * (DeriveTarget(snap) - snap.price)
Risk(snap) == 2 * snap.price - DeriveStop(snap)
\* round(..., 2): it is this ratio that is scored.
RewardRisk(snap) ==
  IF None \in {DeriveTarget(snap), DeriveStop(snap)} THEN None
  ELSE Rounded(100 * Reward(snap), Risk(snap))
RewardRiskScoreLenient(rr) ==   \* mutant: a reward below the risk reads as an unknown one
  IF rr = None THEN 30 ELSE HigherIsBetter(rr, <<<<250, 100>>, <<150, 75>>, <<100, 50>>, <<-99900, 50>>>>)
RewardRiskScore(rr) ==
  IF rr = None THEN 30 ELSE HigherIsBetter(rr, <<<<250, 100>>, <<150, 75>>, <<100, 50>>, <<-99900, 20>>>>)

Confirmation(snap) ==   \* _higher_timeframe_confirmation
  LET trend == Get(snap, "trend_direction")
      adx == Get(snap, "adx14")
  IN  CASE trend = None -> "UNKNOWN"
        [] trend # None /\ trend # "up" -> "NOT_CONFIRMED"
        [] trend # None /\ trend = "up" /\ adx = None -> "UNKNOWN"
        [] OTHER -> IF adx >= MinAdx THEN "CONFIRMED" ELSE "NOT_CONFIRMED"
Timeframe(class, confirmation) ==
  CASE class \in {"UNKNOWN", "NOT_ATTRACTIVE"} -> "UNKNOWN"
    [] class = "MINIMUM_OPPORTUNITY" -> "DAILY"
    [] class \in {"GOOD", "STRONG"} -> "WEEKLY"
    [] OTHER -> IF confirmation = "CONFIRMED" THEN "MONTHLY" ELSE "WEEKLY"

\* The four parts weigh 35, 30, 15 and 20 percent; an unknown fundamental score
\* counts as 50.
CompoundingScore(class, snap) ==
  LET fundamental == Get(snap, "fundamental_score")
  IN  35 * UpsideScore(class) + 30 * RewardRiskScore(RewardRisk(snap))
      + 15 * [CONFIRMED |-> 100, NOT_CONFIRMED |-> 40, UNKNOWN |-> 50][Confirmation(snap)]
      + Rounded(20 * (IF fundamental = None THEN 5000 ELSE fundamental), 100)
DecisionOn(class, score) ==
  IF class = "UNKNOWN" THEN "WATCH"
  ELSE IF class = "NOT_ATTRACTIVE" THEN "NOT_ATTRACTIVE"
  ELSE IF score >= 7500 THEN "STRONG_CANDIDATE"
  ELSE IF score >= 5500 THEN "TRADE_CANDIDATE" ELSE "WATCH"
Compounding(snap) ==
  LET target == DeriveTarget(snap)
      upside == IF target = None THEN None
                ELSE Rounded(10000 * (target - snap.price), snap.price)
      class == ClassifyUpside(upside)
      score == CompoundingScore(class, snap)
  IN  [class |-> class, stop |-> DeriveStop(snap), ratio |-> RewardRisk(snap), score |-> score,
       timeframe |-> Timeframe(class, Confirmation(snap)), decision |-> DecisionOn(class, score)]
=============================================================================
