---------------------------- MODULE MarketEvidence ----------------------------
(***************************************************************************)
(* Market-wide evidence: breadth over the latest two bars of every active  *)
(* symbol, the relative-rotation quadrant of a series, the score of a      *)
(* sector and the market regime.  A z-score is a whole number of standard  *)
(* deviations; the rolling windows that produce it are left out, and a     *)
(* series too short for its window reads None.                             *)
(***************************************************************************)
EXTENDS Scoring

-----------------------------------------------------------------------------
(* Breadth.  bar[s] is [last, prior, high, low]: the two newest daily bars *)
(* of s, whatever their dates, and the extremes of its bars of the year.   *)

Pct(n, d) == IF d <= 0 THEN None ELSE (100 * n) \div d
Volume(bar, S) == Total(S, [s \in S |-> bar[s].last.volume])
AsOf(bar, day) ==   \* the newest date of any bar, or today
  LET dates == {bar[s].last.date : s \in {q \in DOMAIN bar : bar[q].last # None}}
  IN  IF dates = {} THEN day ELSE Max(dates)

\* ema[s] is None or the moving averages of s, each known or None.
PctAboveEma(bar, ema, field) ==
  LET with == {s \in DOMAIN bar : bar[s].last # None /\ ema[s] # None /\ ema[s][field] # None}
  IN  Pct(Cardinality({s \in with : bar[s].last.close > ema[s][field]}), Cardinality(with))

Breadth(bar, ema) ==
  LET today == {s \in DOMAIN bar : bar[s].last # None}
      both  == {s \in today : bar[s].prior # None}
      up    == {s \in both : bar[s].last.close > bar[s].prior.close}
      down  == {s \in both : bar[s].last.close < bar[s].prior.close}
      highs == {s \in today : bar[s].last.high >= bar[s].high}
      lows  == {s \in today : bar[s].last.low <= bar[s].low}
  IN  [advance_decline |-> Pct(Cardinality(up), Cardinality(up \cup down)),
       up_down_volume |-> Pct(Volume(bar, up), Volume(bar, up \cup down)),
       ema |-> [f \in {"ema20", "ema50", "ema200"} |-> PctAboveEma(bar, ema, f)],
       new_highs_lows |->
         IF today = {} THEN None
         ELSE 50 + (50 * (Cardinality(highs) - Cardinality(lows))) \div Cardinality(today)]

-----------------------------------------------------------------------------
(* Relative rotation. *)

\* A reading [ratio, momentum]: deviations of RS-Ratio and RS-Momentum from 100.
ClassifyQuadrant(r) ==
  IF r = None \/ None \in {r.ratio, r.momentum} THEN None
  ELSE CASE r.ratio >= 0 /\ r.momentum >= 0 -> "LEADING"
         [] r.ratio >= 0 /\ r.momentum < 0  -> "WEAKENING"
         [] r.ratio < 0 /\ r.momentum < 0   -> "LAGGING"
         [] OTHER -> "IMPROVING"
\* The last point of the series of s against the benchmark: None without bars of
\* either, unknown deviations while a window is still filling.
RrgPoint(bar, rrg, s, benchmark) ==
  IF s \notin DOMAIN bar \/ benchmark \notin DOMAIN bar THEN None
  ELSE IF None \in {bar[s].last, bar[benchmark].last} THEN None ELSE rrg[s]

RotationState(quadrant) ==
  IF quadrant = "IMPROVING" THEN "STRENGTHENING" ELSE quadrant

-----------------------------------------------------------------------------
(* Scores of known parts. *)

\* Normal CDF of a whole z-score, in percent.
ToProbability(z) ==
  IF z = None THEN None
  ELSE [k \in -3..3 |-> <<0, 2, 16, 50, 84, 98, 100>>[k + 4]][Clamped(-3, z, 3)]
Percent(v) == IF v = None THEN None ELSE Clamped(0, v, 100)

SectorWeight ==   \* sector_score_weight_..., equal shares of 12.5
  [p \in {"relative_strength", "rrg_momentum", "momentum", "trend", "price_performance",
          "momentum_acceleration", "breadth", "volume_participation"} |-> 1]
\* f: the features of the sector's index; no membership list exists, so breadth
\* and volume participation are never known.
SectorParts(point, f) ==
  [relative_strength |-> ToProbability(point.ratio),
   rrg_momentum |-> ToProbability(point.momentum),
   momentum |->
     IF f = None \/ f.momentum_score = None THEN None ELSE Percent((f.momentum_score + 100) \div 2),
   trend |-> IF f = None THEN None ELSE Percent(f.trend_strength),
   price_performance |-> IF f = None THEN None ELSE ToProbability(f.performance_z),
   momentum_acceleration |-> IF f = None THEN None ELSE ToProbability(f.acceleration_z),
   breadth |-> None, volume_participation |-> None]
SectorEvidence(bar, rrg, feats, s, benchmark) ==
  LET point == RrgPoint(bar, rrg, s, benchmark)
  IN  IF point = None THEN None
      ELSE [sector |-> s, state |-> RotationState(ClassifyQuadrant(point)),
            score |-> Mean(SectorParts(point, feats[s]), SectorWeight)]
\* The sectors that have evidence; the others are listed as no_data.
SectorRotation(bar, rrg, feats, sectors, benchmark) ==
  {SectorEvidence(bar, rrg, feats, s, benchmark) : s \in sectors} \ {None}

-----------------------------------------------------------------------------
(* Regime. *)

IndexTrendScore(direction, strength) ==
  IF None \in {direction, strength} THEN None
  ELSE [up |-> Percent(strength), down |-> 100 - Percent(strength), sideways |-> 50][direction]
AverageMaPct(emas) ==
  LET known == Known(emas)
  IN  IF known = {} THEN None ELSE Total(known, emas) \div Cardinality(known)
VolatilityScore(z) == IF z = None THEN None ELSE ToProbability(-z)
SectorParticipation(evidence) ==
  LET strong == {e \in evidence : e.state \in {"LEADING", "STRENGTHENING"}}
  IN  Pct(Cardinality(strong), Cardinality(evidence))

RegimeWeight ==   \* market_regime_weight_..., a seventh each
  [p \in {"advance_decline", "up_down_volume", "pct_above_ma", "new_highs_lows", "index_trend",
          "volatility", "sector_participation"} |-> 1]
RegimeParts(bar, rrg, feats, sectors, benchmark) ==
  LET breadth == Breadth(bar, feats)
      index   == IF benchmark \in DOMAIN feats THEN feats[benchmark] ELSE None
  IN  [advance_decline |-> breadth.advance_decline,
       up_down_volume |-> breadth.up_down_volume,
       pct_above_ma |-> AverageMaPct(breadth.ema),
       new_highs_lows |-> breadth.new_highs_lows,
       index_trend |->
         IF index = None THEN None ELSE IndexTrendScore(index.trend_direction, index.trend_strength),
       volatility |-> IF index = None THEN None ELSE VolatilityScore(index.width_z),
       sector_participation |->
         SectorParticipation(SectorRotation(bar, rrg, feats, sectors, benchmark))]
ClassifyRegime(score) ==   \* thirds of 0..100
  IF score = None THEN None
  ELSE IF score >= 6667 THEN "SUPPORTIVE" ELSE IF score <= 3333 THEN "RISK_OFF" ELSE "NEUTRAL"
MarketRegime(bar, rrg, feats, sectors, benchmark, day) ==
  LET score == Mean(RegimeParts(bar, rrg, feats, sectors, benchmark), RegimeWeight)
  IN  [score |-> score, regime |-> ClassifyRegime(score), as_of |-> AsOf(bar, day)]
=============================================================================
