------------------------------- MODULE Scanners -------------------------------
(***************************************************************************)
(* The seven scanners.  A symbol's stored data d is a record of its latest *)
(* rows: daily (features), session (opening range, VWAP), bar (daily       *)
(* price) and range52 (trailing high and low), each of them None when      *)
(* there is no such row.  A scanner turns d into a context, validates it,  *)
(* decides whether it qualifies and scores it; the row it saves holds a    *)
(* snapshot of what it saw.                                                *)
(***************************************************************************)
EXTENDS FundamentalFields

Listed == {"breakout_v1", "vcp_v1", "momentum_v1", "orb_v1"}
Candidate == {"fno_momentum_v1", "pre_breakout_v1", "ipo_intraday_v1"}
Scanner == Listed \cup Candidate

MinRvol == 15        \* fno_momentum_min_rvol and the other scanners' 1.5, in tenths
MinAdx == 20         \* fno_momentum_min_adx, scanner_breakout_adx_threshold
Proximity == 500     \* pre_breakout_proximity_pct, in hundredths
NearResistance == 3  \* scanner_breakout_resistance_proximity_pct
MinMomentum == 50    \* scanner_momentum_min_score
MinScore ==          \* the candidate scanners' minimum overall score
  [fno_momentum_v1 |-> 6000, pre_breakout_v1 |-> 5500, ipo_intraday_v1 |-> 5500]

Price(d) == IF d.bar = None THEN None ELSE d.bar.close
Vwap(d) == IF d.session = None THEN None ELSE d.session.session_vwap

-----------------------------------------------------------------------------
(* The composite of the four listed scanners; daily may be None for ORB. *)

Daily0(d) ==   \* missing features fall back to the neutral value of each part
  IF d.daily # None THEN d.daily
  ELSE [trend_strength |-> None, momentum_score |-> None, relative_volume |-> None,
        atr_expansion |-> FALSE, atr_contraction |-> FALSE, rs_vs_nifty |-> None,
        resistance_level |-> None]
Or0(v) == IF v = None THEN 0 ELSE v
Distance(p, r) == IF p >= r THEN p - r ELSE r - p
NearScore(d, r) ==   \* _resistance_proximity_score
  IF None \in {r, Price(d)} \/ r = 0 THEN 0
  ELSE Max({0, 100 - (10000 * Distance(Price(d), r)) \div (NearResistance * r)})
Composite(d) ==
  LET f == Daily0(d)
      volatility == IF f.atr_expansion THEN 100 ELSE IF f.atr_contraction THEN 30 ELSE 60
      strength == IF f.rs_vs_nifty = None THEN 50 ELSE Clamped(0, 50 + f.rs_vs_nifty, 100)
  IN  Clamped(0, 25 * Or0(f.trend_strength) + 10 * (Or0(f.momentum_score) + 100)
                 + 20 * Min({5 * Or0(f.relative_volume), 100}) + 10 * volatility
                 + 10 * strength + 15 * NearScore(d, f.resistance_level), 10000)

-----------------------------------------------------------------------------
(* Candidates. *)

DetectSetup(f, price) ==   \* _detect_setup_state
  LET r == f.resistance_level
      above == PctAbove(price, r)
  IN  IF r = None \/ r = 0 THEN None
      ELSE CASE above >= -Proximity /\ above < 0 -> "PRE_BREAKOUT"
             [] above \in 0..Proximity /\ Or0(f.relative_volume) >= MinRvol -> "BREAKOUT_CONFIRMED"
             [] above > Proximity /\ Or0(f.adx14) >= MinAdx -> "MOMENTUM"
             [] OTHER -> None

UniverseOf(scanner, member) ==
  CASE scanner = "fno_momentum_v1" -> "FNO"
    [] scanner = "ipo_intraday_v1" -> "IPO"
    [] scanner = "pre_breakout_v1" -> IF "IPO" \in member THEN "IPO" ELSE "FNO"
    [] OTHER -> "LISTED"

\* The candidate build_candidate makes; fundamentals are always still pending.
BuildCandidate(scanner, d, member) ==
  LET factors == TechnicalFactors(Price(d), d.daily, Vwap(d))
      technical == TechnicalScore(factors)
  IN  [universe |-> UniverseOf(scanner, member), setup_state |-> DetectSetup(d.daily, Price(d)),
       feature_date |-> d.daily.date, technical_factors |-> factors, technical_score |-> technical,
       fundamental_score |-> FundamentalScore(None), fundamental_status |-> "PENDING",
       overall_score |-> CombineScores(FundamentalScore(None), technical),
       quality |-> QualityFromScore(CombineScores(FundamentalScore(None), technical)),
       price |-> Price(d)]

-----------------------------------------------------------------------------
(* What a scanner sees, requires and decides. *)

HasContext(scanner, d) ==   \* build_context_bulk
  CASE scanner = "orb_v1" -> d.session # None
    [] scanner \in Candidate -> d.daily # None /\ d.bar # None
    [] OTHER -> d.daily # None

ListedSnapshot(d) == Merged([price |-> Price(d)], d.daily)
OrbSnapshot(d) ==
  Merged([price |-> Price(d), price_date |-> IF d.bar = None THEN None ELSE d.bar.date], d.session)
CandidateSnapshot(scanner, d, member) ==
  Merged(BuildCandidate(scanner, d, member), Merged(d.daily, [session_vwap |-> Vwap(d)]))
Snapshot(scanner, d, member) ==
  CASE scanner = "orb_v1" -> OrbSnapshot(d)
    [] scanner \in Candidate -> CandidateSnapshot(scanner, d, member)
    [] OTHER -> ListedSnapshot(d)

ScanDate(scanner, d, today) ==
  CASE scanner = "orb_v1" -> d.session.date
    [] scanner \in Candidate -> today
    [] OTHER -> d.daily.date

Missing(f, fields) == {k \in fields : f[k] = None}
BreakoutFields == {"ema20", "ema50", "ema200", "adx14", "relative_volume", "resistance_level"}
InRange(f) == f.adx14 \in 0..100 /\ f.relative_volume \in 0..10000
OrbValid(d) ==
  /\ Price(d) # None
  /\ None \notin {d.session.opening_range_high, d.session.opening_range_low}
  /\ d.bar.date = d.session.date
CandidateValid(scanner, d, member) ==
  \/ UniverseOf(scanner, member) = "IPO"
  \/ /\ DetectSetup(d.daily, Price(d)) # None
     /\ Missing(d.daily, {"adx14", "relative_volume"}) = {}
Valid(scanner, d, member) ==
  CASE scanner = "breakout_v1" ->
         Price(d) # None /\ Missing(d.daily, BreakoutFields) = {} /\ InRange(d.daily)
    [] scanner = "vcp_v1" -> Price(d) # None
    [] scanner = "momentum_v1" -> d.daily.momentum_score # None
    [] scanner = "orb_v1" -> OrbValid(d)
    [] OTHER -> CandidateValid(scanner, d, member)

Breakout(f, price) ==
  /\ price > f.ema20 /\ f.ema20 > f.ema50 /\ f.ema50 > f.ema200
  /\ f.adx14 > MinAdx /\ f.relative_volume > MinRvol
  /\ f.resistance_level # 0
  /\ 100 * Distance(price, f.resistance_level) <= NearResistance * f.resistance_level
Vcp(f) == f.pattern_vcp
Momentum(f) == f.momentum_score >= MinMomentum
OpeningRangeBreak(d) ==
  \/ Price(d) > d.session.opening_range_high
  \/ Price(d) < d.session.opening_range_low

AtLeast(v, bound) == v # None /\ v >= bound
FnoMomentum(f, c) ==
  /\ c.setup_state \in {"MOMENTUM", "BREAKOUT_CONFIRMED"}
  /\ AtLeast(f.relative_volume, MinRvol) /\ AtLeast(f.adx14, MinAdx)
PreBreakout(c) == c.setup_state = "PRE_BREAKOUT"
IpoFilters(d) ==   \* the four price and volume filters of ipo_intraday_v1
  /\ d.range52 # None
  /\ 0 < d.range52.high - Price(d)
  /\ 100 * (d.range52.high - Price(d)) < 10 * d.range52.high
  /\ Price(d) > 2 * d.range52.low
  /\ Price(d) > 25
  /\ d.bar.volume > 250
IpoIntraday(d, c) == c.setup_state # None /\ AtLeast(d.daily.relative_volume, MinRvol) /\ IpoFilters(d)

Qualifies(scanner, d, member) ==
  LET f == d.daily
      c == BuildCandidate(scanner, d, member)
  IN  CASE scanner = "breakout_v1" -> Breakout(f, Price(d))
        [] scanner = "vcp_v1" -> Vcp(f)
        [] scanner = "momentum_v1" -> Momentum(f)
        [] scanner = "orb_v1" -> OpeningRangeBreak(d)
        [] OTHER ->
             /\ c.overall_score >= MinScore[scanner]
             /\ CASE scanner = "fno_momentum_v1" -> FnoMomentum(f, c)
                  [] scanner = "pre_breakout_v1" -> PreBreakout(c)
                  [] OTHER -> IpoIntraday(d, c)

AlertCategory(scanner, c) ==   \* alert_category of a qualified candidate
  CASE c.setup_state = "PRE_BREAKOUT" -> c.universe \o "_PRE_BREAKOUT"
    [] c.setup_state = "MOMENTUM" -> c.universe \o "_MOMENTUM"
    [] OTHER -> c.universe \o "_BREAKOUT"

ScoreOf(scanner, d, member) ==
  IF scanner \in Candidate THEN BuildCandidate(scanner, d, member).overall_score ELSE Composite(d)
=============================================================================
