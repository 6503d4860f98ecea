------------------------------- MODULE Verdicts -------------------------------
(***************************************************************************)
(* One symbol from its stored data to the alert verdict.  A pipeline cycle *)
(* runs every scanner over the data and then judges every qualified row,   *)
(* the ones of earlier days included; between two cycles the price, the    *)
(* features and the opening range move to a new day on their own, the      *)
(* fundamental queue rescores a row and days pass.  A cycle finds the      *)
(* market open or closed.                                                  *)
(***************************************************************************)
EXTENDS DecisionRules

CONSTANTS
  Data,         \* the stored data a symbol may start with
  Members,      \* which of the F&O and IPO universes it may be in
  Closes,       \* closing prices a later daily bar may have
  Replies,      \* what the fundamental providers may reply to a fetch
  MaxDay,       \* bound: days
  MaxBars,      \* bound: later daily bars
  MaxFetches    \* bound: fundamental fetches

\* The columns of a features row the scanners read, and those of them that hold a
\* price level, a number or NULL.
FeatureFields ==
  {"date", "trend_direction", "trend_strength", "momentum_score", "rsi14", "macd_histogram", "adx14",
   "relative_volume", "accumulation_score", "distribution_score", "volatility_squeeze",
   "atr_expansion", "atr_contraction", "higher_high", "higher_low", "rs_vs_nifty", "ema20", "ema50",
   "ema200", "resistance_level", "support_level", "atr14", "swing_high", "swing_low", "pattern_vcp"}
LevelFields == {"resistance_level", "support_level", "atr14", "swing_high", "swing_low"}
Stored == Int \cup {None}
FeaturesOK(f) ==
  /\ f = [k \in FeatureFields |-> f[k]]
  /\ f.date \in Nat /\ f.trend_direction \in {"up", "sideways", "down", None}
  /\ \A k \in LevelFields : f[k] \in Stored
SessionRows ==
  [date : Nat, opening_range_high : Stored, opening_range_low : Stored, session_vwap : Stored]
BarRows == [date : Nat, close : Nat, volume : Nat]
StoredOK(d) ==
  /\ d = [daily |-> d.daily, session |-> d.session, bar |-> d.bar, range52 |-> d.range52]
  /\ d.daily # None => FeaturesOK(d.daily)
  /\ d.session # None => d.session \in SessionRows
  /\ d.bar # None => d.bar \in BarRows

ASSUME DataOK == None \notin Int /\ Closes \subseteq Nat /\ \A d \in Data : StoredOK(d)
ASSUME MembersOK == Members \subseteq SUBSET {"FNO", "IPO"}
ASSUME BoundsOK == MaxDay \in Nat /\ MaxBars \in Nat /\ MaxFetches \in Nat

VARIABLES
  day,       \* the market's calendar day
  member,    \* which of the two narrow universes the symbol is in
  data,      \* its latest stored rows
  rows,      \* scanner_results of the symbol
  verdicts,  \* what the decision run that just ended returned
  bars, fetches

verdictVars == <<day, member, data, rows, verdicts, bars, fetches>>

VerdictInit ==
  /\ day = 1
  /\ member \in Members
  /\ data \in Data
  /\ rows = {} /\ verdicts = {}
  /\ bars = 0 /\ fetches = 0

-----------------------------------------------------------------------------
(* The scanners. *)

InScope(s) == s \in Listed \/ (s = "pre_breakout_v1" /\ member # {}) \/ UniverseOf(s, member) \in member
HasRow(s) == \E r \in rows : r.scanner = s /\ r.date = ScanDate(s, data, day)
\* What scan() leaves in the snapshot of a candidate.
Annotated(s, qualified) ==
  LET snap == Snapshot(s, data, member)
  IN  IF s \in Candidate
      THEN Merged([alert_category |-> IF qualified THEN AlertCategory(s, snap) ELSE None], snap)
      ELSE snap
RowFor(s) ==
  LET qualified == Qualifies(s, data, member)
  IN  [scanner |-> s, date |-> ScanDate(s, data, day),
       status |-> IF qualified THEN "qualified" ELSE "rejected",
       score |-> ScoreOf(s, data, member), snap |-> Annotated(s, qualified),
       seen |-> IF data.daily = None THEN None ELSE data.daily.date]
Scanned ==
  {s \in Scanner : InScope(s) /\ HasContext(s, data) /\ ~HasRow(s) /\ Valid(s, data, member)}

\* The run of the decision engine over a set of rows, the market open or not.
Judge(rs, open) ==
  {[row |-> r, decision |-> Decision(r, day, open), quality |-> Quality(r, Decision(r, day, open)),
    failed |-> Failed(r, day), day |-> day, open |-> open] : r \in {q \in rs : q.status = "qualified"}}

Cycle(open) ==
  LET all == rows \cup {RowFor(s) : s \in Scanned}
  IN  /\ rows' = all
      /\ verdicts' = Judge(all, open)
      /\ UNCHANGED <<day, member, data, bars, fetches>>

-----------------------------------------------------------------------------
(* What happens between two cycles. *)

NewBar(close) ==   \* the daily job stores today's bar
  /\ bars < MaxBars
  /\ data.bar # None /\ data.bar.date < day
  /\ data' = [data EXCEPT !.bar.date = day, !.bar.close = close]
  /\ bars' = bars + 1
  /\ UNCHANGED <<day, member, rows, fetches>>
  /\ verdicts' = {}

NewFeatures ==     \* run_daily: the features follow the newest bar
  /\ data.bar # None /\ data.daily # None /\ data.daily.date < data.bar.date
  /\ data' = [data EXCEPT !.daily.date = data.bar.date]
  /\ UNCHANGED <<day, member, rows, bars, fetches>>
  /\ verdicts' = {}

NewSession ==      \* run_session: today's opening range
  /\ data.session # None /\ data.session.date < day
  /\ data' = [data EXCEPT !.session.date = day]
  /\ UNCHANGED <<day, member, rows, bars, fetches>>
  /\ verdicts' = {}

\* _process_one: data rescores the row and its parts, whatever the status; no
\* data only leaves the status of the attempt.  The verdict on the row's status
\* (qualified or rejected) is never revisited.
WithFundamentalsSnapshotOnly(r, answer) ==   \* mutant: the row's own score stays
  LET fundamental == FundamentalScore(answer.data)
  IN  IF answer.data = None THEN r
      ELSE [r EXCEPT !.snap =
              Merged([fundamental_score |-> fundamental,
                      overall_score |-> CombineScores(fundamental, r.snap.technical_score)], r.snap)]
WithFundamentals(r, answer) ==
  LET fundamental == FundamentalScore(answer.data)
      overall == CombineScores(fundamental, r.snap.technical_score)
  IN  IF answer.data = None THEN [r EXCEPT !.snap.fundamental_status = answer.status]
      ELSE [r EXCEPT !.score = overall,
                     !.snap = Merged([fundamental_score |-> fundamental, overall_score |-> overall,
                                      quality |-> QualityFromScore(overall),
                                      risk_flags |-> RiskFlags(answer.data),
                                      fundamental_status |-> answer.status], r.snap)]
Fetch(r, replies) ==
  /\ fetches < MaxFetches
  /\ r.scanner \in Candidate /\ r.snap.fundamental_status # "SUCCESS"
  /\ rows' = (rows \ {r}) \cup {WithFundamentals(r, FetchAnswer(replies))}
  /\ fetches' = fetches + 1
  /\ UNCHANGED <<day, member, data, bars>>
  /\ verdicts' = {}

NextDay ==
  /\ day < MaxDay
  /\ day' = day + 1
  /\ UNCHANGED <<member, data, rows, bars, fetches>>
  /\ verdicts' = {}

VerdictNext ==
  \/ \E open \in BOOLEAN : Cycle(open)
  \/ \E close \in Closes : NewBar(close)
  \/ NewFeatures
  \/ NewSession
  \/ \E r \in rows, replies \in Replies : Fetch(r, replies)
  \/ NextDay

VerdictSpec == VerdictInit /\ [][VerdictNext]_verdictVars

-----------------------------------------------------------------------------
(* Properties. *)

\* A row of breakout_v1, of fno_momentum_v1 or of the F&O side of
\* pre_breakout_v1 that qualified is never rejected for a missing feature: what
\* these scanners validate covers what check_required_features asks of their
\* snapshots (the two lists live in different packages).
TrustedWhenQualified ==
  \A v \in verdicts :
    \/ "required_features" \notin v.failed
    \/ v.row.scanner \in {"vcp_v1", "momentum_v1", "orb_v1"}
    \/ v.row.scanner \in Candidate /\ v.row.snap.universe = "IPO"

\* An alert was judged in an open market on features at most a day old, however
\* recently its scanner ran: a fresh scan of stale features must not read as
\* fresh (_effective_freshness_date).
AlertsAreCurrent ==
  \A v \in verdicts :
    v.decision = "ALERT" =>
      /\ v.open
      /\ v.row.scanner # "orb_v1" => v.row.seen # None /\ v.day - v.row.seen <= MaxDataAge

\* Rows keep the status their scanner gave them when the fundamental queue
\* rescores them; an alert still never goes out for a row that has fallen below
\* its own scanner's minimum, and it shows the score it was judged by.
AlertsMeetMinimum ==
  \A v \in verdicts :
    v.decision = "ALERT" /\ v.row.scanner \in Candidate =>
      /\ v.row.score >= MinScore[v.row.scanner]
      /\ v.row.score = v.row.snap.overall_score

\* However large the projected upside, a setup whose reward falls short of its
\* risk by more than half a percent is never a strong candidate (the plateau of
\* _UPSIDE_SCORE).  It may fall short by less: the ratio is rounded before it is
\* compared (StrongCoversRisk).  A stop that is known lies below the price.
Strong(snap) == Compounding(snap).decision = "STRONG_CANDIDATE" /\ Compounding(snap).ratio # None
StrongIsPaid ==
  \A r \in rows :
    /\ Strong(r.snap) => 200 * Reward(r.snap) >= 199 * Risk(r.snap)
    /\ DeriveStop(r.snap) # None => DeriveStop(r.snap) < 2 * r.snap.price

\* Violated: a reward of 499 for a risk of 501 is a ratio of 1.00.
StrongCoversRisk == \A r \in rows : Strong(r.snap) => Reward(r.snap) >= Risk(r.snap)

\* Violated: "any scanner not listed gets the permissive default" (rules.py),
\* yet no opening-range row ever passes it.
OrbIsTrusted ==
  \A v \in verdicts : v.row.scanner = "orb_v1" => "required_features" \notin v.failed

\* Violated: the freshness the explanation endpoint reports goes by the row's
\* scan date, the rule it reports beside it by the date of the features.
ExplainedFresh(v) == v.day - v.row.date <= MaxDataAge   \* get_explain, days_old
ExplanationAgrees ==
  \A v \in verdicts : ExplainedFresh(v) <=> "data_freshness" \notin v.failed

\* Violated: a row keeps its status when a fetch moves its score.
QualifiedMeetsMinimum ==
  \A r \in rows : r.scanner \in Candidate /\ r.status = "qualified" => r.score >= MinScore[r.scanner]

\* Violated: "Trendlyne only fills in what Upstox has no data for" (main.py).
\* The queue takes Upstox's fields alone, and these are never enough for a score.
FetchedIsScored ==
  \A r \in rows :
    r.scanner \in Candidate /\ r.snap.fundamental_status = "SUCCESS" => r.snap.fundamental_score # None
=============================================================================
