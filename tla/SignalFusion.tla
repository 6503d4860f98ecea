----------------------------- MODULE SignalFusion -----------------------------
(***************************************************************************)
(* The composite score of Path B.  The 60-second momentum job computes the *)
(* market regime once and then fuses, symbol by symbol, whatever evidence  *)
(* the stores hold: technical and volume features, open interest, relative *)
(* rotation, the regime, news and fundamentals.  Meanwhile bars and        *)
(* features are stored, the open-interest engine fetches and commits its   *)
(* readings in steps, and time passes.                                     *)
(***************************************************************************)
EXTENDS MarketEvidence, OpenInterest, Catalysts

CONSTANTS
  Stock,          \* symbols the scanners qualified
  Underlying,     \* the F&O-eligible one of them
  Sectors,        \* regime_sector_symbol_list
  Benchmark,      \* feature_rs_benchmark_symbol
  Contracts,      \* NSE_FO records: [type, expiry, listed]
  Chains,         \* replies of /option/chain
  Histories,      \* daily bars of a futures contract
  Articles,       \* what /v2/news may hold: [token, published, ...]
  Injected,       \* whether compute() has a news provider (the coordinator's has none)
  Prices,         \* a daily bar: [close, high, low, volume]
  Vwaps,          \* session VWAPs, None when a session has none
  Features,       \* daily features a symbol may have
  Readings,       \* RRG readings
  FirstBars, FirstFeatures, FirstReadings,   \* what is stored at the start, per symbol
  Fundamental,    \* cached fundamental data of a stock, or None
  ReadBack,       \* rows _score_oi reads (20)
  MaxTime,        \* bound: half days
  MaxChanges,     \* bound: stored bars, sessions and feature rows
  MaxOiRuns         \* bound: open-interest runs

ASSUME SymbolsOK == Underlying \in Stock /\ Benchmark \notin Stock
\* The exchange lists futures in the order of their expiries (external; it does
\* not hold of options, whose weekly series are listed late).
ASSUME ContractsOK ==
  \A c \in Contracts :
    /\ c.expiry \in Nat /\ c.listed \in Nat
    /\ \A d \in Contracts : {c.type, d.type} = {"FUT"} /\ c.listed < d.listed => c.expiry <= d.expiry

\* What the stores may hold: an unknown number is None, a symbol has its newest
\* bar, features and reading, or None.
Instrument == Stock \cup Sectors \cup {Benchmark}
Unknown == Int \cup {None}
BarRow(b) == b.last # None => b.last.volume \in Int
FeatureRow(f) ==
  f # None => /\ f.trend_direction \in {"up", "sideways", "down", None}
              /\ {f.relative_volume, f.trend_strength, f.width_z} \subseteq Unknown
ReadingRow(r) == r # None => {r.ratio, r.momentum} \subseteq Unknown
ASSUME StoresOK ==
  /\ IsFiniteSet(Instrument) /\ \A p \in Prices : p.volume \in Int
  /\ {DOMAIN FirstBars, DOMAIN FirstFeatures, DOMAIN FirstReadings} = {Instrument}
  /\ \A s \in Instrument :
       BarRow(FirstBars[s]) /\ FeatureRow(FirstFeatures[s]) /\ ReadingRow(FirstReadings[s])
  /\ \A f \in Features : FeatureRow(f)
  /\ \A r \in Readings : ReadingRow(r)
ASSUME ArticlesOK == IsFiniteSet(Articles) /\ \A a \in Articles : a.published \in Unknown
ASSUME FusionBoundsOK ==
  /\ ReadBack \in Nat \ {0} /\ Injected \subseteq BOOLEAN
  /\ MaxTime \in Nat /\ MaxChanges \in Nat /\ MaxOiRuns \in Nat

VARIABLES
  now,
  bar, feats, rrg,   \* stored bars, features and readings per symbol
  vwap,      \* VWAP of the newest session row of a stock, None without one
  changes,
  records,   \* the provider's cached NSE_FO records, or None
  engine,    \* OiEngine: [step, asked, contract, readings]
  oi,        \* oi_observations of Underlying
  runs,      \* open-interest runs so far
  regime,    \* MarketRegimeEvidence of the job's run, or None
  waiting,   \* stocks this run has still to evaluate, None between runs
  results    \* what this run computed

stores == <<bar, feats, rrg, vwap, changes>>
derivatives == <<records, engine, oi, runs>>
fusionVars == <<now, stores, derivatives, regime, waiting, results>>

Idle == [step |-> "idle", asked |-> 0, contract |-> None, readings |-> {}]

FusionInit ==
  /\ now = 0
  /\ bar = FirstBars /\ feats = FirstFeatures /\ rrg = FirstReadings
  /\ vwap = [s \in Stock |-> None] /\ changes = 0
  /\ records = None /\ engine = Idle /\ oi = {} /\ runs = 0
  /\ regime = None /\ waiting = None /\ results = {}

-----------------------------------------------------------------------------
(* Stores. *)

Tick == now < MaxTime /\ now' = now + 1 /\ UNCHANGED <<stores, derivatives, regime, waiting, results>>

\* What the reads of the two newest bars and of the extremes of the year see once
\* a bar is added to those b stands for.
Ranked(b, new) == [last |-> new, prior |-> b.last]
Extremes(b, new) ==
  [high |-> IF b.last = None THEN new.high ELSE Max({b.high, new.high}),
   low |-> IF b.last = None THEN new.low ELSE Min({b.low, new.low})]
\* The daily job stores the bar of the day.
StoreBar(s, prices) ==
  LET b == bar[s]
      new == [date |-> Day(now), close |-> prices.close, high |-> prices.high, low |-> prices.low,
              volume |-> prices.volume]
  IN  /\ changes < MaxChanges /\ changes' = changes + 1
      /\ b.last # None => b.last.date < Day(now)
      /\ bar' = [bar EXCEPT ![s] = Merged(Ranked(b, new), Extremes(b, new))]
      /\ UNCHANGED <<now, feats, rrg, vwap, derivatives, regime, waiting, results>>

\* run_session: the newest session row of a stock, the price of which may be of
\* another day.
StoreSession(s, v) ==
  /\ changes < MaxChanges /\ changes' = changes + 1
  /\ vwap' = [vwap EXCEPT ![s] = v]
  /\ UNCHANGED <<now, bar, feats, rrg, derivatives, regime, waiting, results>>

\* run_daily; the series that RRG normalizes moves with the bars.
StoreFeatures(s, f, reading) ==
  /\ changes < MaxChanges /\ changes' = changes + 1
  /\ bar[s].last # None /\ feats[s] # f
  /\ feats' = [feats EXCEPT ![s] = f]
  /\ rrg' = [rrg EXCEPT ![s] = reading]
  /\ UNCHANGED <<now, bar, vwap, derivatives, regime, waiting, results>>

-----------------------------------------------------------------------------
(* OiEngine.run for its symbol: two provider calls, then one transaction.  *)

Listed(t) == {c \in Contracts : c.listed <= t}
\* Downloaded on first use, and kept for the life of the provider.
AllFnoRecords == IF records = None THEN Listed(now) ELSE records

FetchChain(chain) ==
  LET expiry == NearestExpiry(AllFnoRecords, now)
  IN  /\ engine.step = "idle" /\ runs < MaxOiRuns
      /\ runs' = runs + 1
      /\ records' = AllFnoRecords
      /\ engine' = [Idle EXCEPT !.step = "futures",
                                !.readings = IF expiry = None THEN {} ELSE ReadingsFromChain(chain, expiry, now)]
      /\ UNCHANGED <<now, stores, oi, regime, waiting, results>>

FetchFutures(history) ==
  LET contract == NearestContract(AllFnoRecords, "FUT", now)
      reading  == IF contract = None THEN None ELSE ReadingFromBars(history, contract, StartOfDay(now))
  IN  /\ engine.step = "futures"
      /\ records' = AllFnoRecords
      /\ engine' = [engine EXCEPT !.step = "commit", !.asked = now, !.contract = contract,
                                  !.readings = @ \cup ({reading} \ {None})]
      /\ UNCHANGED <<now, stores, oi, runs, regime, waiting, results>>

CommitReadings ==
  /\ engine.step = "commit"
  /\ oi' = oi \cup {Merged([run |-> runs], r) : r \in engine.readings}
  /\ engine' = Idle
  /\ UNCHANGED <<now, stores, records, runs, regime, waiting, results>>

\* An exception is counted for the symbol; nothing of its run is stored.
EngineFails ==
  /\ engine.step # "idle"
  /\ engine' = Idle
  /\ UNCHANGED <<now, stores, records, oi, runs, regime, waiting, results>>

\* A new provider instance downloads the records again.
Restart ==
  /\ records # None /\ engine.step = "idle" /\ waiting = None
  /\ records' = None
  /\ UNCHANGED <<now, stores, engine, oi, runs, regime, waiting, results>>

-----------------------------------------------------------------------------
(* Components: a score in hundredths, None when the evidence is missing.   *)

Weight == [technical |-> 25, volume |-> 15, oi |-> 15, sector_rrg |-> 15, market_regime |-> 10,
           news |-> 10, fundamentals |-> 10]   \* signal_fusion_weight_..., in percent

ScoreTechnical(s) ==
  IF feats[s] = None \/ bar[s].last = None THEN None
  ELSE TechnicalScore(TechnicalFactors(bar[s].last.close, feats[s], vwap[s]))
ScoreRelativeVolume(s) ==   \* relative volume in tenths
  IF feats[s] = None \/ feats[s].relative_volume = None THEN None
  ELSE 100 * Min({5 * feats[s].relative_volume, 100})
ScoreOi(row) ==
  IF row = None THEN None
  ELSE CASE row.class \in {"LONG_BUILDUP", "SHORT_COVERING"} -> 7500
         [] row.class \in {"SHORT_BUILDUP", "LONG_UNWINDING"} -> 2500
         [] OTHER -> 5000
ScoreSectorRrg(s) ==
  LET point == RrgPoint(bar, rrg, s, Benchmark)
  IN  IF ClassifyQuadrant(point) = None THEN None
      ELSE 100 * Clamped(0, 50 + 10 * (point.ratio + point.momentum), 100)
ScoreMarketRegime(evidence) == IF evidence = None THEN None ELSE evidence.score
ScoreCatalysts(s, injected, fails) ==
  LET score == ScoreNews(GetNews(Articles, s, fails), now)
  IN  IF ~injected \/ score = None THEN None ELSE 100 * score
ScoreFundamentals(s) == FundamentalScore(Fundamental[s])

Components(s, evidence, row, injected, fails) ==
  [technical |-> ScoreTechnical(s), volume |-> ScoreRelativeVolume(s), oi |-> ScoreOi(row),
   sector_rrg |-> ScoreSectorRrg(s), market_regime |-> ScoreMarketRegime(evidence),
   news |-> ScoreCatalysts(s, injected, fails), fundamentals |-> ScoreFundamentals(s)]

OverallScoreZeros(c) ==   \* mutant: `score or 0.0` over every component
  IF Known(c) = {} THEN None
  ELSE Rounded(WeightedSum(Known(c), c, Weight), Total(DOMAIN c, Weight))
\* _assemble
OverallScore(c) ==
  IF Known(c) = {} THEN None
  ELSE Rounded(WeightedSum(Known(c), c, Weight), Total(Known(c), Weight))
Confidence(c) == (100 * Total(Known(c), Weight)) \div Total(DOMAIN c, Weight)

-----------------------------------------------------------------------------
(* The momentum job up to the fused score. *)

MinConfidence == 40   \* pipeline_min_confidence_pct

CurrentRegime == MarketRegime(bar, rrg, feats, Sectors, Benchmark, Day(now))
\* Best effort: the run goes on without the regime when it cannot be computed.
BeginJob(fails) ==
  /\ waiting = None
  /\ regime' = IF fails THEN None ELSE CurrentRegime
  /\ waiting' = Stock /\ results' = {}
  /\ UNCHANGED <<now, stores, derivatives>>

RegimeOfNow(evidence) == IF evidence = None THEN None ELSE CurrentRegime   \* mutant
RegimeOf(evidence) == evidence

Scored(c) == OverallScore(c) # None /\ Confidence(c) >= MinConfidence
Evaluate(s, row, injected, fails) ==
  LET c == Components(s, RegimeOf(regime), row, injected, fails)
  IN  /\ waiting # None /\ s \in waiting
      /\ row \in IF s = Underlying THEN FuturesSeen(oi, ReadBack) ELSE {None}
      /\ results' = results \cup
           {[symbol |-> s, at |-> now, parts |-> c, overall |-> OverallScore(c),
             confidence |-> Confidence(c), verdict |-> IF Scored(c) THEN "SCORED" ELSE "REJECT"]}
      /\ waiting' = waiting \ {s}
      /\ UNCHANGED <<now, stores, derivatives, regime>>

EndJob ==
  /\ waiting = {}
  /\ waiting' = None /\ regime' = None /\ results' = {}
  /\ UNCHANGED <<now, stores, derivatives>>

Rows == oi \cup {None}
FusionNext ==
  \/ Tick
  \/ \E s \in Instrument, p \in Prices : StoreBar(s, p)
  \/ \E s \in Stock, v \in Vwaps : StoreSession(s, v)
  \/ \E s \in Instrument, f \in Features, r \in Readings : StoreFeatures(s, f, r)
  \/ \E chain \in Chains : FetchChain(chain)
  \/ \E history \in Histories : FetchFutures(history)
  \/ CommitReadings
  \/ EngineFails
  \/ Restart
  \/ \E fails \in BOOLEAN : BeginJob(fails)
  \/ \E s \in Stock, row \in Rows, injected \in Injected, fails \in BOOLEAN :
       Evaluate(s, row, injected, fails)
  \/ EndJob

FusionSpec == FusionInit /\ [][FusionNext]_fusionVars

-----------------------------------------------------------------------------
(* Properties. *)

\* Bars and features stored while the job is walking its symbols never give two
\* symbols of one run different market regimes (compute's market_regime is
\* handed in, not recomputed per symbol).
OneRegimePerRun ==
  \A r, q \in results : r.parts.market_regime = q.parts.market_regime

\* Only evidence moves the score: a missing component neither raises nor lowers
\* it, an article outside the stale window or under another symbol's key gives
\* none, and a symbol without futures readings has no open interest.
EvidenceOnly ==
  \A r \in results :
    LET known == {r.parts[n] : n \in Known(r.parts)}
    IN  /\ r.overall # None => r.overall \in Min(known)..Max(known)
        /\ r.parts.news # None =>
             \E a \in Articles : a.token = r.symbol /\ Parsed(a) /\ a.published >= r.at - StaleWindow
        /\ r.parts.oi # None => r.symbol = Underlying /\ NewestFutures(oi) # {}

\* The futures contract a run reads is the one closest to its expiry among those
\* still open on the exchange, however old the cached records are.
ReadsNearestContract ==
  engine.contract # None =>
    \A c \in Open(Listed(engine.asked), engine.asked) :
      c.type = "FUT" => engine.contract.expiry \in engine.asked..c.expiry

\* Violated: records cached before every contract in them expired hide the ones
\* listed since, until the provider is replaced.
FutureIsFound ==
  engine.step = "commit" /\ engine.contract = None =>
    \A c \in Open(Listed(engine.asked), engine.asked) : c.type # "FUT"
\* Violated: stored option legs are stamped with the time of the run and the
\* futures bar with the start of its day, so the legs alone fill the newest rows.
FuturesAreSeen == NewestFutures(oi) # {} => None \notin FuturesSeen(oi, ReadBack)
\* Violated: the futures rows of two runs of one day carry the same time.
LatestRunIsUsed ==
  \A r \in FuturesSeen(oi, ReadBack) \ {None} :
    \A q \in oi : q.type = "FUT" => q.run <= r.run
\* Violated: the newest bar of a symbol that stopped trading counts as today's.
BreadthIsOfOneDay ==
  \A s \in Instrument : bar[s].last # None => bar[s].last.date = AsOf(bar, Day(now))
=============================================================================
