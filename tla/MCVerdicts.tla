----------------------------- MODULE MCVerdicts -----------------------------
(* Model-checking instance of Verdicts: resistance at 100, prices just below
   it, just through it and beyond it. *)
EXTENDS Verdicts

\* Three shapes of the features that only feed the scores.
Mood(m) ==
  CASE m = "strong" ->
         [trend_direction |-> "up", trend_strength |-> 90, momentum_score |-> 60, rsi14 |-> 60,
          macd_histogram |-> 1, accumulation_score |-> 30, distribution_score |-> 5,
          volatility_squeeze |-> TRUE, atr_expansion |-> TRUE, higher_high |-> TRUE,
          rs_vs_nifty |-> 40]
    [] m = "weak" ->
         [trend_direction |-> "down", trend_strength |-> 10, momentum_score |-> -40, rsi14 |-> 30,
          macd_histogram |-> -1, accumulation_score |-> 5, distribution_score |-> 40,
          volatility_squeeze |-> FALSE, atr_expansion |-> FALSE, higher_high |-> FALSE,
          rs_vs_nifty |-> -60]
    [] OTHER ->
         [trend_direction |-> None, trend_strength |-> None, momentum_score |-> None,
          rsi14 |-> None, macd_histogram |-> None, accumulation_score |-> None,
          distribution_score |-> None, volatility_squeeze |-> TRUE, atr_expansion |-> FALSE,
          higher_high |-> TRUE, rs_vs_nifty |-> None]

\* <<adx14, relative_volume, ema200>>: young, strong, strong but young
Strength == {<<None, None, None>>, <<28, 22, 80>>, <<28, 22, None>>}
\* get_52_week_high_low_bulk
Range52 == [high |-> 108, low |-> 40]

Daily(m, s, support, date) ==
  Mood(m) @@ [date |-> date, adx14 |-> s[1], relative_volume |-> s[2], ema20 |-> 95, ema50 |-> 90,
              ema200 |-> s[3], resistance_level |-> 100, support_level |-> support,
              atr14 |-> IF support = 70 THEN None ELSE 4, swing_high |-> 110, swing_low |-> 60,
              atr_contraction |-> FALSE, pattern_vcp |-> m = "strong", higher_low |-> TRUE]
Session(s) ==
  IF s[1] = None THEN None
  ELSE [date |-> 0, opening_range_high |-> 101, opening_range_low |-> 98, session_vwap |-> 99]
DataOf(m, s, support, close) ==
  [daily |-> Daily(m, s, support, 0), session |-> Session(s),
   bar |-> [date |-> 0, close |-> close, volume |-> 300], range52 |-> Range52]
\* Resistance at 1000 and support at 500: just through it, the measured move pays
\* 499 for a risk of 501, which rounds to a ratio of one.
Levels1000 ==
  {"ema20", "ema50", "ema200", "resistance_level", "swing_high", "swing_low", "high", "low",
   "opening_range_high", "opening_range_low", "session_vwap"}
Tenfold(f) == [k \in DOMAIN f |-> IF k \in Levels1000 /\ f[k] # None THEN 10 * f[k] ELSE f[k]]
JustThrough ==
  LET d == DataOf("strong", <<28, 22, 80>>, 70, 106)
  IN  [daily |-> [Tenfold(d.daily) EXCEPT !.support_level = 500], session |-> Tenfold(d.session),
       bar |-> [d.bar EXCEPT !.close = 1001], range52 |-> Tenfold(d.range52)]
DataValue ==
  {DataOf("strong", <<28, 22, 80>>, 96, close) : close \in {97, 106}}
  \cup {DataOf("strong", s, 96, 102) : s \in Strength}
  \cup {DataOf("strong", <<28, 22, 80>>, 70, 106), DataOf("weak", <<22, 16, 80>>, 96, 102),
        DataOf("unknown", <<28, 22, None>>, 96, 97)}
  \cup {JustThrough, [daily |-> None, session |-> Session(<<22>>), bar |-> None, range52 |-> None]}
MembersValue == {{"FNO"}, {"IPO"}}

Reply(values) == [outcome |-> "data", values |-> values]
Limited == [outcome |-> "limited", values |-> << >>]
Upstox ==
  [income |-> Reply([revenue_ttm |-> 900, net_profit_ttm |-> 90]),
   cashFlow |-> Reply([operating_cash_flow |-> 120]),
   ratios |-> Reply([pe |-> 12, pb |-> 2, roe |-> 30, roce |-> 30, ev_ebitda |-> None])]
UpstoxLimited == [income |-> Limited, cashFlow |-> Limited, ratios |-> Limited]
Trendlyne(v, debt, pledge) ==
  [overview |-> Reply([pe |-> 12, roe |-> v, operating_cash_flow |-> v, promoter_holding |-> 60]),
   holdings |-> Reply([promoter_holding |-> 55, promoter_pledge |-> pledge]),
   multi |-> Reply([roce |-> v, debt_to_equity |-> debt]) @@ [resolved |-> TRUE]]
BothReply == {[upstox |-> Upstox, trendlyne |-> Trendlyne(30, 1, 0)]}
RepliesValue ==
  BothReply \cup
  {[upstox |-> UpstoxLimited, trendlyne |-> Trendlyne(30, 1, 0)],
   [upstox |-> UpstoxLimited, trendlyne |-> Trendlyne(-5, 30, 40)]}
=============================================================================
