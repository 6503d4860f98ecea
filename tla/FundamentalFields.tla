--------------------------- MODULE FundamentalFields ---------------------------
(***************************************************************************)
(* Which fundamental fields a fetch delivers.  A reply to one provider     *)
(* call is its outcome and the values it reported, a function from field   *)
(* names; a value the parser cannot read is None.  Upstox is asked three   *)
(* statements, Trendlyne an overview and two calls that enrich it.  The    *)
(* data of an answer is a function on the fields that are known.           *)
(***************************************************************************)
EXTENDS Scoring, TLC

Sources == INSTANCE FundamentalSources

IncomeFields == {"revenue_ttm", "net_profit_ttm"}
CashFlowFields == {"operating_cash_flow"}
RatioFields == {"pe", "pb", "roe", "roce", "ev_ebitda"}           \* _KEY_RATIO_FIELD_MAP
TableFields ==                                                    \* _FUNDAMENTAL_FIELD_MAP
  {"market_cap", "pe", "pb", "peg", "dividend_yield", "revenue_ttm", "net_profit_ttm",
   "operating_cash_flow", "roe"}
SummaryFields == {"promoter_holding", "fii_holding"}              \* _SUMMARY_FIELD_MAP
ChartFields == {"dii_holding", "promoter_pledge"}
TargetedFields == {"roce", "debt_to_equity"}                      \* _TARGETED_MULTI_STOCK_FIELDS

\* The readable values of a reply among the fields its parser looks for.
Taken(reply, fields) ==
  [f \in {g \in fields \cap DOMAIN reply.values : reply.outcome = "data" /\ reply.values[g] # None}
     |-> reply.values[f]]

UpstoxData(u) ==
  Taken(u.income, IncomeFields) @@ Taken(u.cashFlow, CashFlowFields) @@ Taken(u.ratios, RatioFields)

\* The chart series of the ownership reply; its summary never replaces a field
\* the overview set.
ApplyShareholding(overview, holdings) ==
  Taken(holdings, ChartFields) @@ overview @@ Taken(holdings, SummaryFields)
\* The two targeted metrics, only when the reply is about the symbol asked for.
ApplyTargeted(data, multi) ==
  IF multi.resolved THEN Taken(multi, TargetedFields) @@ data ELSE data
ParseOverview(overview) == Taken(overview, TableFields \cup SummaryFields)
TrendlyneData(t) ==
  LET owners == ApplyShareholding(ParseOverview(t.overview), t.holdings)
  IN  IF t.holdings.outcome = "limited" THEN owners ELSE ApplyTargeted(owners, t.multi)

\* get_fundamentals_with_status: the first source with data answers alone.
\* (The ISIN is known and nothing is cached.)
UpstoxStatus(u) ==
  Sources!UpstoxAnswer(TRUE, u.income.outcome, u.cashFlow.outcome, u.ratios.outcome)
TrendlyneStatus(t) ==
  Sources!TrendlyneAnswer(FALSE, t.overview.outcome, t.holdings.outcome, t.multi.outcome)
FetchAnswer(replies) ==
  LET u == UpstoxStatus(replies.upstox)
      t == TrendlyneStatus(replies.trendlyne)
  IN  [status |-> Sources!FirstAnswer(u, t).status,
       data |-> IF u.data THEN UpstoxData(replies.upstox)
                ELSE IF t.data THEN TrendlyneData(replies.trendlyne) ELSE None]

\* get_fundamentals: field by field, the first source that knows a field.
MergedData(replies) ==
  LET u == IF UpstoxStatus(replies.upstox).data THEN UpstoxData(replies.upstox) ELSE << >>
      t == IF TrendlyneStatus(replies.trendlyne).data THEN TrendlyneData(replies.trendlyne) ELSE << >>
  IN  u @@ t
=============================================================================
