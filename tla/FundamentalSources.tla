-------------------------- MODULE FundamentalSources --------------------------
(***************************************************************************)
(* What the fundamental-data providers answer: Upstox from three statement *)
(* calls, Trendlyne from an overview call and two that enrich it, and      *)
(* MultiSourceFundamentalProvider from both.  An answer is a fetch status  *)
(* and whether data came with it.  Field values and the parsing of the     *)
(* responses are abstracted into the outcome of a call.                    *)
(***************************************************************************)
EXTENDS Naturals

(* What a call of _get and of call_tool comes back with.  A 404 or an      *)
(* empty statement is "nodata"; Trendlyne reports its limit as an error    *)
(* whose message says so.                                                  *)
UpstoxOutcome == {"data", "nodata", "limited", "error"}
TrendlyneOutcome == {"data", "limited", "error"}
FetchStatus == {"PENDING", "SUCCESS", "CACHED", "FAILED", "RATE_LIMITED"}

Failed == [status |-> "FAILED", data |-> FALSE]
Limited == [status |-> "RATE_LIMITED", data |-> FALSE]

(* known: the symbol's instrument token holds an ISIN. *)
UpstoxAnswer(known, income, cashFlow, ratios) ==
  LET calls == {income, cashFlow, ratios} IN
  IF ~known THEN Failed
  ELSE IF "data" \in calls THEN [status |-> "SUCCESS", data |-> TRUE]
  ELSE IF "limited" \in calls THEN Limited ELSE Failed

(* A fresh cache entry answers alone.  A rate limit of an enriching call   *)
(* keeps the overview's data; any other failure of it is ignored.          *)
TrendlyneAnswer(cached, overview, holdings, multi) ==
  IF cached THEN [status |-> "CACHED", data |-> TRUE]
  ELSE IF overview = "limited" THEN Limited
  ELSE IF overview = "error" THEN Failed
  ELSE IF "limited" \in {holdings, multi} THEN [status |-> "RATE_LIMITED", data |-> TRUE]
  ELSE [status |-> "SUCCESS", data |-> TRUE]

(* MultiSourceFundamentalProvider.get_fundamentals_with_status: the first  *)
(* source with data wins, else a rate limit outranks a failure.            *)
FirstAnswer(upstox, trendlyne) ==
  IF upstox.data THEN upstox
  ELSE IF trendlyne.data THEN trendlyne
  ELSE IF "RATE_LIMITED" \in {upstox.status, trendlyne.status} THEN Limited ELSE Failed

(* Every answer the queue can get for a symbol, by the configured sources  *)
(* and whether Trendlyne's cache holds the symbol.                         *)
Answers(sources, cached) ==
  LET upstox == IF "upstox" \in sources
                THEN {UpstoxAnswer(k, i, c, r) : k \in BOOLEAN, i, c, r \in UpstoxOutcome}
                ELSE {Failed}
      trendlyne == IF "trendlyne" \in sources
                   THEN {TrendlyneAnswer(cached, o, h, m) : o, h, m \in TrendlyneOutcome}
                   ELSE {Failed}
  IN {[asked |-> ~u.data, answer |-> FirstAnswer(u, t)] : u \in upstox, t \in trendlyne}
=============================================================================
