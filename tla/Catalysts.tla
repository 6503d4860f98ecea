------------------------------- MODULE Catalysts ------------------------------
(***************************************************************************)
(* News articles of a symbol: which of the reply's articles are kept, what *)
(* kind of catalyst they are and how much they weigh.  The text of an      *)
(* article is abstracted to the keyword lists it hits: a set of topics and *)
(* the numbers of positive and negative keywords in it.  Time is counted   *)
(* in half days.                                                           *)
(***************************************************************************)
EXTENDS Scoring

StaleWindow == 2   \* catalyst_stale_news_window_hours

\* The keyword lists in the order they are tried.
EventTypes ==
  <<"RESULTS", "MERGER_ACQUISITION", "REGULATORY", "ORDER_WIN", "BROKER_ACTION", "DIVIDEND",
    "MANAGEMENT_COMMENTARY", "SECTOR_CATALYST">>
ClassifyEventType(a) ==
  LET hits == {k \in DOMAIN EventTypes : EventTypes[k] \in a.topics}
  IN  IF hits = {} THEN "OTHER" ELSE EventTypes[Min(hits)]
ClassifySentiment(a) ==
  IF a.positive > a.negative THEN "POSITIVE" ELSE IF a.negative > a.positive THEN "NEGATIVE" ELSE "NEUTRAL"
ClassifyFreshnessEver(published, now) == IF published >= now THEN "BREAKING" ELSE "RECENT"   \* mutant
\* A publication time in the future counts as now.
ClassifyFreshness(published, now) ==
  LET age == Max({0, now - published})
  IN  IF age = 0 THEN "BREAKING" ELSE IF age <= StaleWindow THEN "RECENT" ELSE "STALE"

ScoreMateriality(type) ==
  CASE type \in {"RESULTS", "MERGER_ACQUISITION", "REGULATORY"} -> "HIGH"
    [] type \in {"ORDER_WIN", "DIVIDEND", "BROKER_ACTION"} -> "MEDIUM"
    [] OTHER -> "LOW"
Normalize(a, now) ==
  [sentiment |-> ClassifySentiment(a), materiality |-> ScoreMateriality(ClassifyEventType(a)),
   freshness |-> ClassifyFreshness(a.published, now)]

-----------------------------------------------------------------------------
(* The provider's reply: raw articles under instrument keys. *)

\* Articles without a heading or a publication time are dropped, and so is every
\* key that was not asked for.
Parsed(a) == a.heading /\ a.published # None
Matched(reply, token) == {a \in reply : a.token = token /\ Parsed(a)}
\* A failed call, like a symbol that is not active, leaves no news.
GetNews(reply, token, fails) == IF fails \/ token = None THEN {} ELSE Matched(reply, token)

MaterialityWeight == [HIGH |-> 3, MEDIUM |-> 2, LOW |-> 1]
SentimentValue == [POSITIVE |-> 1, NEUTRAL |-> 0, NEGATIVE |-> -1]
\* 50 for balanced news, 0 and 100 at the extremes; None without recent news.
ScoreNews(articles, now) ==
  LET active == {a \in articles : Normalize(a, now).freshness # "STALE"}
      weight == [a \in active |-> MaterialityWeight[Normalize(a, now).materiality]]
      value  == [a \in active |-> SentimentValue[Normalize(a, now).sentiment]]
  IN  IF active = {} THEN None
      ELSE 50 + (50 * WeightedSum(active, value, weight)) \div Total(active, weight)
=============================================================================
