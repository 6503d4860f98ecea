----------------------------- MODULE OpenInterest -----------------------------
(***************************************************************************)
(* Open-interest readings of one underlying: the contract that is read,    *)
(* the reading made of a chain row or of the futures bars, and the rows    *)
(* the fusion reads back.  A contract is [type, expiry]; time is counted   *)
(* in half days, and a daily bar carries the start of its day.             *)
(***************************************************************************)
EXTENDS Scoring

Day(t) == t \div 2
StartOfDay(t) == 2 * Day(t)

-----------------------------------------------------------------------------
(* Contracts. *)

Open(contracts, now) == {c \in contracts : c.expiry >= now}
\* The open contract of a type with the soonest expiry.
NearestContractLast(contracts, type, now) ==   \* mutant: the last one listed
  LET candidates == {c \in contracts : c.type = type}
  IN  IF candidates = {} THEN None ELSE CHOOSE c \in candidates : \A d \in candidates : d.expiry <= c.expiry
NearestContract(contracts, type, now) ==
  LET candidates == {c \in Open(contracts, now) : c.type = type}
  IN  IF candidates = {} THEN None ELSE CHOOSE c \in candidates : \A d \in candidates : c.expiry <= d.expiry
NearestExpiry(contracts, now) ==
  LET open == Open(contracts, now)
  IN  IF open = {} THEN None ELSE Min({c.expiry : c \in open})

-----------------------------------------------------------------------------
(* Readings. *)

Classify(price, oi) ==   \* changes since the previous reading
  CASE None \in {price, oi} -> "NEUTRAL"
    [] None \notin {price, oi} /\ 0 \in {price, oi} -> "NEUTRAL"
    [] None \notin {price, oi} /\ price > 0 /\ oi > 0 -> "LONG_BUILDUP"
    [] None \notin {price, oi} /\ price < 0 /\ oi > 0 -> "SHORT_BUILDUP"
    [] None \notin {price, oi} /\ price > 0 /\ oi < 0 -> "SHORT_COVERING"
    [] OTHER -> "LONG_UNWINDING"
PercentChange(now, before) ==
  IF before = None \/ before = 0 THEN None ELSE (100 * (now - before)) \div before

\* A leg without instrument key or market data is dropped; a chain row bundles
\* its previous reading.
ParsedLegs(row) == {leg \in row.legs : leg.valid}
ReadingsFromChain(chain, expiry, now) ==
  UNION {{[type |-> leg.type, strike |-> row.strike, expiry |-> expiry, at |-> now,
           class |-> Classify(leg.price - leg.close, leg.oi - leg.prev_oi),
           oi_change_pct |-> PercentChange(leg.oi, leg.prev_oi)] : leg \in ParsedLegs(row)} :
         row \in chain}
\* The bars of a contract, oldest first: the last one, of the day that starts at
\* the time given, against the one before it.
ReadingFromBars(bars, contract, at) ==
  IF bars = << >> THEN None
  ELSE LET latest == bars[Len(bars)]
           prev   == IF Len(bars) >= 2 THEN bars[Len(bars) - 1] ELSE None
           price  == IF prev = None THEN None ELSE latest.close - prev.close
           oi     == IF prev = None THEN None ELSE latest.oi - prev.oi
       IN  [type |-> "FUT", strike |-> None, expiry |-> contract.expiry, at |-> at,
            class |-> Classify(price, oi),
            oi_change_pct |-> IF prev = None THEN None ELSE PercentChange(latest.oi, prev.oi)]

-----------------------------------------------------------------------------
(* Reading the rows back.  ORDER BY observed_at DESC LIMIT n leaves the    *)
(* order of rows with equal times to the database.                         *)

NewestRows(rows, limit) ==
  IF Cardinality(rows) <= limit THEN {rows}
  ELSE {S \in kSubset(limit, rows) : \A r \in S, q \in rows \ S : r.at >= q.at}
NewestFutures(rows) ==
  LET futures == {r \in rows : r.type = "FUT"}
  IN  {r \in futures : \A q \in futures : r.at >= q.at}
\* What _score_oi may find: the first futures row of the newest rows.
FuturesSeen(rows, limit) ==
  UNION {IF NewestFutures(S) = {} THEN {None} ELSE NewestFutures(S) : S \in NewestRows(rows, limit)}
LatestBuildups(rows) == {r \in NewestFutures(rows) : r.class # "NEUTRAL"}
=============================================================================
