------------------------------ MODULE Monitoring ------------------------------
(***************************************************************************)
(* What watches the live system, and what it watches.  Workers leave a     *)
(* heartbeat row; prices, features and scanner runs leave their dates; the *)
(* sanity report derives a status from them.  The follow-up job fills the  *)
(* prices after each alert-worthy transition from bars that were stored in *)
(* the meantime, in whatever order they arrived.  The worker that takes    *)
(* events off the queue is one actor here; PipelineQueue has its detail.   *)
(***************************************************************************)
EXTENDS MarketCalendar, FiniteSets

CONSTANTS
  Symbol,
  Warning, StaleAfter,  \* worker -> the sanity_*_seconds thresholds, in slots
  MaxLag,               \* feature_freshness_max_lag_days
  After,                \* "15m" and "1h" (one code) -> the horizon in slots
  ListLimit,            \* rows list_awaiting_* returns at most
  MaxTime, MaxRows,     \* bounds: slots, observation rows
  MaxAhead              \* bound: other rows ahead on the lists

\* The other event-driven workers share the feature engine's thresholds and ping
\* like it.
Worker == {"momentum_pipeline", "feature_engine"}
Horizon == DOMAIN After \cup {"1d"}
Row == 1..MaxRows

ASSUME MonitoringAssumption ==
  /\ DOMAIN After \subseteq {"15m", "1h"}
  /\ Warning \in [Worker -> Nat] /\ StaleAfter \in [Worker -> Nat] /\ MaxLag \in Nat
  /\ \A w \in Worker : Warning[w] =< StaleAfter[w]

VARIABLES
  now,
  heartbeat,  \* worker -> worker_heartbeats row
  attempted,  \* worker -> the last slot it really ran in (history)
  bars,       \* symbol -> slots with an intraday_prices row
  daily,      \* symbol -> days with a daily_prices row
  features,   \* symbol -> date of its latest daily_features row
  scanned,    \* finish time of the scanners' last run
  event,      \* an ingestion event is on the stream
  seen,       \* momentum_alert_observations, the rows followed here
  ahead       \* rows still without a bar that the queries return before these

dataVars == <<bars, daily, features, scanned, event>>
vars == <<now, heartbeat, attempted, dataVars, seen, ahead>>

Init ==
  /\ now = 0
  /\ heartbeat = [w \in Worker |-> [run |-> None, success |-> None, idle |-> FALSE]]
  /\ attempted = [w \in Worker |-> None]
  /\ bars = [s \in Symbol |-> {}] /\ daily = [s \in Symbol |-> {}]
  /\ features = [s \in Symbol |-> None] /\ scanned = None /\ event = FALSE
  /\ seen = [r \in Row |-> None] /\ ahead = 0

Latest(days) == IF days = {} THEN None ELSE Max(days)
Age(t) == now - t

-----------------------------------------------------------------------------
(* Heartbeats.  The write may fail, and is then only logged. *)

PingRun(hb, w, idle) == [hb EXCEPT ![w].run = now, ![w].idle = idle]
PingSuccess(hb, w) == [hb EXCEPT ![w] = [run |-> now, success |-> now, idle |-> FALSE]]
Recorded(hb) == heartbeat' \in {heartbeat, hb}
Ran(ws) == attempted' = [w \in Worker |-> IF w \in ws THEN now ELSE attempted[w]]

-----------------------------------------------------------------------------
(* Data arrives. *)

Ingest ==
  /\ IsMarketOpen(now)
  /\ \E ss \in SUBSET Symbol \ {{}} :
       bars' = [s \in Symbol |-> bars[s] \cup IF s \in ss THEN {now} ELSE {}]
  /\ event' = TRUE
  /\ UNCHANGED <<now, heartbeat, attempted, daily, features, scanned, seen, ahead>>

\* A gap filled after a reconnect: the bar of an earlier slot is stored late.
BackfillGap ==
  /\ IsMarketOpen(now)
  /\ \E s \in Symbol, t \in {u \in 0..now : IsMarketOpen(u)} :
       bars' = [bars EXCEPT ![s] = @ \cup {t}]
  /\ UNCHANGED <<now, heartbeat, attempted, daily, features, scanned, event, seen, ahead>>

DailyJob ==
  /\ ~InSession(now) /\ IsTradingDay(DayOf(now), "EQUITY")
  /\ \E ss \in SUBSET Symbol \ {{}} :
       daily' = [s \in Symbol |-> daily[s] \cup IF s \in ss THEN {DayOf(now)} ELSE {}]
  /\ event' = TRUE
  /\ UNCHANGED <<now, heartbeat, attempted, bars, features, scanned, seen, ahead>>

\* An event handled as far as an engine that raises: the features are computed,
\* then the scanners run.
Work(computed, ran) ==
  /\ event /\ event' = FALSE
  /\ ran => computed
  /\ features' = [s \in Symbol |->
       IF computed /\ daily[s] # {} THEN Latest(daily[s]) ELSE features[s]]
  /\ scanned' = IF ran THEN now ELSE scanned
  /\ Recorded(IF computed THEN PingSuccess(heartbeat, "feature_engine") ELSE heartbeat)
  /\ Ran(IF computed THEN {"feature_engine"} ELSE {})
  /\ UNCHANGED <<now, bars, daily, seen, ahead>>

-----------------------------------------------------------------------------
(* The momentum job. *)

\* _record_observation, without the prices and the age of the data at the trigger.
Observation(s) == [symbol |-> s, at |-> now, price |-> [h \in Horizon |-> None]]
Observe(s) ==
  \E r \in Row : /\ seen[r] = None /\ \A q \in 1..r - 1 : seen[q] # None
                 /\ seen' = [seen EXCEPT ![r] = Observation(s)]

Skip ==
  /\ ~IsMarketOpen(now)
  /\ Recorded(PingRun(heartbeat, "momentum_pipeline", TRUE))
  /\ UNCHANGED seen
\* A run, with at most one transition worth an observation.
Run ==
  /\ IsMarketOpen(now)
  /\ Recorded(PingSuccess(heartbeat, "momentum_pipeline"))
  /\ (UNCHANGED seen) \/ (\E s \in Symbol : Observe(s))
RunRaises == IsMarketOpen(now) /\ UNCHANGED <<heartbeat, seen>>
MomentumJob ==
  /\ Skip \/ Run \/ RunRaises
  /\ Ran({"momentum_pipeline"})
  /\ UNCHANGED <<now, dataVars, ahead>>

-----------------------------------------------------------------------------
(* The follow-up job. *)

AtOrAfter(times, t) ==
  LET later == {u \in times : u >= t} IN IF later = {} THEN None ELSE Min(later)
\* _fill_15m, _fill_1h and _fill_1d: the bar a horizon is read from.
BarFor(row, h) ==
  IF h = "1d" THEN AtOrAfter(daily[row.symbol], DayOf(row.at + SlotsPerDay))
  ELSE AtOrAfter(bars[row.symbol], row.at + After[h])
Elapsed(h) == IF h = "1d" THEN SlotsPerDay ELSE After[h]

Rows == {r \in Row : seen[r] # None}
\* Mutant of Awaiting: the one-day list looks at the column of 15 minutes.
AwaitingAs15m(h) ==
  {r \in Rows : /\ Age(seen[r].at) >= Elapsed(h)
                /\ seen[r].price[IF h = "1d" THEN "15m" ELSE h] = None}
\* list_awaiting_15m, _1h and _1d, without their limit.
Awaiting(h) == {r \in Rows : Age(seen[r].at) >= Elapsed(h) /\ seen[r].price[h] = None}
\* ... and with it: a query that is not ordered may return other rows first.
Room == IF ahead < ListLimit THEN ListLimit - ahead ELSE 0
Listed(h) == kSubset(Min({Room, Cardinality(Awaiting(h))}), Awaiting(h))

FollowUp ==
  /\ \E due \in [Horizon -> SUBSET Rows] :
       /\ \A h \in Horizon : due[h] \in Listed(h)
       /\ seen' = [r \in Row |->
             IF seen[r] = None THEN None
             ELSE [seen[r] EXCEPT !.price = [h \in Horizon |->
                     IF r \in due[h] THEN BarFor(seen[r], h) ELSE @[h]]]]
  /\ UNCHANGED <<now, heartbeat, attempted, dataVars, ahead>>

\* Other rows fall due or get their bars, or the database orders them anew.
ListMoves ==
  /\ ahead' \in 0..MaxAhead \ {ahead}
  /\ UNCHANGED <<now, heartbeat, attempted, dataVars, seen>>

-----------------------------------------------------------------------------
(* The sanity report. *)

CheckMarketCalendar ==
  LET today == DayOf(now) IN
  IF \/ today \notin Verified
     \/ NextTradingDay(today, "EQUITY") = None \/ PreviousTradingDay(today, "EQUITY") = None
  THEN "NOT_CONFIGURED" ELSE "HEALTHY"

PricesDate == Latest(UNION {daily[s] : s \in Symbol})
FeaturesDate == Latest({features[s] : s \in Symbol} \ {None})
CheckFeatureFreshness ==
  CASE PricesDate = None -> "UNKNOWN"
    [] PricesDate # None /\ FeaturesDate = None -> "FAILED"
    [] OTHER -> IF PricesDate - FeaturesDate > MaxLag THEN "STALE" ELSE "HEALTHY"
FeaturesStale == CheckFeatureFreshness \in {"STALE", "FAILED"}

LatestIntraday == Latest(UNION {bars[s] : s \in Symbol})
CheckMarketDataPipeline ==
  CASE ~IsMarketOpen(now) -> "NOT_CONFIGURED"
    [] IsMarketOpen(now) /\ LatestIntraday = None -> "FAILED"
    [] OTHER -> IF Age(LatestIntraday) > Warning["feature_engine"] THEN "STALE" ELSE "HEALTHY"

ByAge(age, w) ==
  CASE age > StaleAfter[w] -> "STALE"
    [] age =< StaleAfter[w] /\ age > Warning[w] -> "WARNING"
    [] OTHER -> "HEALTHY"

\* Mutant of CheckWorkerHeartbeat: an idle detail excuses a silent worker.
CheckWorkerHeartbeatIdleFirst(w) ==
  LET hb == heartbeat[w] IN
  CASE hb.run = None -> "UNKNOWN"
    [] hb.run # None /\ hb.idle -> "NOT_CONFIGURED"
    [] hb.run # None /\ ~hb.idle /\ hb.success = None -> "WARNING"
    [] OTHER -> ByAge(Age(hb.success), w)
CheckWorkerHeartbeat(w) ==
  LET hb == heartbeat[w] IN
  CASE hb.run = None -> "UNKNOWN"
    [] hb.run # None /\ hb.success = None ->
         IF hb.idle /\ Age(hb.run) =< Warning[w] THEN "NOT_CONFIGURED" ELSE "WARNING"
    [] OTHER -> ByAge(Age(hb.success), w)

CheckScanners ==
  CASE scanned = None -> "UNKNOWN"
    [] scanned # None /\ FeaturesStale -> "BLOCKED"
    [] OTHER -> ByAge(Age(scanned), "feature_engine")

Severity ==
  [HEALTHY |-> 0, NOT_CONFIGURED |-> 0, UNKNOWN |-> 1, WARNING |-> 2,
   STALE |-> 3, BLOCKED |-> 3, FAILED |-> 4]
Statuses ==
  {CheckMarketCalendar, CheckFeatureFreshness, CheckMarketDataPipeline, CheckScanners}
    \cup {CheckWorkerHeartbeat(w) : w \in Worker}
\* The severity of worst_status.
Overall == Max({Severity[status] : status \in Statuses})

-----------------------------------------------------------------------------
Tick ==
  /\ now < MaxTime /\ now' = now + 1
  /\ UNCHANGED <<heartbeat, attempted, dataVars, seen, ahead>>

Next ==
  \/ Ingest \/ BackfillGap \/ DailyJob \/ (\E computed, ran \in BOOLEAN : Work(computed, ran))
  \/ MomentumJob \/ FollowUp \/ ListMoves \/ Tick

Spec == Init /\ [][Next]_vars

\* The scheduler runs the follow-up job every five minutes.
FairSpec == Spec /\ WF_vars(FollowUp)

-----------------------------------------------------------------------------
(* Properties. *)

(* An outage shows in the overall status, whatever the other checks say    *)
(* (SanityService.run, worst_status): a worker that has not run for longer *)
(* than its stale threshold, with a lost heartbeat or an idle last run;    *)
(* features of every symbol too far behind its prices; and an open market  *)
(* without a bar.                                                          *)
Silent(w) == IF attempted[w] = None THEN TRUE ELSE Age(attempted[w]) > StaleAfter[w]
Frozen ==
  /\ PricesDate # None
  /\ \A s \in Symbol : daily[s] # {} =>
       IF features[s] = None THEN TRUE ELSE Latest(daily[s]) - features[s] > MaxLag
NoTicks ==
  /\ IsMarketOpen(now)
  /\ IF LatestIntraday = None THEN TRUE ELSE Age(LatestIntraday) > Warning["feature_engine"]
OutagesAreSeen ==
  /\ \A w \in Worker : Silent(w) => Overall >= Severity["UNKNOWN"]
  /\ \A w \in Worker : Silent(w) /\ heartbeat[w].run # None => Overall >= Severity["WARNING"]
  /\ Frozen \/ NoTicks => Overall >= Severity["STALE"]

(* It is never for ever that an alert has a price unrecorded whose bar is  *)
(* stored, however late that bar came, while the rows that await the same  *)
(* horizon fit on its bounded list beside those that no bar comes for (the *)
(* follow-up job revisits a row until it is filled).                       *)
Recordable(r, h) ==
  /\ r \in Rows
  /\ Age(seen[r].at) >= Elapsed(h) /\ seen[r].price[h] = None /\ BarFor(seen[r], h) # None
FollowUpFills ==
  \A h \in Horizon :
    []<>(Cardinality(Awaiting(h)) <= Room => \A r \in Row : ~Recordable(r, h))

(* "Left NULL and revisited on the next run" (the job's docstring): what   *)
(* can be recorded is, in the end.  Violated: rows without a bar may take  *)
(* up the whole list of every run.                                         *)
EveryRowIsRevisited ==
  \A r \in Row, h \in Horizon : Recordable(r, h) ~> ~Recordable(r, h)

(* A momentum job that has just run and found the market closed is not     *)
(* reported stale (momentum_pipeline_jobs._ping_heartbeat).  Violated      *)
(* after its first success.                                                *)
AliveIsNotStale ==
  LET hb == heartbeat["momentum_pipeline"] IN
  hb.idle /\ hb.run = now => CheckWorkerHeartbeat("momentum_pipeline") # "STALE"

(* A recorded price is of the first bar stored at or after its horizon     *)
(* (get_intraday_at_or_after).  Violated when a gap is filled later: the   *)
(* row is never looked at again.                                           *)
FirstBarIsRecorded ==
  \A r \in Rows, h \in Horizon :
    seen[r].price[h] # None => seen[r].price[h] = BarFor(seen[r], h)
=============================================================================
