# A TLA+ verification of the AI Market Scanning Engine

The engine collects Indian market data, computes features, scans for setups,
decides which are worth an alert, and sends alerts to Telegram. It is one
asyncio process over PostgreSQL and Redis. This directory holds TLA+ models of
the whole path from a trade at the exchange to a settled alert, the TLC
configurations that check them, and proofs that TLAPS checks.

Check a model with `tlc -config X.cfg MCModule`, a proof with `tlapm M.tla`.

## 1. The system

| Part | State it keeps | Operations | Talks to |
|---|---|---|---|
| Market feed (`providers/upstox_websocket.py`, `tick_aggregator.py`) | tick buckets, completed candles in memory, the connection | connect, gap-fill, receive, flush | price table, pipeline queue |
| Collector (`data/`, provider adapters) | collector log, market status, the provider's connection and clock | daily, intraday, symbol and gap-fill runs | brokers, price table |
| Universe (`universe/`, `data/collector.py`) | symbol master, F&O universe, listing dates | refresh and reconcile, replace, backfill | brokers |
| Pipeline queue (`pipeline/queue.py`) | Redis stream, consumer group, pending list; the drain flag in memory | ensure_group, publish, read, ack | ingesters, worker |
| Pipeline worker (`pipeline/worker.py`) | entries of the last read | read, process, ack | feature, scanner and decision engines |
| Feature engine (`features/`) | daily and session features | a pass over all symbols | price table |
| Scanner engine (`scanner/`, `candidates/`) | scanner runs and results | one run per scanner, in batches | features, results |
| Fundamental queue (`fundamentals/`) | fetch log, snapshots, advisory lock, a cache per process | a budgeted run | Upstox, Trendlyne, results |
| Decision engine, "Path A" (`decision/engine.py`, `rules.py`) | none | judge every qualified result | AlertManager.process |
| Momentum pipeline, "Path B" (`decision/momentum_pipeline_coordinator.py`, `momentum/`) | one state per symbol, a transition log, observations | a run every 60 s, one evaluation per symbol | fusion, AlertManager.process |
| Signal fusion (`signals/`, `analytics/`, `catalyst/`, `derivatives/`) | open-interest readings, the cached contract list | score a symbol from seven components | stores, news |
| Alert manager (`alerts/`) | `alerts`, `alert_events`; the in-memory AlertQueue | process: dedup, cooldown, insert, queue | notification manager |
| Notification manager (`notifications/`) | the delivery in progress | worker loop, recovery, two nested retry loops | Telegram, `alerts` |
| Expiry job (`scheduler/alert_jobs.py`) | none | expire stale rows every minute | `alerts` |
| Follow-up job (`scheduler/momentum_observation_followup_jobs.py`) | prices of observations | fill three horizons | price table |
| Sanity checks (`sanity/`, `health/`, `market_calendar/`) | worker heartbeats | derive a status | every table |
| Users and sessions (`auth/`, `services/user_service.py`) | users in PostgreSQL, sessions in Redis | login, disable, delete, ... | HTTP API |
| HTTP API, dashboard, digest, snapshot jobs | none of their own | read, aggregate, present | PostgreSQL |

What is hard here is not any single function. Coroutines interleave at every
`await`. PostgreSQL, Redis, Telegram, the brokers and the memory of the process
are places that no transaction spans, so a crash or a failed call between two of
them leaves a state nobody wrote a test for. Several actors share something
without a lock: a provider's clock and connection, a row read in one transaction
and written in another, a price table written by the feed, its gap-fill and the
sweep. `PROJECT.json` lists these places under `hazards`, with their lines.

What makes each part correct:

- feed: a bar never counts a trade twice; completed bars do not pile up in
  memory; the gap-fill does not hold up the receive loop;
- collector: every run ends, requests are paced, a lost connection is restored;
- universe: a truncated download does not deactivate the market; the F&O
  universe follows the symbol master;
- queue and worker: an acknowledged event was really scanned; only the length
  limit loses events; the worker never stops reading;
- features and scanners: a verdict is explained by features that are still
  stored, its two writers do not undo each other, and the run's counts are what
  it wrote;
- fundamental queue: one run at a time, within budget, silent while paused;
  snapshots and rows tell of the same fetches;
- rules: an alert is made of current, complete data, and its score still counts
  after a rescoring;
- momentum: one rung at a time, never back, no state twice; log and pointer
  agree; every alert belongs to a transition; one regime per run;
- alerts: no second alert for one setup while the first is live; the cooldown is
  kept; an alert is not sent again except when an acknowledgement was lost;
  every alert is settled in the end;
- monitoring: an outage shows; recorded alerts get their later prices.

## 2. Modules

| Module | Models | Checked by |
|---|---|---|
| `AlertDelivery` | alert creation, delivery, recovery and expiry | `MCAlertDelivery` |
| `MomentumLifecycle` | abstract: what a symbol's momentum state may do | refined by `MomentumPipeline` |
| `MomentumPipeline` | the momentum job, the state engine and its three transactions | `MCMomentumPipeline` |
| `PipelineQueue` | ingesters, Redis stream, pipeline worker | `MCPipelineQueue` |
| `MarketFeed` | websocket, tick aggregator, flush, gap-fill, price table | `MCMarketFeed` |
| `CollectorRuns` | collector runs over one shared provider | `MCCollectorRuns` |
| `SymbolUniverse` | symbol refresh, F&O refresh, listing-date backfill | `MCSymbolUniverse` |
| `FundamentalQueue` | lock, pause, budgets, batches of the fundamental queue | `MCFundamentalQueue` |
| `FundamentalSources` | what the sources' calls amount to: a status, with or without data | used by `FundamentalQueue` |
| `FundamentalFields` | which fields the sources' replies deliver | used by `Verdicts` |
| `ScanCycle` | feature passes and scanner runs of the pipeline worker | `MCScanCycle` |
| `Scoring` | technical and fundamental scores | used by `Scanners`, `Verdicts`, `SignalFusion` |
| `Scanners` | the seven scanners | used by `Verdicts` |
| `DecisionRules` | the decision rules, the evaluator, the compounding assessment | used by `Verdicts` |
| `Verdicts` | composition: scanners, fundamental fetches and the decision engine over days | `MCVerdicts` |
| `MarketEvidence`, `OpenInterest`, `Catalysts` | breadth, rotation, sector and regime; derivative readings; news | used by `SignalFusion` |
| `SignalFusion` | composition: the momentum job's scores, and the writers of their inputs | `MCSignalFusion` |
| `MarketCalendar` | trading days and sessions | used by `Monitoring` |
| `Monitoring` | heartbeats, the sanity report, the follow-up job | `MCMonitoring` |
| `ScoringProofs` | proofs about `Scoring`, and lemmas on sums, means, least and greatest elements for the other proofs | `tlapm` |
| `AlertDeliveryProofs` | proofs about `AlertDelivery` and `Verdicts` | `tlapm` |
| `MomentumPipelineProofs` | proofs about `MomentumPipeline` and `SignalFusion` | `tlapm` |
| `ScanPipelineProofs` | proofs about `PipelineQueue` and `ScanCycle` | `tlapm` |
| `CollectorProofs` | proofs about `CollectorRuns` and `SymbolUniverse` | `tlapm` |
| `FundamentalQueueProofs`, `MarketFeedProofs`, `MonitoringProofs` | proofs about the module of that name | `tlapm` |

`Verdicts`, `SignalFusion` and `Monitoring` compose pure operators and stores
that the other modules model in detail: the worker's cycle is one action of
`Verdicts` and many of `ScanCycle`; the queue's fetch is one action of
`Verdicts` and a protocol in `FundamentalQueue`. Four proof modules speak of two
models, which share no variable; there one model's specification has a name of
its own (`QueueSpec`, `UniverseSpec`, `FusionSpec`, `VerdictSpec`). Operators
named as mutants are the plausible bugs that show a property can fail. No
specification uses them.

### AlertDelivery

State: the columns of `alerts` (`status`, `fp`, `createdAt`, `expiresAt`), the
event types logged for each alert, the in-memory queue, recovery's list, and the
program counters of the producers and of `deliver_now()`. The ghost variables
`received` and `lost` count copies that reached the chat and acknowledgements the
database never got or did not keep.

An action is the code between two awaits that another coroutine can observe.
`Process` is `process()` up to its first commit and `Put` the queue operation
after it. `SendMessage` is one pass of the provider's retry loop, `RecordResult`
the transaction after it, and `DeliveryRaises` an exception on the way, which the
caller's loop logs. The expiry job is two actions, `ExpireRead` and
`ExpireWrite`. Recovery runs before the workers start and after the scheduler
does, as in `main.py`.

`build_fingerprint` is a hash and is represented by its value. `SUPPRESSED` and
`QUEUED` events, heartbeats and delivery logs are written by this code and read
by none of it, and are left out. Dedup check, cooldown check and insert are one
action. That is sound because a fingerprint and a cooldown key belong to one
producer (`SignalsPartitioned`), each producer processes candidates one after
the other, and the expiry job can only free a fingerprint that a check just
found taken.

### MomentumPipeline and MomentumLifecycle

State: the pointer and the log per symbol, which log rows have an alert and an
observation, and the progress of the current run. Scores are integers. Both sides
of the comparisons with threshold/3 and 2*threshold/3 are multiplied by three,
so there is no rounding. `Transition` is `MomentumStateEngine.evaluate` up to its
commit, `RaiseAlert` and `RecordObservation` the two later transactions.
`EvaluateFails` and `LaterStepFails` are the exceptions `run_all` isolates.
`Lifecycle == INSTANCE MomentumLifecycle WITH Symbol <- Symbol, state <- state`
is the refinement mapping: the abstract state is the persisted pointer.

### PipelineQueue

State: the batches committed, each ingester's committed but unpublished batch,
the stream as the interval `first..published`, the group's position and pending
list, and the worker's loop. Redis is external and modelled from the commands
`queue.py` issues. `MAXLEN ~` may cut entries and always keeps `MaxLen`.
`XREADGROUP 0` returns the oldest `count` pending entries, and one that was cut
comes back without fields, so `_to_event` raises.

### MarketFeed

Trades happen at the exchange; while the connection is subscribed they are put on
the socket, and the server may repeat them. `Connect` opens and subscribes,
`Fetch`, `Write` and `SkipSymbol` are the REST calls of the gap-fill and of the
ingestion sweep, `FillTimesOut` the `wait_for`, `Receive` one message through
`TickAggregator.ingest`, and `FlushBegin`, `FlushCommit` and `FlushPublished` the
three parts of `_flush`, between which the coroutine awaits. `Disconnect` and
`StaleTimeout` leave the loop through a last flush; `FlushFails` and `Crash` lose
what the code loses. A bar is its volume, each trade having quantity one: the
volume tells how much of its minute a bar contains, which is all the properties
are about.

### CollectorRuns

A run's place follows `_run_collection`: log row, `connect` if not connected, then
item after item through the provider's request loop (`_respect_rate_limit`, the
request with its timeout, retry with backoff, the 401 that clears the connection
flag), then the outcome. The provider's `_connected` and `_last_call_at` are
shared; `mine` remembers each run's own last request. `Lose` is a run that is
cancelled, as the gap-fill is by its timeout.

### SymbolUniverse

`RefreshLoad` and `RefreshCommit` are the two ends of the refresh's transaction:
what it read of the master, then the upserts, the deactivation of missing symbols
and the guard `universe_reconciliation_min_fraction` (`Suspicious`). `FnoMatch`
and `FnoCommit` are the two ends of the F&O refresh, `Backfill` the script.

### FundamentalQueue and FundamentalSources

State: candidate rows and snapshots with their times, the fetch log as the
counts and times the code queries, the advisory lock with its owner connection
and depth, and for each process the run's place, connection, pending rows and
uncommitted work. `BeginRun` takes the lock, asks for the pause and the budget
and selects the pending rows in priority order. `_process_one` is two actions,
since it reads the clock twice: `Fetch` asks and stamps the snapshot, `Apply`
stamps the candidate row, and time may pass in between. A row's `of` is a ghost,
the time of the snapshot its score came from. `Commit` is the commit that ends a
batch, after which the session gives its connection back and may get another.
`RunFails`, `Crash` and `CloseIdle` are an exception, the end of a process and
the pool closing an idle connection.

### ScanCycle

State: `daily_prices`, `daily_features` and `scanner_results` as revisions per
symbol and day, and the worker's stage with its open session. `ComputeFeatures` is
`_run_daily_for_symbol`, `BuildContexts` the scanner's reading session,
`Save`, `Invalid` and `Raises` the outcomes of `_evaluate_one` inside its
savepoint, `CommitBatch` the commit of a batch. Bars arrive and are revised
meanwhile, and the fundamental queue writes the same candidate rows: `LoadRow` is
a row its session has read (`_select_pending`), `Rescore` the snapshot it read
with a score added (`_apply_result`), committed however late. `fetched` are the
rows that carry such a score. The listed scanners' rows have one writer.

### Scoring, Scanners, DecisionRules, FundamentalFields, Verdicts

Pure operators, one for each function, over integers of a named scale (tenths
for relative volume, hundredths for scores). What the code rounds before it
compares is rounded here (`Rounded`): the upside, the reward/risk ratio, the
scores. Every threshold is a named operator with the setting it stands for.
`None` is an absent value and propagates as in the code. `Verdicts` applies
them: `Cycle` scans with every scanner and judges every qualified row, `NewBar`,
`NewFeatures` and `NewSession` move the stored data on their own, `Fetch` is a
fundamental fetch with what each source replied, and `NextDay` lets rows age.

### MarketEvidence, OpenInterest, Catalysts, SignalFusion

`BeginJob` computes the regime once, `Evaluate` fuses one symbol from what is
stored at that moment, `EndJob` ends the run. Each of the two reads all its inputs
in one step, where the code awaits between its queries; no property stated here
relates two queries of one step. Between the steps bars, features and the session's
VWAP are stored, and the open-interest engine goes through `FetchChain`, `FetchFutures` and
`CommitReadings`, each from a separate await. Rolling z-scores are readings of a
small set; an article is the topics and the numbers of positive and negative
keywords it hits.

### MarketCalendar and Monitoring

Time is slots of days. Each worker's cycle writes its heartbeat as the code does,
in a transaction of its own that may fail; `attempted` is what really happened.
The sanity report is a state function (`Overall`) of what is stored, so every
reachable state is judged. `FollowUp` is one run of the follow-up job with its
bounded lists. `ListLimit` is the length of a list; which rows an unordered query
returns is left open, and `ListMoves` lets it change. Rows for which no bar comes are
not state of their own: `Room` is what they leave of the list.

## 3. Runs

| Run | Bounds | Distinct states | Shows |
|---|---|---|---|
| `alert_scan` | 2 fingerprints of one cooldown key, one bot unconfigured; 2 alerts, 3 minutes, 2 retries, recovery limit 1, 1 crash | 405,943 | reissue, cooldown and duplicates of Path A alerts; every alert settles |
| `momentum` | 2 symbols, 4 runs, a score in every band, 1 crash | 1,065,320 | the pipeline implements the lifecycle; log, pointer, alerts and verdicts agree |
| `queue` | 2 ingesters, 4 batches, 4 events, stream limit 2, read count 2, 1 crash | 239,190 | acknowledged means scanned; only events the limit cut are missed; the rest is read |
| `feed` | 1 instrument, 3 minutes of up to 2 trades, 1 buffered message, 1 repeated tick, 1 fault | 161,364 | no bar overstates volume; buffered bars are in order and drain; the gap-fill ends |
| `fundamentals` | 2 processes of 2 connections, 3 rows of 2 symbols, 2 days, batch 2, daily limit 3, 1 fault, 1 closed connection | 4,143,285 | one run at a time, budget, pause; snapshots and rows tell of the same fetches |
| `universe` | 3 symbols, 50 % guard | 571,536 | no mass deactivation; the F&O universe follows |
| `collector` | 2 overlapping runs, 2 items, 2 attempts, interval 2, 1 lost process | 33,076 | pacing, the end of every run, recovery of the connection |
| `scan` | 2 symbols, 3 days, 1 revised bar, batch 2, fetches for the rows of day 2 | 405,936 | verdicts match stored features; no update of a candidate row is lost; counts match rows; features catch up |
| `rules` | 1 symbol in either universe, 10 shapes of stored data, 2 days, 1 moved bar, 1 fetch of 3 replies | 69,456 | scanners, rescoring and rules together |
| `rules_fundamentals` | the same with one reply | violation | a successful fetch yields no score |
| `fusion` | 2 stocks, 1 sector, 1 change of the stores in 3 ticks | 242,881 | one regime per run; readings come from what is stored and from the nearest contract |
| `monitoring` | 4 slots of 2 days after a weekend and a holiday and before an unverified year, 1 symbol, 1 alert, a list of 1 with up to 1 other row ahead | 209,108 | outages are seen; follow-ups are filled |

The bounds reach the interesting cases. Two alerts are enough for a reissue, a
cooldown and a backlog above the recovery limit of one; three minutes let an
alert expire, be reissued and expire again. Four momentum runs take a symbol from
SETUP to TRIGGERED, and a symbol that enters higher up reaches CONFIRMED and
EXHAUSTED. Four events with a limit of two let the stream cut read, pending and
unread events. Three minutes with two trades each let a bucket stay open across a
disconnect and a bar be written by the flush and by the gap-fill. Three candidate
rows of two symbols with a batch of two and a daily limit of three let a batch
roll back after part of the budget is used; the clock covers more than a day.
Two overlapping collector runs with two items and two attempts let a run lose the
connection between the other's check and request. Three symbols and a share of
50 % put an answer on either side of the guard. Three days, one revision and a
batch of two let a bar be revised before and after its features were computed and
a run span two batches. In `Verdicts` the stored data are chosen on both sides of
each rule's threshold (`MCVerdicts`) and date from the day before; one moved bar,
one fetch and a second day let a row be judged with data newer and older than
itself. One
of them has finer levels, at which a reward falls short of its risk by less than
the rounding of their ratio. `SignalFusion` has one option chain and one change of the
stores, which is enough for a change inside a run, and futures that expire under
the cache and are listed behind it. `Monitoring` has a weekend, a holiday, an
unverified year, and one recorded alert that the list has room for or not;
`FollowUpFills` holds as well of two alerts that compete for a list of one
(`MaxRows = 2`, `MaxAhead = 0`, 324,665 states).

`MomentumPipeline`, `PipelineQueue`, `MarketFeed`, `FundamentalQueue` and
`Monitoring` stop when their bounds are used up, so those runs do not check
deadlock; the others do. Every bound (`Max...`) stands in a guard. The symmetry of
`FundamentalQueue` (processes and pooled connections) is used by a run without
liveness properties only.

Fairness. A coroutine that can run is eventually run by the event loop (`WF` of
delivery, expiry, put, worker, feed and collector steps); the container's restart
policy starts a dead process (`WF` of startup); requests have timeouts, so they
are answered in the end; scheduled jobs fire again and again (`WF` of follow-up,
F&O refresh, run starts); time passes. `SF` is assumed of three steps that an
outage can disable for a while and that succeed now and then when tried again for
ever: the F&O commit, a connect with valid credentials, and one symbol's feature
computation. Nothing is assumed of producers, ingesters, Telegram, Redis, REST
answers to the gap-fill, or the engines behind the queue: they may fail for ever.

### Where the code and its comments disagree

`findings` in `PROJECT.json` quotes the lines. One is a run of its own,
`rules_fundamentals`. The others can be repeated by hand: the properties listed in
the `..._findings.cfg` files are violated, one at a time, and the first lines of
`MarketFeed.cfg`, `MomentumPipeline.cfg`, `SymbolUniverse.cfg`, `ScanCycle.cfg`,
`CollectorRuns.cfg`, `FundamentalQueue.cfg` and `Monitoring.cfg` name properties
that are violated and the constants to use. `AlertDelivery_momentum.cfg` is a passing
configuration for Path B's alerts, whose producer already runs during recovery.

- Alerts: an alert that expires while queued is still sent beside the fresh one;
  the expiry job overwrites a row that became SENT; an unconfigured bot makes an
  alert FAILED at once.
- Momentum: a transition is committed before its alert, which a failure in between
  loses for good.
- Queue: the drain reads one page; an event "left unacked for retry" waits for a
  restart; a group that could not be created at startup is not retried.
- Feed: a flush can replace a backfilled bar by a partial one; a failing flush
  drops completed bars; the open bucket is not written at shutdown.
- Fundamentals: a rate limit after a success of the same batch does not lengthen
  the pause; Upstox's rate limit is lost when another statement answered; the
  queue never merges the two sources; a connection closed under the lock lets a
  second process run.
- Universe: every symbol refresh empties the IPO universe.
- Collector: two runs that read the provider's clock together send together.
- Scanners: the first verdict of a day stands.
- Rules: no opening-range row passes `required_features`; the explanation
  endpoint and the rule disagree on freshness.
- Fusion: option legs crowd out the future; breadth mixes days; contracts cached
  until the last one expired hide newer ones.
- Monitoring: an idle momentum job is reported stale; a price recorded from a late
  bar is not corrected; rows whose bar never comes may keep a row that has one off
  the bounded list.

Two violated properties are no contradiction of a comment. `QualifiedMeetsMinimum`
in `Verdicts_findings.cfg` shows why `AlertsMeetMinimum` is needed, since a rescored
row keeps its status. `StrongCoversRisk` shows why `StrongIsPaid` allows half a
percent: a reward of 499 for a risk of 501 is a ratio of 1.00 after rounding
(checked in place of `StrongIsPaid` in `Verdicts.cfg`).

## 4. Proofs

Every safety invariant and every action property of the passing runs is also a
theorem (`theorems` in `PROJECT.json`), for every value of the constants that
satisfies the named assumptions: finite sets, limits that are positive numbers,
and what stands here with its reason.

- `SignalsPartitioned` (`AlertDelivery`): a fingerprint and a cooldown key belong
  to one producer, since the category is part of both.
- `ConstantsOK` of `FundamentalQueue`: the priority order is total
  (`_priority_key`, then the query's order).
- `DataOK` (`Verdicts`) and `StoresOK`, `ArticlesOK` (`SignalFusion`): a column
  holds a number or NULL, a trend one of its three directions. `Verdicts` names the
  columns the scanners read, since every row of the table has them all.
- `ContractsOK` (`SignalFusion`, external): the exchange lists futures in the order
  of their expiries. Without it a cached contract list can hide a nearer future.
- `CalendarOK`, `DataOK`: an absent value is not a number.

Before it was proved, each inductive invariant was an invariant of a TLC run.

- `ScoringProofs`. A fold of the community modules is a recursive function over
  subsets. `SumsAgree` shows, by a smallest subset on which two such functions
  differ, that they agree where both are defined; `SumsExist` that there is one. So
  `Total` and `WeightedSum` can be taken apart (`TotalStep`, `WeightedSums`), and
  the weighted mean of known scores stays between the least and the greatest of
  them, rounded or not (`MeanLemma`, `MeanOfKnown`). `ScoresTheorem` says what
  follows for the two scores: whatever a source or a features row holds, they and
  what `combine_scores` makes of them are between 0 and 100.
- `AlertDeliveryProofs`, of alerts. `TypeOK` is not inductive alone: the attempt counter
  stays in range only because a sleeping delivery has attempts left, and ids used
  as indices must exist. `RowsOK`, `IdsOK` and `DeliveryOK` say so. On top of
  them: the reissue, cooldown and audit theorems each rest on one step, the insert
  or the expiry write, and are stable under the others; `DuplicatesTheorem`
  needs `AcksOK`, by which an unacknowledged alert has no more copies than lost
  acknowledgements. `SentTheorem` is an action property that follows from
  `DeliveryOK`: a row being delivered is not SENT, because there is one deliverer
  at a time.
- `AlertDeliveryProofs`, of verdicts. `VerdictInv` says of every stored row what
  the rules rely on and cannot see: the date of a listed row is the date of its
  features (`ListedOK`), a candidate's snapshot names the day of its features and
  the score the row bears, after a rescoring too (`CandidateOK`), a qualified row
  has what its scanner requires (`RequiredOK`), and every level is a number or
  unknown (`LevelsOK`). A verdict is judged on the row that is stored (`JudgedOK`).
  `CurrentTheorem`, `TrustedTheorem` and `MinimumTheorem` follow case by case
  over the rules. `PaidTheorem` is a fact about `evaluate_compounding`: the stop it
  derives lies below the price (`StrongLemma`, with it: a strong decision needs a
  ratio of at least 1.00), and a ratio that rounds to 1.00 is at least 0.995
  (`RatioLemma`).
- `MomentumPipelineProofs`, of states. Types, then the legality of every proposed edge for
  every threshold and score, then the refinement of `MomentumLifecycle`.
  `NoStateTwice` needs the rank of the states: a chain of allowed edges climbs in
  rank. `OneStagePerRun` needs that a symbol still to be evaluated has no row of
  this run. `VerdictTheorem` needs that the symbol being evaluated has no verdict
  of this run yet (`VerdictInv`).
- `MomentumPipelineProofs`, of scores. `RegimeTheorem`: the results of a run carry
  the regime it began with. `ContractTheorem`: a cached contract list is the
  exchange's of an earlier moment (`RecordsInv`), and what was listed since expires
  later. `EvidenceTheorem`: each component is a number or None (`ComponentsLemma`:
  breadth, rotation, regime and news included), so the fused score is between those
  that are known; readings are stamped with times that have passed (`ReadingsOK`),
  so that one of any futures readings is the newest.
- `ScanPipelineProofs`, of the queue. `BatchesOK` (announced batches are committed),
  `HandedOutOK` (what is worked on was handed out and is pending), `CoverageOK`
  (what the engines saw) and `StartsOK` (starts per process) together are
  inductive and give the four safety theorems.
- `ScanPipelineProofs`, of the engines. `ScanInv` joins types with `ContextOK`:
  what a session has still to write has no verdict yet, and what it read of the
  features is still there, because features are computed for later dates only
  (`LatestLemma`). `CountsTheorem` adds the sets the counters stand for.
  `NoLostUpdateTheorem` rests on `FetchOK`: what the queue has loaded of a row is
  what the row still holds, and only rows that exist are scored; a scan, by
  `ScanInv`, is about to write only rows that do not.
- `MarketFeedProofs`. `NeverOverstates` is about stored bars. `FeedInv` says the
  same of each place a bar passes through: the open bucket (`OpenIn`, which also
  knows the last trade seen), the bars waiting and in flight, the bars a caller of
  the REST API holds, the ticks on the socket. The open bucket is newer than the
  bars waiting, which gives `PendingOrder` as well.
- `CollectorProofs`. Pacing is a property of one run although the clock is
  shared: the invariant `Pacing` says that the process's last call is never older
  than the run's own, and that a sleeping run wakes no earlier than an interval
  after its own last call. `TypeCorrect` also accounts for every open log row:
  one for each busy run and one for each run that was lost.
  `NoMassDeactivationTheorem` is a counting argument over finite sets: new symbols
  are active before the guard counts, so what is confirmed is what stays.
- `FundamentalQueueProofs`. An advisory lock ends with its connection, and the
  pool may close one that the session gave back, so the theorems count the
  closed connections. `StrayInv` says that at most one run for each of them has
  no lock of its own process: every other step takes a stray away or leaves it,
  because the pools of two processes share no connection. With none closed there
  is no stray, and `FreshInv`, which relates what each session sees and not only
  what is stored, and knows the answer that is still due to a row, gives
  `FreshnessTheorem`. `TypeCorrect` includes that the rows
  a run selects keep within what the budget left. `RequestsTheorem` keeps two books
  for each day (`DayBooked`): what is logged and what the runs under way will still
  log stays within the daily limit and a run for each closed connection, and what
  was asked is logged, uncommitted, or lost in a batch for each fault. A run may
  last into the next day, so its rows count against every day from the current one
  on. `PauseTheorem` rests on `PauseInv`: a run that may still ask began its
  transaction after the pause the log asks for; the wait after repeated limits is
  bounded by considering the least number of limits that would break the bound.
- `MonitoringProofs`. A heartbeat is never newer than what its worker really did
  (`RanOK`), so a silent worker is found stale by whichever check looks at it, and
  the worst status wins whatever the other checks say.

Only model-checked: liveness (`AlertsSettle`, `EventsAreRead`, `GapFillEnds`,
`PendingDrains`, `FnoFollows`, `RunEnds`, `Recovers`, `FeaturesCatchUp`,
`FollowUpFills`), because TLAPS does not prove liveness under fairness, and the
violations of section 3, which TLC finds and no theorem states. The scores are proved
to stay in bounds, not to have a certain value. No module declares a recursive
operator.

## 5. Not modelled

- The formulas of `features/*/calculator.py` and the rolling z-scores of
  `analytics/rrg`: floating-point pandas code over price series. Their results are
  inputs of the models.
- Users and sessions: apart from the market data path. Two hazards there are known,
  one is listed.
- The HTTP read API, dashboard, schemas, the digest and the snapshot jobs: they
  present or aggregate what the modelled parts store and nothing of the pipeline
  reads them back. Message formatting, logging and configuration are presentation;
  settings appear as constants.
- Parsing of broker and Trendlyne replies beyond its outcome; generated protobuf
  code; database migrations; the one-off `scripts/` except the listing-date
  backfill.

`PROJECT.json` gives the status and the reason for each part.

## 6. Plan

1. An abstract specification of alert delivery that `AlertDelivery` implements:
   open, settled, reissued after expiry.
2. Users and sessions: account status, sessions in Redis, the last-admin guard
   under concurrent requests.
3. The snapshot jobs and the digest's look-back window.
