------------------------------ MODULE ScanCycle ------------------------------
(***************************************************************************)
(* One pass of the pipeline worker over the stored prices: FeatureEngine   *)
(* writes the missing daily features symbol by symbol, then ScannerEngine  *)
(* runs each registered scanner, whose verdicts are committed in batches.  *)
(* The collector stores and revises daily bars meanwhile.  Of a bar only   *)
(* its revision is kept, of a feature row the revision of its own day's    *)
(* bar when it was computed, of a verdict the revision of its features.    *)
(* The symbols are the active ones.  The fundamental queue is the other    *)
(* writer of candidate verdicts: it loads the rows, fetches for minutes    *)
(* and writes snapshot and score back, with what it loaded in them.        *)
(***************************************************************************)
EXTENDS Integers, FiniteSets, FiniteSetsExt

CONSTANTS
  Symbol,    \* symbols.id
  Universe,  \* what get_candidate_symbols gives the candidate scanners
  MaxDay,    \* bound: trading days
  MaxRev,    \* bound: revisions of one bar
  MaxRevised,\* bound: bars that are revised
  FetchDay,  \* bound: days whose candidate rows the fundamental queue fetches
  BatchSize  \* _BATCH_SIZE

ASSUME ConstantsOK ==
  /\ Symbol \subseteq Nat /\ IsFiniteSet(Symbol) /\ Universe \subseteq Symbol
  /\ MaxDay \in Nat \ {0} /\ MaxRev \in Nat \ {0} /\ MaxRevised \in Nat
  /\ FetchDay \subseteq Nat /\ BatchSize \in Nat \ {0}

Day == 1..MaxDay
Rev == 0..MaxRev       \* 0: there is no such row

(* The LISTED scanners date a verdict by the feature row, the candidate    *)
(* scanners (F&O, IPO, pre-breakout) by the clock; run in this order.      *)
Scanner == {"listed", "candidate"}
NoCounts == [qualified |-> 0, rejected |-> 0, errors |-> 0]

VARIABLES
  day,       \* the current trading day
  bar,       \* daily_prices
  feature,   \* daily_features
  verdict,   \* scanner_results
  fetched,   \* <<symbol, day>> of candidate rows that hold a fetched score
  loaded,    \* the candidate row as the fundamental queue's session holds it
  \* the worker
  stage,     \* "idle", "features", "next", "opened" or "evaluate"
  scanner,   \* the scanner running, or the last that ran
  todo,      \* symbols the stage still has to handle
  context,   \* per symbol: date and revision of the features read
  skipped,   \* symbols the scanner does not evaluate: not candidates, or done
  pending,   \* symbols evaluated in the open session, with a verdict or not
  rows,      \* symbols this run wrote a verdict of, pending ones uncommitted
  passed,    \* those of them whose status is qualified
  counts     \* ScannerRunStats

stored == <<day, bar, feature, verdict>>
runVars == <<context, skipped, pending, rows, passed, counts>>
fetchVars == <<fetched, loaded>>
vars == <<stored, fetchVars, stage, scanner, todo, runVars>>

NoContext == [date |-> 0, rev |-> 0]
NoRows == [s \in Symbol |-> [d \in Day |-> 0]]

Quiet ==
  /\ context = [s \in Symbol |-> NoContext]
  /\ skipped = {} /\ pending = {} /\ counts = NoCounts
  /\ rows = {} /\ passed = {}

Init ==
  /\ day = 1
  /\ bar = [s \in Symbol |-> [d \in Day |-> IF d = 1 THEN 1 ELSE 0]]
  /\ feature = [s \in Symbol |-> [d \in Day |-> 0]]
  /\ verdict = [c \in Scanner |-> [s \in Symbol |-> [d \in Day |-> 0]]]
  /\ fetched = {} /\ loaded = NoRows
  /\ stage = "idle" /\ scanner = "candidate" /\ todo = {}
  /\ Quiet

Reset ==
  /\ context' = [s \in Symbol |-> NoContext]
  /\ skipped' = {} /\ pending' = {} /\ counts' = NoCounts
  /\ rows' = {} /\ passed' = {}

(* Symbols are handled one after the other, in one order.                  *)
First(symbols) == {s \in symbols : \A u \in symbols : s <= u}

Stored(table) == {d \in Day : table[d] # 0}
LatestDate(table) == Max(Stored(table) \cup {0})

-----------------------------------------------------------------------------
(* The collector and the clock                                             *)

NextDay ==
  /\ day < MaxDay /\ day' = day + 1
  /\ UNCHANGED <<bar, feature, verdict, fetchVars, stage, scanner, todo, runVars>>

Revised == {p \in Symbol \X Day : bar[p[1]][p[2]] > 1}

(* upsert_daily: a new bar, or one that differs from the stored one. *)
StoreBar(s, d) ==
  /\ d <= day /\ bar[s][d] < MaxRev
  /\ bar[s][d] = 1 => Cardinality(Revised) < MaxRevised
  /\ bar' = [bar EXCEPT ![s][d] = @ + 1]
  /\ UNCHANGED <<day, feature, verdict, fetchVars, stage, scanner, todo, runVars>>

-----------------------------------------------------------------------------
(* FeatureEngine.run_daily                                                 *)

(* Mutant of UpToDate: symbols that have features are never refreshed. *)
UpToDateIfAny(s) == Stored(bar[s]) = {} \/ Stored(feature[s]) # {}

UpToDate(s) == LatestDate(feature[s]) >= LatestDate(bar[s])

BeginFeatures ==
  /\ stage = "idle" /\ stage' = "features"
  /\ todo' = {s \in Symbol : ~UpToDate(s)}
  /\ UNCHANGED <<stored, fetchVars, scanner, runVars>>

(* Mutant of NewRow: every row of the lookback window is rewritten. *)
AnyRow(s, d) == bar[s][d] # 0

(* features_df.index.date > cutoff *)
NewRow(s, d) == bar[s][d] # 0 /\ d > LatestDate(feature[s])

(* _run_daily_for_symbol reads everything again in its own session. *)
ComputeFeatures(s) ==
  /\ stage = "features" /\ s \in First(todo) /\ todo' = todo \ {s}
  /\ feature' = IF UpToDate(s) \/ Cardinality(Stored(bar[s])) < 2 THEN feature
                ELSE [feature EXCEPT ![s] =
                       [d \in Day |-> IF NewRow(s, d) THEN bar[s][d] ELSE @[d]]]
  /\ UNCHANGED <<day, bar, verdict, fetchVars, stage, scanner, runVars>>

(* An exception of one symbol is recorded and the next one is tried. *)
FeatureFails(s) ==
  /\ stage = "features" /\ s \in First(todo) /\ todo' = todo \ {s}
  /\ UNCHANGED <<stored, fetchVars, stage, scanner, runVars>>

FeaturesDone ==
  /\ stage = "features" /\ todo = {} /\ stage' = "next" /\ scanner' = "candidate"
  /\ UNCHANGED <<stored, fetchVars, todo, runVars>>

-----------------------------------------------------------------------------
(* ScannerEngine.run_all and ScannerManager.run_scanner                    *)

(* The scanner_runs row is committed before anything is scanned; an abort  *)
(* leaves it without a finish_time, and nothing ever looks at it again.    *)
OpenRun ==
  /\ stage = "next" /\ stage' = "opened"
  /\ scanner' = IF scanner = "candidate" THEN "listed" ELSE "candidate"
  /\ UNCHANGED <<stored, fetchVars, todo, runVars>>

ScanDate(s) == IF scanner = "listed" THEN LatestDate(feature[s]) ELSE day

(* Mutant of Seen: nothing is skipped as already scanned. *)
SeenNever(s) == FALSE

(* exists_bulk: scanned on this date already. *)
Seen(s) == verdict[scanner][s][ScanDate(s)] # 0

(* build_context_bulk and the filters after it.  A symbol without features *)
(* counts as rejected.  The clock and the rows may move on afterwards.     *)
BuildContexts ==
  /\ stage = "opened" /\ stage' = "evaluate"
  /\ LET candidates == IF scanner = "listed" THEN Symbol ELSE Universe
           without == {s \in candidates : Stored(feature[s]) = {}}
           seen == {s \in candidates \ without : Seen(s)}
       IN /\ context' = [s \in Symbol |->
                IF s \in candidates \ without
                THEN [date |-> ScanDate(s),
                      rev |-> feature[s][LatestDate(feature[s])]]
                ELSE NoContext]
          /\ todo' = candidates \ (without \cup seen)
          /\ skipped' = (Symbol \ candidates) \cup seen
          /\ counts' = [NoCounts EXCEPT !.rejected = Cardinality(without)]
  /\ UNCHANGED <<stored, fetchVars, scanner, pending, rows, passed>>

Evaluating(s) ==
  /\ stage = "evaluate" /\ s \in First(todo) /\ Cardinality(pending) < BatchSize
  /\ todo' = todo \ {s} /\ pending' = pending \cup {s}
  /\ UNCHANGED <<stored, fetchVars, stage, scanner, context, skipped>>

(* scan, score and save_results inside the savepoint of the symbol. *)
Save(s, qualified) ==
  /\ Evaluating(s)
  /\ rows' = rows \cup {s}
  /\ passed' = IF qualified THEN passed \cup {s} ELSE passed
  /\ counts' = IF qualified THEN [counts EXCEPT !.qualified = @ + 1]
                            ELSE [counts EXCEPT !.rejected = @ + 1]

(* validate() says no: a log line, no verdict. *)
Invalid(s) ==
  /\ Evaluating(s) /\ counts' = [counts EXCEPT !.rejected = @ + 1]
  /\ UNCHANGED <<rows, passed>>

(* Mutant of Raises: qualified is counted before the row is written. *)
RaisesCounted(s) ==
  /\ Evaluating(s) /\ UNCHANGED <<rows, passed>>
  /\ counts' = [counts EXCEPT !.errors = @ + 1, !.qualified = @ + 1]

(* An exception rolls the savepoint back.  One from the log line of a      *)
(* rejection comes after the symbol was counted as rejected.               *)
Raises(s) ==
  /\ Evaluating(s) /\ UNCHANGED <<rows, passed>>
  /\ \E logging \in {0, 1} :
       counts' = [counts EXCEPT !.errors = @ + 1, !.rejected = @ + logging]

CommitBatch ==
  /\ stage = "evaluate" /\ pending # {}
  /\ Cardinality(pending) = BatchSize \/ todo = {}
  /\ verdict' = [verdict EXCEPT ![scanner] = [s \in Symbol |->
        IF s \in rows \cap pending THEN [@[s] EXCEPT ![context[s].date] = context[s].rev]
        ELSE @[s]]]
  /\ fetched' = IF scanner = "listed" THEN fetched
                ELSE fetched \ {<<s, context[s].date>> : s \in rows \cap pending}
  /\ pending' = {}
  /\ UNCHANGED <<day, bar, feature, loaded, stage, scanner, todo,
                 context, skipped, rows, passed, counts>>

(* The row is closed; after the last scanner the decisions are taken and   *)
(* the event is acknowledged (AlertDelivery, PipelineQueue).               *)
CloseRun ==
  /\ stage = "evaluate" /\ todo = {} /\ pending = {}
  /\ stage' = IF scanner = "candidate" THEN "idle" ELSE "next"
  /\ Reset
  /\ UNCHANGED <<stored, fetchVars, scanner, todo>>

(* A statement outside the guarded parts or a commit raises, or the        *)
(* process stops: the open session is rolled back, the row stays open and  *)
(* the event unacknowledged.                                               *)
Aborts ==
  /\ stage # "idle" /\ stage' = "idle"
  /\ todo' = {} /\ Reset
  /\ UNCHANGED <<stored, fetchVars, scanner>>

-----------------------------------------------------------------------------
(* FundamentalQueueService: the other writer of a candidate verdict        *)

(* _select_pending, for one of the rows a run handles: its session keeps   *)
(* the row as it is now, and a commit of it does not read the row again.   *)
LoadRow(s, d) ==
  /\ loaded = NoRows /\ d \in FetchDay
  /\ <<s, d>> \notin fetched /\ verdict["candidate"][s][d] # 0
  /\ loaded' = [loaded EXCEPT ![s][d] = verdict["candidate"][s][d]]
  /\ UNCHANGED <<stored, fetched, stage, scanner, todo, runVars>>

(* _apply_result: the snapshot that was loaded, with the fetched score.    *)
Rescore(s, d) ==
  /\ loaded[s][d] # 0 /\ loaded' = NoRows
  /\ verdict' = [verdict EXCEPT !["candidate"][s][d] = loaded[s][d]]
  /\ fetched' = fetched \cup {<<s, d>>}
  /\ UNCHANGED <<day, bar, feature, stage, scanner, todo, runVars>>

-----------------------------------------------------------------------------
Next ==
  \/ NextDay
  \/ BeginFeatures \/ FeaturesDone
  \/ OpenRun \/ BuildContexts \/ CommitBatch \/ CloseRun \/ Aborts
  \/ \E s \in Symbol :
       \/ ComputeFeatures(s) \/ FeatureFails(s)
       \/ Invalid(s) \/ Raises(s)
       \/ \E d \in Day : StoreBar(s, d) \/ LoadRow(s, d) \/ Rescore(s, d)
       \/ \E q \in BOOLEAN : Save(s, q)

Spec == Init /\ [][Next]_vars

(* Events keep arriving, the worker goes on, and no symbol's features fail *)
(* for ever.                                                               *)
FairSpec ==
  /\ Spec
  /\ WF_vars(BeginFeatures) /\ WF_vars(FeaturesDone)
  /\ WF_vars(OpenRun) /\ WF_vars(BuildContexts)
  /\ WF_vars(CommitBatch) /\ WF_vars(CloseRun)
  /\ \A s \in Symbol : SF_vars(ComputeFeatures(s))
                       /\ WF_vars(\E q \in BOOLEAN : Save(s, q))

-----------------------------------------------------------------------------
(* Properties                                                              *)

(* Every variable has its type, and the worker holds uncommitted verdicts  *)
(* only of symbols of its batch, at most BatchSize of them.                *)
TypeOK ==
  /\ day \in Day
  /\ bar \in [Symbol -> [Day -> Rev]] /\ feature \in [Symbol -> [Day -> Rev]]
  /\ verdict \in [Scanner -> [Symbol -> [Day -> Rev]]]
  /\ fetched \subseteq Symbol \X Day /\ loaded \in [Symbol -> [Day -> Rev]]
  /\ scanner \in Scanner
  /\ stage \in {"idle", "features", "next", "opened", "evaluate"}
  /\ todo \in SUBSET Symbol /\ skipped \in SUBSET Symbol
  /\ pending \in SUBSET Symbol /\ Cardinality(pending) <= BatchSize
  /\ context \in [Symbol -> [date : 0..MaxDay, rev : Rev]]
  /\ rows \in SUBSET Symbol /\ passed \in SUBSET rows
  /\ counts \in [{"qualified", "rejected", "errors"} -> Nat]

(* The worker and the fundamental queue write the same candidate row from  *)
(* sessions that both read it long before, and neither undoes the other:   *)
(* no scan takes a fetched score away again (upsert would replace the      *)
(* whole snapshot), no fetch puts features back that a scan has replaced.  *)
(* What keeps them apart is only that ScannerManager skips the dates that  *)
(* have a verdict; the upsert it ends in would not (SecondScanUpdates).    *)
NoLostUpdate ==
  [][/\ fetched \subseteq fetched'
     /\ \A s \in Symbol, d \in Day :
          LET old == verdict["candidate"][s][d]
          IN old # 0 => verdict'["candidate"][s][d] = old]_vars

(* The snapshot in a LISTED verdict is what daily_features still holds for *)
(* that date: a feature row is never recomputed once written, even if its  *)
(* bar is revised (the cutoff of _run_daily_for_symbol).                   *)
VerdictMatchesFeatures ==
  \A s \in Symbol, d \in Day :
    verdict["listed"][s][d] # 0 => verdict["listed"][s][d] = feature[s][d]

(* A run counts exactly the qualified verdicts it writes, and counts every *)
(* symbol it has handled at least once, although counters are bumped       *)
(* inside savepoints that may be rolled back.                              *)
CountsMatchRows ==
  stage = "evaluate" =>
    /\ counts.qualified = Cardinality(passed)
    /\ counts.qualified + counts.rejected + counts.errors
         >= Cardinality(Symbol \ (todo \cup skipped))

(* Each symbol with enough history eventually has features for its latest  *)
(* bar, through failures of single symbols and aborted passes.             *)
FeaturesCatchUp ==
  \A s \in Symbol :
    Cardinality(Stored(bar[s])) >= 2 ~> LatestDate(feature[s]) = LatestDate(bar[s])

(* "A second scan on the same day updates the existing verdict"            *)
(* (ScannerResultRepository.upsert).  Violated: the second scan skips it.  *)
SecondScanUpdates ==
  [][CloseRun /\ scanner = "candidate" =>
       \A s \in {u \in Universe : Stored(feature[u]) # {}} :
         verdict["candidate"][s][day] \in {0, feature[s][LatestDate(feature[s])]}]_vars
=============================================================================
