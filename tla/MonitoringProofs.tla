--------------------------- MODULE MonitoringProofs ---------------------------
(***************************************************************************)
(* Proofs about Monitoring, for any workers' thresholds, any symbols and   *)
(* any calendar: an outage always shows in the overall status.             *)
(***************************************************************************)
EXTENDS Monitoring, WellFoundedInduction, TLAPS

-----------------------------------------------------------------------------
(* The latest of a set, and the worst of the statuses                      *)

(* A nonempty set of bounded numbers has a greatest element. *)
LEMMA Greatest ==
  ASSUME NEW n \in Nat, NEW S \in SUBSET (0..n), S # {}
  PROVE  Max(S) \in S /\ \A y \in S : Max(S) >= y
<1> DEFINE R == OpToRel(<, Nat)
           U == {u \in Nat : \A y \in S : y <= u}
<1>1. n \in U
  OBVIOUS
<1>2. IsWellFoundedOn(R, Nat)
  BY NatLessThanWellFounded
<1>3. PICK u \in U : \A v \in U : ~ (<<v, u>> \in R)
  <2>1. U \in SUBSET Nat /\ U # {}
    BY <1>1
  <2> HIDE DEF R, U
  <2> QED BY <1>2, <2>1, WFMin
<1>4. \A v \in U : ~ (v < u)
  BY <1>3 DEF OpToRel
<1>5. u \in S
  <2> SUFFICES ASSUME u \notin S PROVE FALSE
    OBVIOUS
  <2>1. PICK y \in S : TRUE
    OBVIOUS
  <2>2. y < u /\ u - 1 \in Nat
    BY <2>1
  <2>3. \A z \in S : z <= u - 1
    OBVIOUS
  <2>4. u - 1 \in U
    BY <2>2, <2>3
  <2> QED BY <2>2, <2>4, <1>4
<1>6. \E x \in S : \A y \in S : x >= y
  BY <1>5
<1> QED BY <1>6 DEF Max

(* Latest is the greatest, and None of nothing. *)
LEMMA LatestLemma ==
  ASSUME NEW n \in Nat, NEW S \in SUBSET (0..n)
  PROVE  /\ S = {} => Latest(S) = None
         /\ S # {} => /\ Latest(S) \in S /\ \A y \in S : Latest(S) >= y
                      /\ Latest(S) \in Nat /\ Latest(S) # None
<1>1. CASE S = {}
  BY <1>1 DEF Latest
<1>2. CASE S # {}
  <2>1. Latest(S) = Max(S)
    BY <1>2 DEF Latest
  <2>2. Max(S) \in S /\ \A y \in S : Max(S) >= y
    BY <1>2, Greatest
  <2>3. \A m \in S : m \in Nat
    OBVIOUS
  <2>4. \A m \in S : m # None
    BY <2>3, CalendarOK
  <2> QED BY <1>2, <2>1, <2>2, <2>3, <2>4
<1> QED BY <1>1, <1>2

StatusName == {"HEALTHY", "NOT_CONFIGURED", "UNKNOWN", "WARNING", "STALE", "BLOCKED", "FAILED"}

(* worst_status ranks every status. *)
LEMMA SeverityOf ==
  /\ \A status \in StatusName : Severity[status] \in 0..4
  /\ Severity["UNKNOWN"] = 1 /\ Severity["WARNING"] = 2 /\ Severity["STALE"] = 3
  /\ Severity["FAILED"] = 4
BY DEF Severity, StatusName

(* The overall status is at least as severe as each one it is made of. *)
LEMMA OverallLemma ==
  ASSUME Statuses \subseteq StatusName, NEW status \in Statuses
  PROVE  Overall \in 0..4 /\ Overall >= Severity[status]
<1> DEFINE S == {Severity[st] : st \in Statuses}
<1>1. S \in SUBSET (0..4) /\ Severity[status] \in S /\ S # {}
  BY SeverityOf
<1>2. Overall = Max(S)
  BY DEF Overall
<1> HIDE DEF S
<1>3. Max(S) \in S /\ \A y \in S : Max(S) >= y
  BY <1>1, Greatest
<1> QED BY <1>1, <1>2, <1>3

(* A day is not later than its slots are many. *)
LEMMA DayLemma == \A t \in Nat : DayOf(t) \in 0..t
<1> SUFFICES ASSUME NEW t \in Nat PROVE DayOf(t) \in 0..t
  OBVIOUS
<1> DEFINE d == t \div SlotsPerDay
           m == t % SlotsPerDay
<1>1. SlotsPerDay \in Nat /\ SlotsPerDay > 0
  BY CalendarOK
<1>2. d \in Int /\ m \in 0..SlotsPerDay - 1 /\ t = SlotsPerDay * d + m
  BY <1>1
<1> HIDE DEF d, m
<1>3. d >= 0
  <2> SUFFICES ASSUME d <= -1 PROVE FALSE
    BY <1>2
  <2>1. SlotsPerDay * d <= -SlotsPerDay
    BY <1>1, <1>2
  <2> QED BY <1>1, <1>2, <2>1
<1>4. SlotsPerDay * d >= d
  BY <1>1, <1>2, <1>3
<1>5. d \in 0..t
  BY <1>1, <1>2, <1>3, <1>4
<1> QED BY <1>5 DEF DayOf, d

-----------------------------------------------------------------------------
(* The inductive invariant                                                 *)

Moment == Nat \cup {None}
Past == 0..now

Shapes ==
  /\ now \in Nat
  /\ heartbeat \in [Worker -> [run : Moment, success : Moment, idle : BOOLEAN]]
  /\ attempted \in [Worker -> Moment]

(* A heartbeat is never newer than what the worker really did: it may be   *)
(* lost, not invented.                                                     *)
RanOK ==
  \A w \in Worker :
    /\ attempted[w] # None => attempted[w] <= now
    /\ heartbeat[w].run # None => attempted[w] # None /\ heartbeat[w].run <= attempted[w]
    /\ heartbeat[w].success # None =>
         attempted[w] # None /\ heartbeat[w].run # None /\ heartbeat[w].success <= attempted[w]

(* Features are of a day with prices. *)
DataOK ==
  /\ bars \in [Symbol -> SUBSET Past] /\ daily \in [Symbol -> SUBSET Past]
  /\ features \in [Symbol -> Past \cup {None}]
  /\ \A s \in Symbol : features[s] # None => daily[s] # {}
  /\ scanned \in Moment

MonitoringInv == Shapes /\ RanOK /\ DataOK

(* A worker's cycle, whatever becomes of its heartbeat. *)
LEMMA CycleLemma ==
  ASSUME Shapes, RanOK, now' = now, NEW w \in Worker, Ran({w}), NEW idle \in BOOLEAN,
         \/ heartbeat' = heartbeat
         \/ heartbeat' = PingRun(heartbeat, w, idle)
         \/ heartbeat' = PingSuccess(heartbeat, w)
  PROVE  Shapes' /\ RanOK'
<1> USE CalendarOK DEF Shapes, Moment
<1>1. attempted' = [v \in Worker |-> IF v = w THEN now ELSE attempted[v]]
  BY DEF Ran
<1>2. /\ heartbeat' \in [Worker -> [run : Moment, success : Moment, idle : BOOLEAN]]
      /\ \A v \in Worker \ {w} : heartbeat'[v] = heartbeat[v]
      /\ \/ heartbeat'[w] = heartbeat[w]
         \/ heartbeat'[w].run = now /\ heartbeat'[w].success = heartbeat[w].success
         \/ heartbeat'[w].run = now /\ heartbeat'[w].success = now
  <2>1. CASE heartbeat' = heartbeat
    BY <2>1
  <2>2. CASE heartbeat' = PingSuccess(heartbeat, w)
    BY <2>2 DEF PingSuccess
  <2>3. CASE heartbeat' = PingRun(heartbeat, w, idle)
    <3> DEFINE mid == [heartbeat EXCEPT ![w].run = now]
    <3>1. heartbeat' = [mid EXCEPT ![w].idle = idle]
      BY <2>3 DEF PingRun
    <3>2. /\ mid \in [Worker -> [run : Moment, success : Moment, idle : BOOLEAN]]
          /\ \A v \in Worker \ {w} : mid[v] = heartbeat[v]
          /\ mid[w].run = now /\ mid[w].success = heartbeat[w].success
      OBVIOUS
    <3> HIDE DEF mid
    <3> QED BY <3>1, <3>2
  <2> QED BY <2>1, <2>2, <2>3
<1>3. Shapes'
  BY <1>1, <1>2
<1>4. RanOK'
  <2> SUFFICES ASSUME NEW v \in Worker
               PROVE  /\ attempted'[v] # None => attempted'[v] <= now
                      /\ heartbeat'[v].run # None =>
                           attempted'[v] # None /\ heartbeat'[v].run <= attempted'[v]
                      /\ heartbeat'[v].success # None =>
                           /\ attempted'[v] # None /\ heartbeat'[v].run # None
                           /\ heartbeat'[v].success <= attempted'[v]
    BY DEF RanOK
  <2>1. CASE v # w
    BY <1>1, <1>2, <2>1 DEF RanOK
  <2>2. CASE v = w
    <3>1. attempted'[w] = now /\ now # None
      BY <1>1
    <3>2. /\ heartbeat[w].run # None => heartbeat[w].run \in Nat /\ heartbeat[w].run <= now
          /\ heartbeat[w].success # None =>
               heartbeat[w].run # None /\ heartbeat[w].success \in Nat /\ heartbeat[w].success <= now
      <4>1. attempted[w] \in Moment /\ heartbeat[w].run \in Moment /\ heartbeat[w].success \in Moment
        OBVIOUS
      <4> QED BY <4>1 DEF RanOK
    <3> QED BY <1>2, <2>2, <3>1, <3>2
  <2> QED BY <2>1, <2>2
<1> QED BY <1>3, <1>4

LEMMA InitMonitoring == Init => MonitoringInv
BY CalendarOK DEF Init, MonitoringInv, Shapes, RanOK, DataOK, Moment, Past

(* A step of the data leaves the heartbeats to their invariant. *)
LEMMA HeartbeatsKept ==
  ASSUME Shapes, RanOK, now' \in Nat, now <= now', UNCHANGED <<heartbeat, attempted>>
  PROVE  Shapes' /\ RanOK'
<1>1. Shapes'
  BY DEF Shapes
<1>2. RanOK'
  BY DEF Shapes, RanOK, Moment
<1> QED BY <1>1, <1>2

LEMMA NextMonitoring == MonitoringInv /\ [Next]_vars => MonitoringInv'
<1> SUFFICES ASSUME MonitoringInv, [Next]_vars PROVE MonitoringInv'
  OBVIOUS
<1> USE DEF MonitoringInv
<1>1. now \in Nat /\ DayOf(now) \in Past
  BY DayLemma DEF Shapes, Past
<1>2. ASSUME UNCHANGED <<now, heartbeat, attempted, features, scanned>>,
             bars' \in [Symbol -> SUBSET Past], daily' \in [Symbol -> SUBSET Past],
             \A s \in Symbol : daily[s] \subseteq daily'[s]
      PROVE  MonitoringInv'
  <2>1. Shapes' /\ RanOK'
    BY <1>1, <1>2, HeartbeatsKept
  <2>2. DataOK'
    BY <1>2 DEF DataOK, Past
  <2> QED BY <2>1, <2>2
<1>3. CASE Ingest
  <2>1. UNCHANGED <<now, heartbeat, attempted, features, scanned, daily>>
    BY <1>3 DEF Ingest
  <2>2. bars' \in [Symbol -> SUBSET Past]
    BY <1>1, <1>3 DEF Ingest, DataOK, Past
  <2> QED BY <1>2, <2>1, <2>2 DEF DataOK
<1>4. CASE BackfillGap
  <2>1. UNCHANGED <<now, heartbeat, attempted, features, scanned, daily>>
    BY <1>4 DEF BackfillGap
  <2>2. bars' \in [Symbol -> SUBSET Past]
    BY <1>1, <1>4 DEF BackfillGap, DataOK, Past
  <2> QED BY <1>2, <2>1, <2>2 DEF DataOK
<1>5. CASE DailyJob
  <2>1. UNCHANGED <<now, heartbeat, attempted, features, scanned, bars>>
    BY <1>5 DEF DailyJob
  <2>2. daily' \in [Symbol -> SUBSET Past] /\ \A s \in Symbol : daily[s] \subseteq daily'[s]
    BY <1>1, <1>5 DEF DailyJob, DataOK
  <2> QED BY <1>2, <2>1, <2>2 DEF DataOK
<1>6. ASSUME NEW computed \in BOOLEAN, NEW ran \in BOOLEAN, Work(computed, ran)
      PROVE  MonitoringInv'
  <2>1. now' = now /\ bars' = bars /\ daily' = daily
    BY <1>6 DEF Work
  <2>2. Shapes' /\ RanOK'
    <3>1. CASE computed
      <4>1. Ran({"feature_engine"})
        BY <1>6, <3>1 DEF Work
      <4>2. heartbeat' \in {heartbeat, PingSuccess(heartbeat, "feature_engine")}
        BY <1>6, <3>1 DEF Work, Recorded
      <4>3. "feature_engine" \in Worker
        BY DEF Worker
      <4> HIDE DEF MonitoringInv
      <4>4. Shapes /\ RanOK
        BY DEF MonitoringInv
      <4> QED BY <2>1, <4>1, <4>2, <4>3, <4>4, CycleLemma
    <3>2. CASE ~computed
      <4>1. heartbeat' = heartbeat
        BY <1>6, <3>2 DEF Work, Recorded
      <4>2. attempted' = [w \in Worker |-> attempted[w]]
        BY <1>6, <3>2 DEF Work, Ran
      <4>3. attempted' = attempted
        BY <4>2 DEF Shapes
      <4> QED BY <1>1, <2>1, <4>1, <4>3, HeartbeatsKept
    <3> QED BY <3>1, <3>2
  <2>3. DataOK'
    <3>1. \A s \in Symbol : daily[s] # {} => Latest(daily[s]) \in Past
      BY <1>1, LatestLemma DEF DataOK, Past
    <3>2. features' = [s \in Symbol |->
             IF computed /\ daily[s] # {} THEN Latest(daily[s]) ELSE features[s]]
      BY <1>6 DEF Work
    <3>3. features' \in [Symbol -> Past \cup {None}]
      BY <3>1, <3>2 DEF DataOK
    <3>4. \A s \in Symbol : features'[s] # None => daily[s] # {}
      BY <3>2 DEF DataOK
    <3>5. scanned' \in Moment
      BY <1>1, <1>6 DEF Work, DataOK, Moment
    <3> QED BY <2>1, <3>3, <3>4, <3>5 DEF DataOK, Past
  <2> QED BY <2>2, <2>3
<1>7. CASE MomentumJob
  <2>1. Ran({"momentum_pipeline"}) /\ UNCHANGED <<now, bars, daily, features, scanned>>
    BY <1>7 DEF MomentumJob, dataVars
  <2>2. heartbeat' \in {heartbeat, PingRun(heartbeat, "momentum_pipeline", TRUE),
                        PingSuccess(heartbeat, "momentum_pipeline")}
    BY <1>7 DEF MomentumJob, Skip, Run, RunRaises, Recorded
  <2>3. "momentum_pipeline" \in Worker
    BY DEF Worker
  <2>4. Shapes' /\ RanOK'
    <3> HIDE DEF MonitoringInv
    <3>1. Shapes /\ RanOK
      BY DEF MonitoringInv
    <3> QED BY <2>1, <2>2, <2>3, <3>1, CycleLemma
  <2>5. DataOK'
    BY <2>1 DEF DataOK, Past
  <2> QED BY <2>4, <2>5
<1>8. CASE FollowUp \/ ListMoves \/ UNCHANGED vars
  <2>1. UNCHANGED <<now, heartbeat, attempted, features, scanned, bars, daily>>
    BY <1>8 DEF FollowUp, ListMoves, vars, dataVars
  <2> QED BY <1>2, <2>1 DEF DataOK
<1>9. CASE Tick
  <2>1. now' = now + 1 /\ UNCHANGED <<heartbeat, attempted, features, scanned, bars, daily>>
    BY <1>9 DEF Tick, dataVars
  <2>2. Shapes' /\ RanOK'
    BY <1>1, <2>1, HeartbeatsKept
  <2>3. Past \subseteq Past'
    BY <1>1, <2>1 DEF Past
  <2>4. DataOK'
    <3>1. bars' \in [Symbol -> SUBSET Past'] /\ daily' \in [Symbol -> SUBSET Past']
      BY <2>1, <2>3 DEF DataOK
    <3>2. features' \in [Symbol -> Past' \cup {None}]
      BY <2>1, <2>3 DEF DataOK
    <3> QED BY <2>1, <3>1, <3>2 DEF DataOK
  <2> QED BY <2>2, <2>4
<1> QED BY <1>3, <1>4, <1>5, <1>6, <1>7, <1>8, <1>9 DEF Next

-----------------------------------------------------------------------------
(* Outages                                                                 *)

(* Each check answers with a status the severities know. *)
LEMMA StatusesKnown == Statuses \subseteq StatusName
<1> USE DEF StatusName
<1>1. CheckMarketCalendar \in StatusName
  BY DEF CheckMarketCalendar
<1>2. CheckFeatureFreshness \in StatusName
  BY DEF CheckFeatureFreshness
<1>3. CheckMarketDataPipeline \in StatusName
  BY DEF CheckMarketDataPipeline
<1>4. \A age, w : ByAge(age, w) \in StatusName
  BY DEF ByAge
<1>5. CheckScanners \in StatusName
  BY <1>4 DEF CheckScanners
<1>6. \A w \in Worker : CheckWorkerHeartbeat(w) \in StatusName
  BY <1>4 DEF CheckWorkerHeartbeat
<1> QED BY <1>1, <1>2, <1>3, <1>5, <1>6 DEF Statuses

(* A silent worker: its last heartbeat is at least as old as its last run. *)
LEMMA SilenceShows ==
  ASSUME MonitoringInv, NEW w \in Worker, Silent(w)
  PROVE  /\ heartbeat[w].run = None => CheckWorkerHeartbeat(w) = "UNKNOWN"
         /\ heartbeat[w].run # None => CheckWorkerHeartbeat(w) \in {"WARNING", "STALE"}
<1> DEFINE hb == heartbeat[w]
<1>1. CASE hb.run = None
  BY <1>1 DEF CheckWorkerHeartbeat
<1>2. CASE hb.run # None
  <2>1. /\ attempted[w] \in Nat /\ now \in Nat /\ hb.run \in Nat /\ hb.run <= attempted[w]
        /\ hb.success # None => hb.success \in Nat /\ hb.success <= attempted[w]
    BY <1>2 DEF MonitoringInv, Shapes, RanOK, Moment
  <2>2. attempted[w] # None
    BY <2>1, CalendarOK
  <2>3. Age(attempted[w]) > StaleAfter[w]
    BY <2>2 DEF Silent
  <2>4. StaleAfter[w] \in Nat /\ Warning[w] \in Nat /\ Warning[w] <= StaleAfter[w]
    BY MonitoringAssumption
  <2>5. CASE hb.success = None
    <3>1. ~ (Age(hb.run) =< Warning[w])
      BY <2>1, <2>3, <2>4 DEF Age
    <3> QED BY <1>2, <2>5, <3>1 DEF CheckWorkerHeartbeat
  <2>6. CASE hb.success # None
    <3>1. Age(hb.success) > StaleAfter[w]
      BY <2>1, <2>3, <2>4, <2>6 DEF Age
    <3>2. Age(hb.success) \in Int
      BY <2>1, <2>6 DEF Age
    <3>3. ByAge(Age(hb.success), w) = "STALE"
      BY <2>4, <3>1, <3>2 DEF ByAge
    <3> QED BY <1>2, <2>6, <3>3 DEF CheckWorkerHeartbeat
  <2> QED BY <2>5, <2>6
<1> QED BY <1>1, <1>2

(* Features of every symbol too far behind its prices are behind together. *)
LEMMA FrozenShows ==
  ASSUME MonitoringInv, Frozen
  PROVE  CheckFeatureFreshness \in {"STALE", "FAILED"}
<1> DEFINE D == UNION {daily[s] : s \in Symbol}
           F == {features[s] : s \in Symbol} \ {None}
<1>1. now \in Nat /\ D \in SUBSET (0..now) /\ F \in SUBSET (0..now)
  BY DEF MonitoringInv, Shapes, DataOK, Past
<1>2. PricesDate = Latest(D) /\ FeaturesDate = Latest(F) /\ PricesDate # None
  BY DEF PricesDate, FeaturesDate, Frozen
<1> HIDE DEF D, F
<1>3. D # {} /\ PricesDate \in Nat /\ \A y \in D : PricesDate >= y
  BY <1>1, <1>2, LatestLemma
<1>4. CASE F = {}
  <2>1. FeaturesDate = None
    BY <1>1, <1>2, <1>4, LatestLemma
  <2> QED BY <1>2, <2>1 DEF CheckFeatureFreshness
<1>5. CASE F # {}
  <2>1. FeaturesDate \in F /\ FeaturesDate \in Nat /\ FeaturesDate # None
    BY <1>1, <1>2, <1>5, LatestLemma
  <2>2. PICK s \in Symbol : features[s] = FeaturesDate
    BY <2>1 DEF F
  <2>3. daily[s] # {} /\ daily[s] \in SUBSET (0..now)
    BY <2>1, <2>2 DEF MonitoringInv, DataOK, Past
  <2>4. Latest(daily[s]) \in daily[s] /\ Latest(daily[s]) \in Nat
    BY <1>1, <2>3, LatestLemma
  <2>5. Latest(daily[s]) \in D
    BY <2>4 DEF D
  <2>6. Latest(daily[s]) - features[s] > MaxLag
    BY <2>1, <2>2, <2>3 DEF Frozen
  <2>7. PricesDate - FeaturesDate > MaxLag
    BY <1>3, <2>1, <2>2, <2>4, <2>5, <2>6, MonitoringAssumption
  <2> QED BY <1>2, <2>1, <2>7 DEF CheckFeatureFreshness
<1> QED BY <1>4, <1>5

(* An open market without a recent bar. *)
LEMMA NoTicksShows ==
  ASSUME MonitoringInv, NoTicks
  PROVE  CheckMarketDataPipeline \in {"STALE", "FAILED"}
<1>1. IsMarketOpen(now)
  BY DEF NoTicks
<1>2. CASE LatestIntraday = None
  BY <1>1, <1>2 DEF CheckMarketDataPipeline
<1>3. CASE LatestIntraday # None
  <2>1. Age(LatestIntraday) > Warning["feature_engine"]
    BY <1>3 DEF NoTicks
  <2> QED BY <1>1, <1>3, <2>1 DEF CheckMarketDataPipeline
<1> QED BY <1>2, <1>3

(* An outage shows in the overall status, whatever the other checks say:   *)
(* a silent worker, features that stopped, a market without bars.          *)
THEOREM OutagesTheorem == Spec => []OutagesAreSeen
<1>1. MonitoringInv => OutagesAreSeen
  <2> SUFFICES ASSUME MonitoringInv PROVE OutagesAreSeen
    OBVIOUS
  <2>1. \A status \in Statuses : Overall \in 0..4 /\ Overall >= Severity[status]
    BY StatusesKnown, OverallLemma
  <2>2. \A w \in Worker : CheckWorkerHeartbeat(w) \in Statuses
    BY DEF Statuses
  <2>3. CheckFeatureFreshness \in Statuses /\ CheckMarketDataPipeline \in Statuses
    BY DEF Statuses
  <2>4. ASSUME NEW w \in Worker, Silent(w) PROVE Overall >= Severity["UNKNOWN"]
    BY <2>1, <2>2, <2>4, SilenceShows, SeverityOf
  <2>5. ASSUME NEW w \in Worker, Silent(w), heartbeat[w].run # None
        PROVE  Overall >= Severity["WARNING"]
    BY <2>1, <2>2, <2>5, SilenceShows, SeverityOf
  <2>6. ASSUME Frozen \/ NoTicks PROVE Overall >= Severity["STALE"]
    <3>1. \/ CheckFeatureFreshness \in {"STALE", "FAILED"}
          \/ CheckMarketDataPipeline \in {"STALE", "FAILED"}
      BY <2>6, FrozenShows, NoTicksShows
    <3> QED BY <2>1, <2>3, <3>1, SeverityOf
  <2> QED BY <2>4, <2>5, <2>6 DEF OutagesAreSeen
<1> QED BY <1>1, InitMonitoring, NextMonitoring, PTL DEF Spec
=============================================================================
