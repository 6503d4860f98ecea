---------------------------- MODULE CollectorProofs ----------------------------
(***************************************************************************)
(* Proofs about the two sides of MarketDataCollector.  Its runs            *)
(* (CollectorRuns), for every set of overlapping ones and every interval,  *)
(* backoff and number of retries: the connection and the clock are shared  *)
(* without a lock; what makes each run keep its pace is that the shared    *)
(* clock is never ahead of a run's own (Pacing).  And what its symbol      *)
(* refresh does to the universe (SymbolUniverse), for every finite set of  *)
(* symbols and every fraction.  The two have no variable in common.        *)
(***************************************************************************)
EXTENDS CollectorRuns, SymbolUniverse, FiniteSetTheorems, TLAPS

-----------------------------------------------------------------------------
(* The runs                                                                *)

(* A run that has an item in hand counts it; one that backs off may try    *)
(* again.                                                                  *)
InHand == {"pace", "ready", "paced", "sent", "backoff"}
CountsOK ==
  \A j \in Job : /\ pc[j] \in InHand => left[j] >= 1
                 /\ pc[j] = "backoff" => tries[j] < MaxRetries

(* The last call of the process is not older than the last call of a run,  *)
(* and a run that sleeps wakes no earlier than an interval after its own.  *)
Pacing ==
  \A j \in Job : /\ sinceCall <= mine[j]
                 /\ pc[j] = "paced" => mine[j] + wait[j] >= Interval

Shared == broker \in {"upstox", "fivepaisa"} /\ accepted \in BOOLEAN /\ connected \in BOOLEAN
RunInv == ClockOK /\ RunOK /\ CountsOK /\ Pacing /\ Shared

(* What a step of run j leaves alone, and what it owes its own variables.  *)
OnlyOwn(j) ==
  /\ pc' = [pc EXCEPT ![j] = pc'[j]] /\ left' = [left EXCEPT ![j] = left'[j]]
  /\ tries' = [tries EXCEPT ![j] = tries'[j]] /\ wait' = [wait EXCEPT ![j] = wait'[j]]
  /\ failed' = [failed EXCEPT ![j] = failed'[j]]
  /\ \/ UNCHANGED <<sinceCall, mine>>
     \/ sinceCall' = 0 /\ mine' = [mine EXCEPT ![j] = 0] /\ pc'[j] = "sent"

OwnOK(j) ==
  /\ pc'[j] \in Place /\ left'[j] \in Nat /\ tries'[j] \in 0..MaxRetries
  /\ wait'[j] \in Nat /\ failed'[j] \in BOOLEAN
  /\ pc'[j] \in InHand => left'[j] >= 1
  /\ pc'[j] = "backoff" => tries'[j] < MaxRetries
  /\ pc'[j] = "paced" => mine[j] + wait'[j] >= Interval

(* Such a step preserves the invariant, whatever the other runs are doing. *)
LEMMA OneRunMoves ==
  ASSUME RunInv, NEW j \in Job, OnlyOwn(j), OwnOK(j), Shared'
  PROVE  RunInv'
<1> USE ConstantsOK DEF RunInv, OnlyOwn, OwnOK
<1>1. ClockOK'
  BY DEF ClockOK
<1>2. RunOK'
  BY DEF RunOK
<1>3. CountsOK'
  BY DEF CountsOK, RunOK
<1>4. Pacing'
  <2> SUFFICES ASSUME NEW k \in Job
               PROVE  /\ sinceCall' <= mine'[k]
                      /\ pc'[k] = "paced" => mine'[k] + wait'[k] >= Interval
    BY DEF Pacing
  <2>1. mine[k] \in Nat /\ sinceCall \in Nat /\ sinceCall <= mine[k]
    BY DEF ClockOK, Pacing
  <2>2. sinceCall' <= mine'[k]
    BY <2>1 DEF ClockOK
  <2>3. CASE k = j
    BY <2>2, <2>3 DEF RunOK, ClockOK
  <2>4. CASE k # j
    <3>1. pc'[k] = pc[k] /\ wait'[k] = wait[k] /\ mine'[k] = mine[k]
      BY <2>4 DEF RunOK, ClockOK
    <3> QED BY <2>2, <3>1 DEF Pacing
  <2> QED BY <2>3, <2>4
<1> QED BY <1>1, <1>2, <1>3, <1>4

(* Time passes for all runs at once. *)
LEMMA TickKeeps == RunInv /\ Tick => RunInv'
<1> SUFFICES ASSUME RunInv, Tick PROVE RunInv'
  OBVIOUS
<1> USE ConstantsOK DEF RunInv, Tick, Later
<1>1. ClockOK'
  BY DEF ClockOK
<1>2. RunOK'
  BY DEF RunOK
<1>3. CountsOK' /\ Shared'
  BY DEF CountsOK, Shared
<1>4. Pacing'
  BY DEF Pacing, ClockOK, RunOK
<1> QED BY <1>1, <1>2, <1>3, <1>4

(* A run that is aborted has nothing in hand. *)
LEMMA AbortKeeps ==
  ASSUME RunInv, NEW j \in Job, Abort(j), UNCHANGED <<sinceCall, mine, wait>>
  PROVE  OnlyOwn(j) /\ OwnOK(j)
<1> USE ConstantsOK DEF RunInv, RunOK
<1>1. /\ pc' = [pc EXCEPT ![j] = "record"] /\ failed' = [failed EXCEPT ![j] = TRUE]
      /\ tries' = [tries EXCEPT ![j] = 0] /\ left' = [left EXCEPT ![j] = 0]
  BY DEF Abort, Goto
<1>2. /\ pc'[j] = "record" /\ failed'[j] = TRUE /\ failed'[j] \in BOOLEAN
      /\ tries'[j] = 0 /\ left'[j] = 0 /\ wait'[j] \in Nat
  BY <1>1
<1>3. OnlyOwn(j)
  BY <1>1, <1>2 DEF OnlyOwn
<1> HIDE DEF RunOK, RunInv
<1>4. OwnOK(j)
  BY <1>2 DEF OwnOK, Place, InHand
<1> QED BY <1>3, <1>4

(* Both ways an item can fail, from a place where it is in hand.           *)
LEMMA ItemFailsKeeps ==
  ASSUME RunInv, NEW j \in Job, ItemFails(j), left[j] >= 1,
         UNCHANGED <<sinceCall, mine, wait>>
  PROVE  OnlyOwn(j) /\ OwnOK(j)
<1> USE ConstantsOK DEF RunInv, RunOK, Goto
<1>1. CASE j = "symbols"
  BY <1>1, AbortKeeps DEF ItemFails
<1>2. CASE j # "symbols"
  <2>1. left[j] - 1 \in Nat
    OBVIOUS
  <2>2. /\ pc' = [pc EXCEPT ![j] = "next"] /\ left' = [left EXCEPT ![j] = left[j] - 1]
        /\ tries' = [tries EXCEPT ![j] = 0] /\ UNCHANGED failed
    BY <1>2 DEF ItemFails
  <2>3. pc'[j] = "next" /\ left'[j] = left[j] - 1 /\ tries'[j] = 0 /\ failed'[j] = failed[j]
    BY <2>2
  <2>4. OnlyOwn(j)
    BY <2>2, <2>3 DEF OnlyOwn
  <2>5. OwnOK(j)
    BY <2>1, <2>3 DEF OwnOK, Place, InHand
  <2> QED BY <2>4, <2>5
<1> QED BY <1>1, <1>2

(* Every action of a run preserves the invariant. *)
LEMMA RunKeeps ==
  ASSUME RunInv, NEW j \in Job, Start(j) \/ Running(j) \/ Lose(j)
  PROVE  RunInv'
<1> USE ConstantsOK DEF RunInv, RunOK, Goto
<1>0. OnlyOwn(j) /\ OwnOK(j) /\ Shared' => RunInv'
  BY OneRunMoves
<1>1. CASE Start(j)
  BY <1>0, <1>1 DEF Start, FirstPlace, OnlyOwn, OwnOK, Shared, Place, InHand
<1>2. ASSUME NEW ok \in BOOLEAN, ConnectAnswer(j, ok) PROVE RunInv'
  <2>1. Shared'
    BY <1>2 DEF ConnectAnswer, Shared
  <2>2. CASE ok
    BY <1>0, <1>2, <2>1, <2>2 DEF ConnectAnswer, OnlyOwn, OwnOK, Place, InHand
  <2>3. CASE ~ok
    BY <1>0, <1>2, <2>1, <2>3, AbortKeeps DEF ConnectAnswer
  <2> QED BY <2>2, <2>3
<1>3. CASE NextItem(j)
  BY <1>0, <1>3 DEF NextItem, OnlyOwn, OwnOK, Shared, Place, InHand
<1>4. CASE Record(j)
  BY <1>0, <1>4 DEF Record, OnlyOwn, OwnOK, Shared, Place, InHand
<1>5. CASE Finish(j)
  BY <1>0, <1>5 DEF Finish, OnlyOwn, OwnOK, Shared, Place, InHand
<1>6. CASE Lose(j)
  BY <1>0, <1>6 DEF Lose, OnlyOwn, OwnOK, Shared, Place, InHand
<1>7. ASSUME NEW ok \in BOOLEAN, Reconnect(j, ok) PROVE RunInv'
  <2>1. left[j] >= 1 /\ Shared'
    BY <1>7 DEF Reconnect, CountsOK, InHand, Shared
  <2>2. CASE ok
    BY <1>0, <1>7, <2>1, <2>2 DEF Reconnect, OnlyOwn, OwnOK, Place, InHand
  <2>3. CASE ~ok
    BY <1>0, <1>7, <2>1, <2>3, ItemFailsKeeps DEF Reconnect
  <2> QED BY <2>2, <2>3
<1>8. CASE Pace(j)
  <2>1. left[j] >= 1 /\ Shared'
    BY <1>8 DEF Pace, Ready, CountsOK, InHand, Shared
  <2>2. CASE Paced(j) /\ Delay > 0
    <3>1. Delay \in Nat /\ mine[j] + Delay >= Interval
      BY <2>2 DEF Delay, Pacing, ClockOK
    <3> QED BY <1>0, <1>8, <2>1, <2>2, <3>1 DEF Pace, OnlyOwn, OwnOK, Place, InHand
  <2>3. CASE ~(Paced(j) /\ Delay > 0)
    BY <1>0, <1>8, <2>1, <2>3 DEF Pace, Send, OnlyOwn, OwnOK, Place, InHand
  <2> QED BY <2>2, <2>3
<1>9. CASE Wake(j)
  <2>1. left[j] >= 1 /\ Shared'
    BY <1>9 DEF Wake, CountsOK, InHand, Shared
  <2> QED BY <1>0, <1>9, <2>1 DEF Wake, Send, OnlyOwn, OwnOK, Place, InHand
<1>10. CASE Answer(j)
  <2>1. left[j] >= 1 /\ Shared'
    BY <1>10 DEF Answer, CountsOK, InHand, Shared
  <2> QED BY <1>0, <1>10, <2>1 DEF Answer, OnlyOwn, OwnOK, Place, InHand
<1>11. CASE Transient(j)
  <2>1. left[j] >= 1 /\ Shared'
    BY <1>11 DEF Transient, CountsOK, InHand, Shared, ConnectedAfterError
  <2>2. CASE MayRetry(j)
    <3>1. Backoff * tries[j] \in Nat
      OBVIOUS
    <3> HIDE DEF RunOK
    <3>2. tries[j] < MaxRetries /\ tries[j] \in 0..MaxRetries /\ failed[j] \in BOOLEAN
      BY <2>2 DEF MayRetry, RunOK
    <3>3. /\ pc' = [pc EXCEPT ![j] = "backoff"] /\ UNCHANGED <<left, tries, failed, sinceCall, mine>>
          /\ wait' = [wait EXCEPT ![j] = Backoff * tries[j]]
      BY <1>11, <2>2 DEF Transient
    <3>4. pc'[j] = "backoff" /\ wait'[j] = Backoff * tries[j]
      BY <3>3 DEF RunOK
    <3>5. OnlyOwn(j)
      BY <3>3, <3>4 DEF OnlyOwn, RunOK
    <3>6. OwnOK(j)
      BY <2>1, <3>1, <3>2, <3>3, <3>4 DEF OwnOK, Place, InHand, RunOK
    <3> QED BY <1>0, <2>1, <3>5, <3>6
  <2>3. CASE ~MayRetry(j)
    BY <1>0, <1>11, <2>1, <2>3, ItemFailsKeeps DEF Transient
  <2> QED BY <2>2, <2>3
<1>12. CASE BackoffEnds(j)
  <2>1. left[j] >= 1 /\ tries[j] < MaxRetries /\ Shared'
    BY <1>12 DEF BackoffEnds, CountsOK, InHand, Shared
  <2> QED BY <1>0, <1>12, <2>1 DEF BackoffEnds, OnlyOwn, OwnOK, Place, InHand
<1>13. ASSUME Denied(j) \/ Permanent(j) PROVE RunInv'
  <2>1. left[j] >= 1 /\ Shared'
    BY <1>13 DEF Denied, Permanent, CountsOK, InHand, Shared
  <2> QED BY <1>0, <1>13, <2>1, ItemFailsKeeps DEF Denied, Permanent
<1> QED
  BY <1>1, <1>2, <1>3, <1>4, <1>5, <1>6, <1>7, <1>8, <1>9, <1>10, <1>11, <1>12, <1>13
     DEF Running, Fetching

(* Every step preserves the invariant. *)
LEMMA NextRunInv == RunInv /\ [Next]_vars => RunInv'
<1> SUFFICES ASSUME RunInv, [Next]_vars PROVE RunInv'
  OBVIOUS
<1>1. CASE Credentials \/ UNCHANGED vars
  BY <1>1 DEF RunInv, ClockOK, RunOK, CountsOK, Pacing, Shared, Credentials, vars, runVars
<1> QED BY <1>1, TickKeeps, RunKeeps DEF Next

(* The invariant holds in every reachable state. *)
LEMMA RunInvHolds == Spec => []RunInv
<1>1. Init => RunInv
  BY ConstantsOK
     DEF Init, RunInv, ClockOK, RunOK, CountsOK, Pacing, Shared, Place, InHand
<1> QED BY <1>1, NextRunInv, PTL DEF Spec

(* _respect_rate_limit keeps two calls of one run an interval apart, with  *)
(* any number of overlapping runs.                                         *)
THEOREM PacedTheorem == Spec => PacedPerRun
<1>1. RunInv /\ [Next]_vars => [\A j \in Job : Sends(j) => mine[j] = Interval]_vars
  <2> SUFFICES ASSUME RunInv, Next, NEW j \in Job, Sends(j) PROVE mine[j] = Interval
    OBVIOUS
  <2> USE DEF RunInv, RunOK, Goto
  <2>1. ~(Tick \/ Credentials)
    BY DEF Sends, Tick, Credentials, runVars
  <2>2. PICK k \in Job : Start(k) \/ Running(k) \/ Lose(k)
    BY <2>1 DEF Next
  <2>3. k = j
    BY <2>2 DEF Sends, Start, Running, Lose, Fetching, NextItem, Record, Finish, Pace, Wake,
                Send, Answer, Transient, BackoffEnds, Denied, Permanent, Reconnect,
                ConnectAnswer, ItemFails, Abort
  <2>4. Pace(j) \/ Wake(j)
    BY <2>2, <2>3 DEF Sends, Start, Running, Lose, Fetching, NextItem, Record, Finish, Answer,
                Transient, BackoffEnds, Denied, Permanent, Reconnect, ConnectAnswer,
                ItemFails, Abort, FirstPlace
  <2>5. mine[j] \in 0..Interval /\ sinceCall \in 0..Interval /\ Interval \in Nat
    BY ConstantsOK DEF ClockOK
  <2>6. CASE Pace(j)
    <3>1. ~(Paced(j) /\ Delay > 0)
      BY <2>6 DEF Pace, Sends
    <3> QED BY <2>5, <3>1 DEF Sends, Delay, Pacing
  <2>7. CASE Wake(j)
    BY <2>5, <2>7 DEF Wake, Pacing
  <2> QED BY <2>4, <2>6, <2>7
<1> QED BY <1>1, RunInvHolds, PTL DEF Spec, PacedPerRun

-----------------------------------------------------------------------------
(* The collector log                                                       *)

Busy == {j \in Job : pc[j] # "idle"}
LogsOK == lost \in 0..MaxLost /\ openLogs = lost + Cardinality(Busy)

(* There are at most four runs. *)
LEMMA BusyFinite == IsFiniteSet(Busy) /\ Cardinality(Busy) \in Nat
<1>1. IsFiniteSet({"sweep"} \cup {"gapfill"} \cup {"daily"} \cup {"symbols"})
  <2>1. IsFiniteSet({"sweep"})
    BY FS_Singleton
  <2>2. IsFiniteSet({"sweep"} \cup {"gapfill"})
    BY <2>1, FS_AddElement
  <2>3. IsFiniteSet({"sweep"} \cup {"gapfill"} \cup {"daily"})
    BY <2>2, FS_AddElement
  <2> QED BY <2>3, FS_AddElement
<1>2. Busy \subseteq {"sweep"} \cup {"gapfill"} \cup {"daily"} \cup {"symbols"}
  BY ConstantsOK DEF AllJobs, Busy
<1> HIDE DEF Busy
<1>3. IsFiniteSet(Busy)
  BY <1>1, <1>2, FS_Subset
<1> QED BY <1>3, FS_CardinalityType

(* Only starting, finishing and losing a run touch the rows left open. *)
LEMMA NextLogsOK == RunInv /\ LogsOK /\ [Next]_vars => LogsOK'
<1> SUFFICES ASSUME RunInv, LogsOK, [Next]_vars PROVE LogsOK'
  OBVIOUS
<1> USE ConstantsOK
<1>0. pc \in [Job -> Place]
  BY DEF RunInv, RunOK
<1>1. ASSUME NEW j \in Job, Start(j) PROVE LogsOK'
  <2>1. Busy' = Busy \cup {j} /\ j \notin Busy
    BY <1>0, <1>1 DEF Busy, Start, Goto, FirstPlace
  <2>2. Cardinality(Busy') = Cardinality(Busy) + 1
    BY <2>1, BusyFinite, FS_AddElement
  <2>3. lost' = lost /\ openLogs' = openLogs + 1
    BY <1>1 DEF Start
  <2> QED BY <2>2, <2>3, BusyFinite DEF LogsOK
<1>2. ASSUME NEW j \in Job, Finish(j) \/ Lose(j) PROVE LogsOK'
  <2>1. Busy' = Busy \ {j} /\ j \in Busy
    BY <1>0, <1>2 DEF Busy, Finish, Lose, Goto
  <2>2. Cardinality(Busy') = Cardinality(Busy) - 1
    BY <2>1, BusyFinite, FS_RemoveElement
  <2>3. CASE Finish(j)
    <3>1. lost' = lost /\ openLogs' = openLogs - 1
      BY <2>3 DEF Finish
    <3> QED BY <2>2, <3>1, BusyFinite DEF LogsOK
  <2>4. CASE Lose(j)
    <3>1. lost < MaxLost /\ lost' = lost + 1 /\ openLogs' = openLogs
      BY <2>4 DEF Lose
    <3> QED BY <2>2, <3>1, BusyFinite DEF LogsOK
  <2> QED BY <1>2, <2>3, <2>4
<1>3. ASSUME NEW j \in Job, Running(j), ~Finish(j) PROVE LogsOK'
  <2>1. pc[j] # "idle" /\ \E p \in Place \ {"idle"} : pc' = [pc EXCEPT ![j] = p]
    BY <1>3 DEF Running, Fetching, NextItem, Record, Pace, Ready, Wake, Send, Answer,
                Transient, BackoffEnds, Denied, Permanent, Reconnect, ConnectAnswer,
                ItemFails, Abort, Goto, Place
  <2>2. Busy' = Busy
    BY <1>0, <2>1 DEF Busy
  <2>3. UNCHANGED <<lost, openLogs>>
    BY <1>3 DEF Running, Fetching, NextItem, Record, Pace, Wake, Answer, Transient,
                BackoffEnds, Denied, Permanent, Reconnect, ConnectAnswer
  <2> QED BY <2>2, <2>3 DEF LogsOK
<1>4. CASE Tick \/ Credentials \/ UNCHANGED vars
  BY <1>4 DEF Tick, Credentials, vars, runVars, LogsOK, Busy
<1> QED BY <1>1, <1>2, <1>3, <1>4 DEF Next, Running

(* Type correctness, and of collector_logs: the rows without a finish_time *)
(* are those of the runs under way and of the runs that were lost.         *)
THEOREM TypeCorrect == Spec => []TypeOK
<1>1. Init => LogsOK
  <2> SUFFICES ASSUME Init PROVE LogsOK
    OBVIOUS
  <2>1. Busy = {} /\ lost = 0 /\ openLogs = 0
    BY DEF Init, Busy
  <2> QED BY <2>1, ConstantsOK, FS_EmptySet DEF LogsOK
<1>2. RunInv /\ LogsOK => TypeOK
  BY DEF RunInv, LogsOK, TypeOK, Shared, Busy
<1> QED BY <1>1, <1>2, NextLogsOK, RunInvHolds, PTL DEF Spec

-----------------------------------------------------------------------------
(* The universe: the guard of _reconcile_universe compares the answer with *)
(* the active rows after the upserts, which are at least those before.     *)

(* Type correctness, and what a job holds it holds only while it runs. *)
THEOREM UniverseTypeCorrect == UniverseSpec => []UniverseTypeOK
<1> USE DEF UniverseTypeOK
<1>1. UniverseInit => UniverseTypeOK
  BY DEF UniverseInit
<1>2. UniverseTypeOK /\ [UniverseNext]_universeVars => UniverseTypeOK'
  <2> SUFFICES ASSUME UniverseTypeOK, [UniverseNext]_universeVars PROVE UniverseTypeOK'
    OBVIOUS
  <2>1. CASE RefreshLoad
    BY <2>1 DEF RefreshLoad, SymbolAnswer, fnoVars
  <2>2. CASE RefreshCommit
    BY <2>2 DEF RefreshCommit, Upsert, DeactivateMissing, fnoVars
  <2>3. CASE RefreshFails
    BY <2>3 DEF RefreshFails, fnoVars
  <2>4. CASE FnoMatch
    BY <2>4 DEF FnoMatch, refreshVars
  <2>5. CASE FnoCommit
    BY <2>5 DEF FnoCommit, ReplaceAll, refreshVars
  <2>6. CASE FnoFails
    BY <2>6 DEF FnoFails, refreshVars
  <2>7. CASE Backfill
    BY <2>7 DEF Backfill, MatchRows, refreshVars, fnoVars
  <2>8. CASE Ages
    BY <2>8 DEF Ages, refreshVars, fnoVars
  <2>9. CASE UNCHANGED universeVars
    BY <2>9 DEF universeVars, refreshVars, fnoVars
  <2> QED BY <2>1, <2>2, <2>3, <2>4, <2>5, <2>6, <2>7, <2>8, <2>9 DEF UniverseNext
<1> QED BY <1>1, <1>2, PTL DEF UniverseSpec

(* MinPercent percent of a number are at most the number. *)
LEMMA PercentLemma ==
  ASSUME NEW m \in Nat, NEW n \in Nat, m <= n
  PROVE  m * MinPercent <= n * MinPercent /\ n * MinPercent <= n * 100
BY FractionOK

(* What a commit leaves active is the merged set or, if it is not smaller  *)
(* than the fraction, the answer.                                          *)
LEMMA CommitKeepsFraction ==
  ASSUME UniverseTypeOK, RefreshCommit
  PROVE  Cardinality(active') * 100 >= Cardinality(active) * MinPercent
<1> DEFINE previous == active \cup confirmed
<1>1. previous \subseteq Symbol /\ IsFiniteSet(previous) /\ Cardinality(previous) \in Nat
  <2>1. previous \subseteq Symbol
    BY DEF UniverseTypeOK
  <2> HIDE DEF previous
  <2>2. IsFiniteSet(previous)
    BY <2>1, FractionOK, FS_Subset
  <2> QED BY <2>1, <2>2, FS_CardinalityType
<1>2. IsFiniteSet(active) /\ Cardinality(active) <= Cardinality(previous)
  BY <1>1, FS_Subset
<1>3. Cardinality(active) \in Nat
  BY <1>2, FS_CardinalityType
<1>4. active' = IF Suspicious(previous) THEN previous ELSE DeactivateMissing(previous)
  BY DEF RefreshCommit
<1>5. DeactivateMissing(previous) = confirmed
  BY DEF DeactivateMissing
<1>6. /\ Cardinality(active) * MinPercent <= Cardinality(previous) * MinPercent
      /\ Cardinality(previous) * MinPercent <= Cardinality(previous) * 100
  BY <1>1, <1>2, <1>3, PercentLemma
<1> HIDE DEF previous
<1>7. CASE Suspicious(previous)
  <2>1. active' = previous
    BY <1>4, <1>7
  <2> QED BY <1>1, <1>3, <1>6, <2>1, FractionOK
<1>8. CASE ~Suspicious(previous)
  <2>1. active' = confirmed
    BY <1>4, <1>5, <1>8
  <2>2. IsFiniteSet(confirmed) /\ Cardinality(confirmed) \in Nat
    BY FractionOK, FS_Subset, FS_CardinalityType DEF UniverseTypeOK
  <2>3. Cardinality(confirmed) * 100 >= Cardinality(previous) * MinPercent
    BY <1>1, <1>8, <2>2, FractionOK DEF Suspicious
  <2> QED BY <1>1, <1>3, <1>6, <2>1, <2>2, <2>3, FractionOK
<1> QED BY <1>7, <1>8

(* No step takes away more than the guard lets a truncated answer take. *)
THEOREM NoMassDeactivationTheorem == UniverseSpec => NoMassDeactivation
<1>1. UniverseTypeOK /\ [UniverseNext]_universeVars
        => [Cardinality(active') * 100 >= Cardinality(active) * MinPercent]_universeVars
  <2> SUFFICES ASSUME UniverseTypeOK, UniverseNext
               PROVE  Cardinality(active') * 100 >= Cardinality(active) * MinPercent
    OBVIOUS
  <2>1. CASE RefreshCommit
    BY <2>1, CommitKeepsFraction
  <2>2. CASE ~RefreshCommit
    <3>1. active' = active
      BY <2>2 DEF UniverseNext, RefreshLoad, RefreshFails, FnoMatch, FnoCommit, FnoFails, Backfill,
                  Ages, refreshVars, fnoVars
    <3>2. Cardinality(active) \in Nat
      BY FractionOK, FS_Subset, FS_CardinalityType DEF UniverseTypeOK
    <3> QED BY <3>1, <3>2, PercentLemma
  <2> QED BY <2>1, <2>2
<1> QED BY <1>1, UniverseTypeCorrect, PTL DEF UniverseSpec, NoMassDeactivation
=============================================================================
