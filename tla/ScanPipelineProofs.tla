-------------------------- MODULE ScanPipelineProofs --------------------------
(***************************************************************************)
(* Proofs about the two halves of the scan pipeline.  Its event queue      *)
(* (PipelineQueue), for any number of ingesters, page size, stream limit   *)
(* and bounds.  And the engine an event starts (ScanCycle), for every      *)
(* finite set of symbols, any number of days, revisions and batch sizes:   *)
(* a batch is committed long after its contexts were read; what keeps it   *)
(* right is that the stage holds no context whose verdict exists           *)
(* (ContextOK) and that features are written only after the latest row     *)
(* (LatestLemma).  The two have no variable in common.                     *)
(***************************************************************************)
EXTENDS PipelineQueue, ScanCycle, FiniteSetTheorems, WellFoundedInduction, TLAPS

-----------------------------------------------------------------------------
(* The queue                                                               *)

(* The initial state is well typed and nothing is handed out. *)
LEMMA InitTypeInv == QueueInit => QueueTypeOK /\ HandedOutOK
<1> SUFFICES ASSUME QueueInit PROVE QueueTypeOK /\ HandedOutOK
  OBVIOUS
<1> USE QueueConstantsOK DEF QueueInit, EventId
<1>1. ProcessTypes
  BY DEF ProcessTypes
<1>2. StreamTypes
  BY DEF StreamTypes
<1>3. GroupTypes
  <2>1. group \in BOOLEAN /\ pel \subseteq EventId /\ acked \subseteq EventId /\ leftover \subseteq EventId
    OBVIOUS
  <2>2. delivered \in 0..MaxEvents
    OBVIOUS
  <2> QED BY <2>1, <2>2 DEF GroupTypes
<1>4. WorkerTypes
  BY DEF WorkerTypes
<1>5. HandedOutOK
  BY DEF HandedOutOK
<1> QED BY <1>1, <1>2, <1>3, <1>4, <1>5 DEF QueueTypeOK

(* A stream trimmed to at least m of n + 1 entries starts at n + 1 or before. *)
LEMMA TrimBound ==
  ASSUME NEW n \in Nat, NEW f \in Nat, NEW m \in Nat, m > 0, f + m <= n + 2
  PROVE  f <= n + 1
OBVIOUS

(* XREADGROUP > hands out the entries after the last-delivered-id that the *)
(* stream still has, without a gap.                                        *)
LEMMA DeliverLemma ==
  ASSUME QueueTypeOK, HandedOutOK, Deliver
  PROVE  /\ Unread \subseteq (delivered + 1)..published
         /\ delivered' \in Unread /\ delivered' > delivered /\ delivered' <= published
         /\ \A e \in Unread : e <= delivered'
         /\ \A e \in 1..delivered' : e > delivered /\ e >= first => e \in Unread
<1>0. published \in Nat /\ delivered \in Nat /\ first \in Nat /\ first >= 1 /\ ReadCount \in Nat
  BY QueueConstantsOK DEF QueueTypeOK, StreamTypes, GroupTypes, EventId
<1>1. Oldest \in Nat /\ Oldest > delivered /\ Oldest >= first /\ (Oldest = first \/ Oldest = delivered + 1)
  BY <1>0 DEF Oldest
<1>2. Unread \subseteq (delivered + 1)..published
  BY <1>0, <1>1 DEF Unread
<1>3. delivered' \in Unread /\ \A e \in Unread : e <= delivered'
  BY DEF Deliver
<1>4. delivered' \in Nat /\ delivered' > delivered /\ delivered' <= published
  BY <1>0, <1>2, <1>3
<1>5. ASSUME NEW e \in 1..delivered', e > delivered, e >= first PROVE e \in Unread
  BY <1>0, <1>1, <1>3, <1>4, <1>5 DEF Unread
<1> QED BY <1>2, <1>3, <1>4, <1>5

(* Every step preserves the types and the order of handing out. *)
LEMMA NextTypeInv == QueueTypeOK /\ HandedOutOK /\ [QueueNext]_queueVars => (QueueTypeOK /\ HandedOutOK)'
<1> SUFFICES ASSUME QueueTypeOK, HandedOutOK, [QueueNext]_queueVars PROVE (QueueTypeOK /\ HandedOutOK)'
  OBVIOUS
<1> USE QueueConstantsOK DEF EventId
<1>1. CASE Startup
  <2>1. ProcessTypes' /\ StreamTypes'
    BY <1>1 DEF Startup, redisVars, historyVars, QueueTypeOK, ProcessTypes, StreamTypes
  <2>2. GroupTypes'
    <3>1. UNCHANGED <<pel, acked>> /\ leftover' = pel
      BY <1>1 DEF Startup
    <3>2. group' \in BOOLEAN
      BY <1>1 DEF Startup, EnsureGroup, QueueTypeOK, GroupTypes
    <3>3. delivered' = delivered \/ delivered' = 0
      BY <1>1 DEF Startup, EnsureGroup
    <3>4. delivered' \in 0..MaxEvents
      BY <3>3 DEF QueueTypeOK, GroupTypes
    <3> QED BY <3>1, <3>2, <3>4 DEF QueueTypeOK, GroupTypes
  <2>3. WorkerTypes'
    BY <1>1 DEF Startup, workerVars, historyVars, QueueTypeOK, WorkerTypes, GroupTypes
  <2>4. HandedOutOK'
    BY <1>1 DEF Startup, EnsureGroup, redisVars, workerVars, QueueTypeOK, GroupTypes, WorkerTypes, HandedOutOK
  <2> QED BY <2>1, <2>2, <2>3, <2>4 DEF QueueTypeOK
<1>2. CASE Crash
  BY <1>2 DEF Crash, QueueTypeOK, ProcessTypes, StreamTypes, GroupTypes, WorkerTypes, HandedOutOK, redisVars
<1>3. ASSUME NEW i \in Ingester, Collect(i) PROVE (QueueTypeOK /\ HandedOutOK)'
  <2>1. /\ data' \in 0..MaxBatches /\ unsent' \in [Ingester -> 0..MaxBatches]
        /\ UNCHANGED <<mode, redisVars, workerVars, scanned, historyVars>>
    BY <1>3 DEF Collect, QueueTypeOK, ProcessTypes
  <2>2. ProcessTypes' /\ StreamTypes' /\ GroupTypes' /\ WorkerTypes'
    BY <2>1 DEF QueueTypeOK, ProcessTypes, StreamTypes, GroupTypes, WorkerTypes, redisVars, workerVars, historyVars
  <2>3. HandedOutOK'
    BY <2>1 DEF HandedOutOK, redisVars, workerVars
  <2> QED BY <2>2, <2>3 DEF QueueTypeOK
<1>4. ASSUME NEW i \in Ingester, Publish(i) PROVE (QueueTypeOK /\ HandedOutOK)'
  <2>1. ProcessTypes'
    BY <1>4 DEF Publish, historyVars, QueueTypeOK, ProcessTypes
  <2>2. StreamTypes'
    BY <1>4 DEF Publish, Trim, QueueTypeOK, ProcessTypes, StreamTypes
  <2>3. GroupTypes'
    BY <1>4 DEF Publish, historyVars, QueueTypeOK, GroupTypes
  <2>4. WorkerTypes'
    BY <1>4 DEF Publish, workerVars, historyVars, QueueTypeOK, WorkerTypes
  <2>5. HandedOutOK'
    <3>1. /\ published' = published + 1
          /\ UNCHANGED <<delivered, group, pel, acked, entries, cur, phase>>
          /\ first' = first \/ first' + MaxLen <= published + 2
      BY <1>4 DEF Publish, Trim, workerVars
    <3>2. /\ published \in Nat /\ first \in Nat /\ delivered \in Nat /\ first' \in Nat
          /\ MaxLen \in Nat /\ MaxLen > 0
      BY <2>2 DEF QueueTypeOK, StreamTypes, GroupTypes
    <3>3. first <= published + 1 /\ delivered <= published
      BY DEF HandedOutOK
    <3>4. delivered' <= published'
      BY <3>1, <3>2, <3>3
    <3>5. first' <= published' + 1
      <4>1. CASE first' = first
        BY <3>1, <3>2, <3>3, <4>1
      <4>2. CASE first' + MaxLen <= published + 2
        <5>1. first' <= published + 1
          BY <3>2, <4>2, TrimBound
        <5> QED BY <3>1, <3>2, <5>1
      <4> QED BY <3>1, <4>1, <4>2
    <3> QED BY <3>1, <3>4, <3>5 DEF HandedOutOK
  <2> QED BY <2>1, <2>2, <2>3, <2>4, <2>5 DEF QueueTypeOK
<1>5. ASSUME NEW i \in Ingester, PublishFails(i) PROVE (QueueTypeOK /\ HandedOutOK)'
  <2>1. /\ data' \in 0..MaxBatches /\ unsent' \in [Ingester -> 0..MaxBatches]
        /\ UNCHANGED <<mode, redisVars, workerVars, scanned, historyVars>>
    BY <1>5 DEF PublishFails, QueueTypeOK, ProcessTypes
  <2>2. ProcessTypes' /\ StreamTypes' /\ GroupTypes' /\ WorkerTypes'
    BY <2>1 DEF QueueTypeOK, ProcessTypes, StreamTypes, GroupTypes, WorkerTypes, redisVars, workerVars, historyVars
  <2>3. HandedOutOK'
    BY <2>1 DEF HandedOutOK, redisVars, workerVars
  <2> QED BY <2>2, <2>3 DEF QueueTypeOK
<1>6. CASE ReadPending
  <2>1. ProcessTypes' /\ StreamTypes'
    BY <1>6 DEF ReadPending, redisVars, historyVars, QueueTypeOK, ProcessTypes, StreamTypes
  <2>2. GroupTypes'
    BY <1>6 DEF ReadPending, redisVars, historyVars, QueueTypeOK, GroupTypes
  <2>3. WorkerTypes'
    BY <1>6 DEF ReadPending, OldestPending, workerVars, historyVars, QueueTypeOK, WorkerTypes, GroupTypes
  <2>4. HandedOutOK'
    BY <1>6 DEF ReadPending, Reading, OldestPending, redisVars, workerVars, QueueTypeOK, GroupTypes, WorkerTypes, HandedOutOK
  <2> QED BY <2>1, <2>2, <2>3, <2>4 DEF QueueTypeOK
<1>7. CASE ReadLive
  <2>0. /\ Deliver /\ UNCHANGED <<mode, data, unsent, draining, cur, phase, seen, scanned, crashes, starts, leftover>>
        /\ UNCHANGED <<published, first, batchOf, group, acked>>
        /\ pel' = pel \cup Unread /\ group /\ cur = 0 /\ entries = {}
        /\ entries' = Unread
    BY <1>7 DEF ReadLive, Reading, Deliver, workerVars, historyVars
  <2>1. /\ Unread \subseteq (delivered + 1)..published
        /\ delivered' \in Unread /\ delivered' > delivered /\ delivered' <= published
        /\ \A e \in Unread : e <= delivered'
    BY <2>0, DeliverLemma
  <2>2. /\ published \in 0..MaxEvents /\ delivered \in 0..MaxEvents
        /\ Unread \subseteq EventId /\ delivered' \in 0..MaxEvents
    BY <2>1 DEF QueueTypeOK, StreamTypes, GroupTypes
  <2>3. ProcessTypes' /\ StreamTypes'
    BY <2>0 DEF QueueTypeOK, ProcessTypes, StreamTypes
  <2>4. GroupTypes'
    BY <2>0, <2>2 DEF QueueTypeOK, GroupTypes
  <2>5. WorkerTypes'
    BY <2>0, <2>2 DEF QueueTypeOK, WorkerTypes
  <2>6. pel' \subseteq 1..delivered' /\ acked' \subseteq 1..delivered'
    BY <2>0, <2>1, <2>2 DEF HandedOutOK
  <2>7. HandedOutOK'
    BY <2>0, <2>1, <2>2, <2>6 DEF HandedOutOK
  <2> QED BY <2>3, <2>4, <2>5, <2>7 DEF QueueTypeOK
<1>8. CASE ReadReplyLost
  <2>0. /\ Deliver /\ UNCHANGED <<mode, data, unsent, draining, cur, phase, seen, scanned, crashes, starts, leftover>>
        /\ UNCHANGED <<published, first, batchOf, group, acked>>
        /\ pel' = pel \cup Unread /\ group /\ cur = 0 /\ entries = {}
        /\ entries' = {}
    BY <1>8 DEF ReadReplyLost, Reading, Deliver, workerVars, historyVars
  <2>1. /\ Unread \subseteq (delivered + 1)..published
        /\ delivered' \in Unread /\ delivered' > delivered /\ delivered' <= published
        /\ \A e \in Unread : e <= delivered'
    BY <2>0, DeliverLemma
  <2>2. /\ published \in 0..MaxEvents /\ delivered \in 0..MaxEvents
        /\ Unread \subseteq EventId /\ delivered' \in 0..MaxEvents
    BY <2>1 DEF QueueTypeOK, StreamTypes, GroupTypes
  <2>3. ProcessTypes' /\ StreamTypes'
    BY <2>0 DEF QueueTypeOK, ProcessTypes, StreamTypes
  <2>4. GroupTypes'
    BY <2>0, <2>2 DEF QueueTypeOK, GroupTypes
  <2>5. WorkerTypes'
    BY <2>0, <2>2 DEF QueueTypeOK, WorkerTypes
  <2>6. pel' \subseteq 1..delivered' /\ acked' \subseteq 1..delivered'
    BY <2>0, <2>1, <2>2 DEF HandedOutOK
  <2>7. HandedOutOK'
    BY <2>0, <2>1, <2>2, <2>6 DEF HandedOutOK
  <2> QED BY <2>3, <2>4, <2>5, <2>7 DEF QueueTypeOK
<1>9. ASSUME NEW e \in EventId, StartEvent(e) PROVE (QueueTypeOK /\ HandedOutOK)'
  <2>1. ProcessTypes' /\ StreamTypes'
    BY <1>9 DEF StartEvent, redisVars, historyVars, QueueTypeOK, ProcessTypes, StreamTypes
  <2>2. GroupTypes'
    BY <1>9 DEF StartEvent, redisVars, historyVars, QueueTypeOK, GroupTypes
  <2>3. WorkerTypes'
    <3>1. /\ UNCHANGED <<draining, scanned>> /\ entries' = entries \ {e} /\ cur' = e
          /\ phase' = "process" /\ seen' = data
      BY <1>9 DEF StartEvent
    <3>2. starts' \in [EventId -> Nat]
      BY <1>9 DEF StartEvent, QueueTypeOK, WorkerTypes
    <3> QED BY <3>1, <3>2 DEF QueueTypeOK, ProcessTypes, WorkerTypes
  <2>4. HandedOutOK'
    BY <1>9 DEF StartEvent, redisVars, workerVars, QueueTypeOK, GroupTypes, WorkerTypes, HandedOutOK
  <2> QED BY <2>1, <2>2, <2>3, <2>4 DEF QueueTypeOK
<1>10. CASE ProcessOk
  <2>1. ProcessTypes' /\ StreamTypes'
    BY <1>10 DEF ProcessOk, redisVars, historyVars, QueueTypeOK, ProcessTypes, StreamTypes
  <2>2. GroupTypes'
    BY <1>10 DEF ProcessOk, redisVars, historyVars, QueueTypeOK, GroupTypes
  <2>3. WorkerTypes'
    BY <1>10 DEF ProcessOk, workerVars, historyVars, QueueTypeOK, WorkerTypes, GroupTypes
  <2>4. HandedOutOK'
    BY <1>10 DEF ProcessOk, redisVars, workerVars, QueueTypeOK, GroupTypes, WorkerTypes, HandedOutOK
  <2> QED BY <2>1, <2>2, <2>3, <2>4 DEF QueueTypeOK
<1>11. CASE Ack
  <2>1. ProcessTypes' /\ StreamTypes'
    BY <1>11 DEF Ack, redisVars, historyVars, QueueTypeOK, ProcessTypes, StreamTypes
  <2>2. GroupTypes'
    BY <1>11 DEF Ack, HandedOutOK, redisVars, historyVars, QueueTypeOK, GroupTypes
  <2>3. WorkerTypes'
    BY <1>11 DEF Ack, LoopOn, workerVars, historyVars, QueueTypeOK, WorkerTypes, GroupTypes
  <2>4. HandedOutOK'
    BY <1>11 DEF Ack, LoopOn, redisVars, workerVars, QueueTypeOK, GroupTypes, WorkerTypes, HandedOutOK
  <2> QED BY <2>1, <2>2, <2>3, <2>4 DEF QueueTypeOK
<1>12. CASE EventFails
  <2>1. ProcessTypes' /\ StreamTypes'
    BY <1>12 DEF EventFails, redisVars, historyVars, QueueTypeOK, ProcessTypes, StreamTypes
  <2>2. GroupTypes'
    BY <1>12 DEF EventFails, redisVars, historyVars, QueueTypeOK, GroupTypes
  <2>3. WorkerTypes'
    BY <1>12 DEF EventFails, LoopOn, workerVars, historyVars, QueueTypeOK, WorkerTypes, GroupTypes
  <2>4. HandedOutOK'
    BY <1>12 DEF EventFails, LoopOn, redisVars, workerVars, QueueTypeOK, GroupTypes, WorkerTypes, HandedOutOK
  <2> QED BY <2>1, <2>2, <2>3, <2>4 DEF QueueTypeOK
<1>13. CASE UNCHANGED queueVars
  BY <1>13 DEF QueueTypeOK, ProcessTypes, StreamTypes, GroupTypes, WorkerTypes, HandedOutOK, queueVars, redisVars, workerVars, historyVars
<1> QED
  BY <1>1, <1>2, <1>3, <1>4, <1>5, <1>6, <1>7, <1>8, <1>9, <1>10, <1>11, <1>12, <1>13 DEF QueueNext

(* Types and hand-out order hold in every reachable state. *)
LEMMA TypeInvHolds == QueueSpec => [](QueueTypeOK /\ HandedOutOK)
BY InitTypeInv, NextTypeInv, PTL DEF QueueSpec

(* Type correctness of queue and worker, for every page size and limit. *)
THEOREM QueueTypeCorrect == QueueSpec => []QueueTypeOK
BY TypeInvHolds, PTL

-----------------------------------------------------------------------------
(* Acknowledged means scanned                                              *)

CoverageInv == BatchesOK /\ CoverageOK /\ AckMeansScanned

(* Every step preserves CoverageInv. *)
LEMMA NextCoverageInv ==
  QueueTypeOK /\ HandedOutOK /\ CoverageInv /\ [QueueNext]_queueVars => CoverageInv'
<1> SUFFICES ASSUME QueueTypeOK, HandedOutOK, CoverageInv, [QueueNext]_queueVars PROVE CoverageInv'
  OBVIOUS
<1>0. /\ data \in Nat /\ published \in Nat /\ delivered \in Nat /\ seen \in Nat /\ scanned \in Nat
      /\ unsent \in [Ingester -> Nat] /\ batchOf \in [EventId -> Nat]
      /\ acked \subseteq 1..published /\ pel \subseteq 1..published
      /\ 1..published \subseteq EventId
  <2>1. /\ data \in Nat /\ published \in 0..MaxEvents /\ delivered \in Nat /\ seen \in Nat /\ scanned \in Nat
    BY QueueConstantsOK DEF QueueTypeOK, ProcessTypes, StreamTypes, GroupTypes, WorkerTypes
  <2>2. unsent \in [Ingester -> Nat] /\ batchOf \in [EventId -> Nat]
    BY QueueConstantsOK DEF QueueTypeOK, ProcessTypes, StreamTypes
  <2>3. acked \subseteq 1..published /\ pel \subseteq 1..published
    BY <2>1, QueueConstantsOK DEF HandedOutOK
  <2>4. published \in Nat /\ 1..published \subseteq EventId
    BY <2>1, QueueConstantsOK DEF EventId
  <2> QED BY <2>1, <2>2, <2>3, <2>4
<1> USE DEF CoverageInv, BatchesOK, CoverageOK, AckMeansScanned
<1>1. ASSUME UNCHANGED <<data, published, batchOf, acked, scanned>>,
             unsent' = unsent \/ unsent' = [i \in Ingester |-> 0],
             UNCHANGED <<cur, phase, seen>> \/ (phase' = "idle" /\ seen' = 0)
      PROVE  CoverageInv'
  <2>1. BatchesOK'
    BY <1>0, <1>1
  <2>2. AckMeansScanned'
    BY <1>1
  <2>3. CoverageOK'
    BY <1>0, <1>1
  <2> QED BY <2>1, <2>2, <2>3
<1>2. ASSUME Startup \/ Crash \/ ReadPending \/ ReadLive \/ ReadReplyLost \/ EventFails
      PROVE  CoverageInv'
  <2>1. /\ UNCHANGED <<data, published, batchOf, acked, scanned>>
        /\ unsent' = unsent \/ unsent' = [i \in Ingester |-> 0]
        /\ UNCHANGED <<cur, phase, seen>> \/ (phase' = "idle" /\ seen' = 0)
    BY <1>2 DEF Startup, Crash, ReadPending, ReadLive, ReadReplyLost, EventFails, Deliver,
                LoopOn, redisVars, workerVars
  <2> QED BY <1>1, <2>1
<1>3. ASSUME NEW i \in Ingester, Collect(i) PROVE CoverageInv'
  <2>1. /\ data' = data + 1 /\ unsent' = [unsent EXCEPT ![i] = data + 1]
        /\ UNCHANGED <<published, batchOf, acked, cur, phase, seen, scanned>>
    BY <1>3 DEF Collect, redisVars, workerVars
  <2>2. BatchesOK'
    BY <1>0, <2>1
  <2>3. CoverageOK' /\ AckMeansScanned'
    BY <1>0, <2>1
  <2> QED BY <2>2, <2>3
<1>4. ASSUME NEW i \in Ingester, Publish(i) PROVE CoverageInv'
  <2>1. /\ unsent[i] # 0 /\ unsent' = [unsent EXCEPT ![i] = 0]
        /\ published' = published + 1
        /\ batchOf' = [batchOf EXCEPT ![published + 1] = unsent[i]]
        /\ UNCHANGED <<data, acked, cur, phase, seen, scanned>>
    BY <1>4 DEF Publish, workerVars
  <2>2. published + 1 \in EventId
    <3>1. published < MaxEvents
      BY <1>4 DEF Publish
    <3> QED BY <1>0, <3>1, QueueConstantsOK DEF EventId
  <2>3. \A e \in 1..published : batchOf'[e] = batchOf[e]
    BY <1>0, <2>1, <2>2
  <2>4. batchOf'[published + 1] = unsent[i] /\ unsent[i] \in 1..data
    BY <1>0, <2>1, <2>2
  <2>5. BatchesOK'
    <3>1. \A e \in 1..published' : batchOf'[e] \in 1..data
      BY <1>0, <2>1, <2>3, <2>4
    <3> QED BY <1>0, <2>1, <3>1
  <2>6. AckMeansScanned'
    BY <1>0, <2>1, <2>3
  <2>7. CoverageOK'
    BY <1>0, <2>1, <2>3 DEF HandedOutOK
  <2> QED BY <2>5, <2>6, <2>7
<1>5. ASSUME NEW i \in Ingester, PublishFails(i) PROVE CoverageInv'
  <2>1. /\ unsent' = [unsent EXCEPT ![i] = 0]
        /\ UNCHANGED <<data, published, batchOf, acked, cur, phase, seen, scanned>>
    BY <1>5 DEF PublishFails, redisVars, workerVars
  <2> QED BY <1>0, <2>1
<1>6. ASSUME NEW e \in EventId, StartEvent(e) PROVE CoverageInv'
  <2>1. /\ e \in entries /\ cur' = e /\ phase' = "process" /\ seen' = data
        /\ UNCHANGED <<data, unsent, published, batchOf, acked, scanned>>
    BY <1>6 DEF StartEvent, redisVars
  <2>2. e \in 1..published
    BY <1>0, <2>1 DEF HandedOutOK
  <2> QED BY <1>0, <2>1, <2>2
<1>7. CASE ProcessOk
  <2>1. /\ phase = "process" /\ phase' = "ack" /\ scanned' = IF seen > scanned THEN seen ELSE scanned
        /\ UNCHANGED <<data, unsent, published, batchOf, acked, cur, seen>>
    BY <1>7 DEF ProcessOk, redisVars
  <2>2. cur \in 1..published
    BY <1>0, <2>1 DEF HandedOutOK
  <2>3. scanned' >= scanned /\ scanned' >= seen /\ scanned' \in Nat
    BY <1>0, <2>1
  <2>4. CoverageOK'
    BY <1>0, <2>1, <2>2, <2>3
  <2>5. AckMeansScanned' /\ BatchesOK'
    BY <1>0, <2>1, <2>3
  <2> QED BY <2>4, <2>5
<1>8. CASE Ack
  <2>1. /\ phase = "ack" /\ phase' = "idle" /\ seen' = 0 /\ acked' = acked \cup {cur}
        /\ UNCHANGED <<data, unsent, published, batchOf, scanned>>
    BY <1>8 DEF Ack, LoopOn
  <2>2. cur \in 1..published
    BY <1>0, <2>1 DEF HandedOutOK
  <2> QED BY <1>0, <2>1, <2>2
<1>9. CASE UNCHANGED queueVars
  BY <1>1, <1>9 DEF queueVars, redisVars, workerVars
<1> QED BY <1>2, <1>3, <1>4, <1>5, <1>6, <1>7, <1>8, <1>9 DEF QueueNext

(* An acknowledged event's prices have been through a complete run of the  *)
(* engines, whatever failed or crashed before.                             *)
THEOREM AckTheorem == QueueSpec => []AckMeansScanned
<1>1. QueueInit => CoverageInv
  BY QueueConstantsOK DEF QueueInit, CoverageInv, BatchesOK, CoverageOK, AckMeansScanned
<1>2. CoverageInv => AckMeansScanned
  BY DEF CoverageInv
<1> QED BY <1>1, <1>2, NextCoverageInv, TypeInvHolds, PTL DEF QueueSpec

-----------------------------------------------------------------------------
(* Only old events are missed                                              *)

(* Every step preserves OnlyOldEventsMissed. *)
LEMMA NextMissed ==
  QueueTypeOK /\ HandedOutOK /\ OnlyOldEventsMissed /\ [QueueNext]_queueVars => OnlyOldEventsMissed'
<1> SUFFICES ASSUME QueueTypeOK, HandedOutOK, OnlyOldEventsMissed, [QueueNext]_queueVars,
                    NEW e \in 1..published', e \notin pel' \cup acked',
                    e <= delivered' \/ e < first'
             PROVE  published' - e >= MaxLen
  BY DEF OnlyOldEventsMissed, Missed
<1>0. /\ published \in Nat /\ delivered \in Nat /\ first \in Nat /\ MaxLen \in Nat /\ MaxLen > 0
      /\ delivered <= published
  <2>1. published \in Nat /\ delivered \in Nat /\ first \in Nat
    BY QueueConstantsOK DEF QueueTypeOK, StreamTypes, GroupTypes, EventId
  <2> QED BY <2>1, QueueConstantsOK DEF HandedOutOK
<1>1. ASSUME e \in 1..published, e \notin pel \cup acked, e <= delivered \/ e < first
      PROVE  published - e >= MaxLen
  BY <1>1 DEF OnlyOldEventsMissed, Missed
<1>2. ASSUME UNCHANGED <<published, first>>, delivered' <= delivered, pel \cup acked \subseteq pel' \cup acked',
             delivered' \in Nat
      PROVE  published' - e >= MaxLen
  BY <1>0, <1>1, <1>2
<1>3. CASE Startup
  <2>1. UNCHANGED <<published, first, pel, acked>> /\ delivered' \in {delivered, 0}
    BY <1>3 DEF Startup, EnsureGroup
  <2> QED BY <1>0, <1>2, <2>1
<1>4. ASSUME NEW i \in Ingester, Publish(i) PROVE published' - e >= MaxLen
  <2>1. /\ published' = published + 1 /\ UNCHANGED <<delivered, pel, acked>>
        /\ first' = first \/ (first' \in Nat /\ first' + MaxLen <= published + 2)
    BY <1>4, QueueConstantsOK DEF Publish, Trim, EventId
  <2>2. CASE e <= delivered \/ e < first
    <3>1. CASE e \in 1..published
      BY <1>0, <1>1, <2>1, <2>2, <3>1
    <3>2. CASE e = published + 1
      <4>1. first <= published + 1
        BY DEF HandedOutOK
      <4> QED BY <1>0, <2>1, <2>2, <3>2, <4>1
    <3> QED BY <1>0, <2>1, <3>1, <3>2
  <2>3. CASE first' # first /\ e < first'
    BY <1>0, <2>1, <2>3
  <2> QED BY <2>1, <2>2, <2>3
<1>5. ASSUME Deliver PROVE published' - e >= MaxLen
  <2>1. /\ UNCHANGED <<published, first, acked>> /\ pel' = pel \cup Unread
        /\ delivered' \in Nat
        /\ \A x \in 1..delivered' : x > delivered /\ x >= first => x \in Unread
    BY <1>0, <1>5, DeliverLemma DEF Deliver
  <2>2. e <= delivered \/ e < first
    BY <1>0, <2>1
  <2> QED BY <1>1, <2>1, <2>2
<1>6. ASSUME UNCHANGED <<published, first, delivered, pel, acked>> PROVE published' - e >= MaxLen
  BY <1>0, <1>2, <1>6
<1>7. ASSUME Crash \/ ReadPending \/ ProcessOk \/ EventFails PROVE published' - e >= MaxLen
  BY <1>6, <1>7 DEF Crash, ReadPending, ProcessOk, EventFails, redisVars
<1>8. ASSUME ReadLive \/ ReadReplyLost PROVE published' - e >= MaxLen
  BY <1>5, <1>8 DEF ReadLive, ReadReplyLost
<1>9. ASSUME NEW i \in Ingester, Collect(i) \/ PublishFails(i) PROVE published' - e >= MaxLen
  BY <1>6, <1>9 DEF Collect, PublishFails, redisVars
<1>10. ASSUME NEW x \in EventId, StartEvent(x) PROVE published' - e >= MaxLen
  BY <1>6, <1>10 DEF StartEvent, redisVars
<1>11. CASE Ack
  BY <1>0, <1>2, <1>11 DEF Ack
<1>12. CASE UNCHANGED queueVars
  BY <1>6, <1>12 DEF queueVars, redisVars
<1> QED BY <1>3, <1>4, <1>7, <1>8, <1>9, <1>10, <1>11, <1>12 DEF QueueNext

(* Only MAXLEN trimming loses an event, and never one of the newest        *)
(* MaxLen, for every limit and page size.                                  *)
THEOREM MissedTheorem == QueueSpec => []OnlyOldEventsMissed
<1>1. QueueInit => OnlyOldEventsMissed
  BY DEF QueueInit, OnlyOldEventsMissed, Missed
<1> QED BY <1>1, NextMissed, TypeInvHolds, PTL DEF QueueSpec

-----------------------------------------------------------------------------
(* Restarts                                                                *)

StartsInv == StartsOK /\ OncePerLife /\ StartedIsPendingOrAcked

(* Every step preserves StartsInv. *)
LEMMA NextStartsInv ==
  QueueTypeOK /\ HandedOutOK /\ StartsInv /\ [QueueNext]_queueVars => StartsInv'
<1> SUFFICES ASSUME QueueTypeOK, HandedOutOK, StartsInv, [QueueNext]_queueVars PROVE StartsInv'
  OBVIOUS
<1>0. /\ crashes \in Nat /\ starts \in [EventId -> Nat] /\ delivered \in Nat
      /\ entries \subseteq EventId /\ pel \subseteq EventId
      /\ pel \subseteq 1..delivered
  <2>1. crashes \in Nat /\ delivered \in Nat
    BY QueueConstantsOK DEF QueueTypeOK, ProcessTypes, GroupTypes
  <2> QED BY <2>1 DEF QueueTypeOK, GroupTypes, WorkerTypes, HandedOutOK
<1> USE DEF StartsInv, StartsOK, OncePerLife, StartedIsPendingOrAcked
<1>1. ASSUME UNCHANGED <<mode, draining, entries, delivered, pel, acked, crashes, starts>>
      PROVE  StartsInv'
  BY <1>1
<1>2. CASE Startup
  <2>1. /\ mode = "down" /\ draining' = TRUE /\ UNCHANGED <<entries, pel, acked, crashes, starts>>
        /\ delivered' = delivered
    BY <1>2 DEF Startup, EnsureGroup, HandedOutOK
  <2> QED BY <1>0, <2>1
<1>3. CASE Crash
  <2>1. /\ crashes' = crashes + 1 /\ entries' = {}
        /\ UNCHANGED <<delivered, pel, acked, starts>>
    BY <1>3 DEF Crash, redisVars
  <2> QED BY <1>0, <2>1
<1>4. CASE ReadPending
  <2>1. /\ mode = "running" /\ draining /\ draining' = FALSE
        /\ UNCHANGED <<mode, delivered, pel, acked, crashes, starts>>
    BY <1>4 DEF ReadPending, Reading, redisVars, historyVars
  <2>2. entries' \subseteq EventId
    BY <1>0, <1>4 DEF ReadPending, OldestPending
  <2> QED BY <1>0, <2>1, <2>2
<1>5. ASSUME Deliver, UNCHANGED <<mode, draining, crashes, starts>>, mode = "running", ~draining,
             entries' \subseteq Unread
      PROVE  StartsInv'
  <2>1. /\ Unread \subseteq (delivered + 1)..published /\ delivered' > delivered
        /\ delivered' \in Unread /\ UNCHANGED acked /\ pel' = pel \cup Unread
    BY <1>5, DeliverLemma DEF Deliver
  <2>2. published \in 0..MaxEvents
    BY DEF QueueTypeOK, StreamTypes
  <2>3. Unread \subseteq EventId /\ delivered' \in Nat
    BY <1>0, <2>1, <2>2, QueueConstantsOK DEF EventId
  <2>4. \A e \in entries' : starts[e] <= crashes
    BY <1>0, <1>5, <2>1, <2>3
  <2>5. \A e \in EventId : e > delivered' => starts[e] = 0
    BY <1>0, <2>1, <2>3 DEF EventId
  <2> QED BY <1>0, <1>5, <2>1, <2>4, <2>5
<1>6. CASE ReadLive
  BY <1>5, <1>6 DEF ReadLive, Reading, historyVars
<1>7. CASE ReadReplyLost
  BY <1>5, <1>7 DEF ReadReplyLost, Reading, historyVars, workerVars
<1>8. ASSUME NEW e \in EventId, StartEvent(e) PROVE StartsInv'
  <2>1. /\ e \in entries /\ entries' = entries \ {e} /\ starts' = [starts EXCEPT ![e] = starts[e] + 1]
        /\ UNCHANGED <<mode, draining, delivered, pel, acked, crashes>>
    BY <1>8 DEF StartEvent, redisVars
  <2>2. e \in pel /\ e <= delivered /\ mode # "down" /\ ~draining
    BY <1>0, <2>1 DEF HandedOutOK
  <2>3. starts'[e] <= crashes + 1 /\ \A x \in EventId : x # e => starts'[x] = starts[x]
    BY <1>0, <2>1
  <2>4. StartsOK'
    BY <1>0, <2>1, <2>2, <2>3
  <2>5. OncePerLife' /\ StartedIsPendingOrAcked'
    BY <1>0, <2>1, <2>2, <2>3
  <2> QED BY <2>4, <2>5
<1>9. CASE Ack
  <2>1. /\ pel' = pel \ {cur} /\ acked' = acked \cup {cur}
        /\ UNCHANGED <<mode, draining, entries, delivered, crashes, starts>>
    BY <1>9 DEF Ack, historyVars
  <2> QED BY <1>0, <2>1
<1>10. ASSUME ProcessOk \/ EventFails PROVE StartsInv'
  BY <1>1, <1>10 DEF ProcessOk, EventFails, redisVars, historyVars
<1>11. ASSUME NEW i \in Ingester, Collect(i) \/ PublishFails(i) PROVE StartsInv'
  BY <1>1, <1>11 DEF Collect, PublishFails, redisVars, workerVars, historyVars
<1>12. ASSUME NEW i \in Ingester, Publish(i) PROVE StartsInv'
  BY <1>1, <1>12 DEF Publish, workerVars, historyVars
<1>13. CASE UNCHANGED queueVars
  BY <1>1, <1>13 DEF queueVars, redisVars, workerVars, historyVars
<1> QED BY <1>2, <1>3, <1>4, <1>6, <1>7, <1>8, <1>9, <1>10, <1>11, <1>12, <1>13 DEF QueueNext

(* StartsInv holds in every reachable state. *)
LEMMA StartsInvHolds == QueueSpec => []StartsInv
<1>1. QueueInit => StartsInv
  BY QueueConstantsOK DEF QueueInit, StartsInv, StartsOK, OncePerLife, StartedIsPendingOrAcked
<1> QED BY <1>1, NextStartsInv, TypeInvHolds, PTL DEF QueueSpec

(* Only a restart brings an event back to the worker. *)
THEOREM OncePerLifeTheorem == QueueSpec => []OncePerLife
<1>1. StartsInv => OncePerLife
  BY DEF StartsInv
<1> QED BY <1>1, StartsInvHolds, PTL

(* A crash at any point leaves a started event pending or acknowledged. *)
THEOREM PendingTheorem == QueueSpec => []StartedIsPendingOrAcked
<1>1. StartsInv => StartedIsPendingOrAcked
  BY DEF StartsInv
<1> QED BY <1>1, StartsInvHolds, PTL

-----------------------------------------------------------------------------
(* The engine                                                              *)

(* The latest date is that of a row, or 0, and no row is later. *)
LEMMA LatestLemma ==
  ASSUME NEW table \in [Day -> Rev]
  PROVE  /\ LatestDate(table) \in Stored(table) \cup {0}
         /\ \A d \in Stored(table) : d <= LatestDate(table)
<1> DEFINE S == Stored(table) \cup {0}
           T == {MaxDay - d : d \in S}
<1>1. S \subseteq 0..MaxDay /\ MaxDay \in Nat
  BY ConstantsOK DEF Stored, Day
<1>2. T \in SUBSET Nat /\ T # {}
  BY <1>1
<1>3. PICK m \in T : \A n \in T : m <= n
  <2> DEFINE R == {ss \in Nat \X Nat : ss[1] < ss[2]}
  <2>1. IsWellFoundedOn(R, Nat)
    BY NatLessThanWellFounded DEF OpToRel
  <2> HIDE DEF R, T
  <2>2. \E m \in T : \A n \in T : ~(<<n, m>> \in R)
    BY <1>2, <2>1, WFMin
  <2>3. ASSUME NEW m \in Nat, NEW n \in Nat, ~(<<n, m>> \in R) PROVE m <= n
    BY <2>3 DEF R
  <2> QED BY <1>2, <2>2, <2>3
<1>4. PICK x \in S : m = MaxDay - x
  BY <1>3
<1>5. \A y \in S : x >= y
  <2> SUFFICES ASSUME NEW y \in S PROVE x >= y
    OBVIOUS
  <2>1. m <= MaxDay - y
    BY <1>3
  <2> QED BY <1>1, <1>4, <2>1
<1> HIDE DEF S
<1>6. Max(S) \in S /\ \A y \in S : Max(S) >= y
  BY <1>5 DEF Max
<1>7. LatestDate(table) = Max(S)
  BY DEF LatestDate, S
<1> QED BY <1>1, <1>6, <1>7 DEF S

StoreOK ==
  /\ day \in Day
  /\ bar \in [Symbol -> [Day -> Rev]] /\ feature \in [Symbol -> [Day -> Rev]]
  /\ verdict \in [Scanner -> [Symbol -> [Day -> Rev]]]

Stage == {"idle", "features", "next", "opened", "evaluate"}

WorkerOK ==
  /\ scanner \in Scanner /\ stage \in Stage
  /\ todo \in SUBSET Symbol /\ skipped \in SUBSET Symbol /\ pending \in SUBSET Symbol
  /\ context \in [Symbol -> [date : 0..MaxDay, rev : Rev]]
  /\ rows \in SUBSET Symbol /\ passed \in SUBSET rows
  /\ counts \in [{"qualified", "rejected", "errors"} -> Nat]
  /\ stage # "evaluate" => Quiet

BatchOK == Cardinality(pending) <= BatchSize

(* What is still to be committed has no verdict yet, and a LISTED context  *)
(* still holds what daily_features holds.                                  *)
ContextOK ==
  /\ todo \cap (pending \cup rows) = {}
  /\ stage = "evaluate" =>
       \A s \in todo \cup pending :
         /\ context[s].date \in Day
         /\ verdict[scanner][s][context[s].date] = 0
         /\ scanner = "listed" => context[s].rev = feature[s][context[s].date]

ScanInv == StoreOK /\ WorkerOK /\ BatchOK /\ ContextOK /\ VerdictMatchesFeatures

(* A row the fundamental queue has in hand is still the stored one, and a  *)
(* fetched score is in a row that exists.                                  *)
FetchOK ==
  /\ fetched \subseteq Symbol \X Day /\ loaded \in [Symbol -> [Day -> Rev]]
  /\ \A s \in Symbol, d \in Day :
       /\ loaded[s][d] # 0 => verdict["candidate"][s][d] = loaded[s][d]
       /\ <<s, d>> \in fetched => verdict["candidate"][s][d] # 0

(* The actions of the collector and the clock. *)
LEMMA StoreKeeps ==
  ASSUME ScanInv, NextDay \/ \E s \in Symbol : \E d \in Day : StoreBar(s, d)
  PROVE  ScanInv'
<1> USE ConstantsOK DEF ScanInv, StoreOK
<1>1. UNCHANGED <<feature, verdict, stage, scanner, todo, runVars>>
  BY DEF NextDay, StoreBar
<1>2. WorkerOK' /\ BatchOK' /\ ContextOK' /\ VerdictMatchesFeatures'
  BY <1>1 DEF runVars, WorkerOK, BatchOK, ContextOK, VerdictMatchesFeatures, Quiet
<1>3. StoreOK'
  <2>1. CASE NextDay
    BY <2>1 DEF NextDay, Day
  <2>2. ASSUME NEW s \in Symbol, NEW d \in Day, StoreBar(s, d) PROVE StoreOK'
    <3>1. bar[s][d] + 1 \in Rev
      BY <2>2 DEF StoreBar, Rev
    <3>2. bar' = [bar EXCEPT ![s] = [bar[s] EXCEPT ![d] = bar[s][d] + 1]] /\ day' = day
      BY <2>2 DEF StoreBar
    <3>3. bar' \in [Symbol -> [Day -> Rev]]
      BY <3>1, <3>2
    <3> QED BY <1>1, <3>2, <3>3
  <2> QED BY <2>1, <2>2
<1> QED BY <1>2, <1>3

(* Computed features never replace a row: it would not be after the        *)
(* latest one.                                                             *)
LEMMA ComputeKeeps ==
  ASSUME ScanInv, NEW s \in Symbol, ComputeFeatures(s)
  PROVE  ScanInv'
<1> USE ConstantsOK DEF ScanInv
<1>1. /\ UNCHANGED <<day, bar, verdict, stage, scanner, runVars>>
      /\ stage = "features" /\ todo' = todo \ {s}
  BY DEF ComputeFeatures
<1>2. \/ feature' = feature
      \/ feature' = [feature EXCEPT ![s] =
                       [d \in Day |-> IF NewRow(s, d) THEN bar[s][d] ELSE feature[s][d]]]
  BY DEF ComputeFeatures
<1>3. feature' \in [Symbol -> [Day -> Rev]]
  <2>1. /\ feature \in [Symbol -> [Day -> Rev]] /\ feature[s] \in [Day -> Rev]
        /\ bar[s] \in [Day -> Rev]
    BY DEF StoreOK
  <2>2. [d \in Day |-> IF NewRow(s, d) THEN bar[s][d] ELSE feature[s][d]] \in [Day -> Rev]
    BY <2>1
  <2> QED BY <1>2, <2>1, <2>2
<1>4. \A u \in Symbol, d \in Day : feature[u][d] # 0 => feature'[u][d] = feature[u][d]
  <2> SUFFICES ASSUME NEW d \in Day, feature[s][d] # 0 PROVE ~NewRow(s, d)
    BY <1>2 DEF StoreOK
  <2>1. d <= LatestDate(feature[s]) /\ LatestDate(feature[s]) \in Nat
    BY LatestLemma DEF StoreOK, Stored, Day
  <2> QED BY <2>1 DEF NewRow, Day
<1>5. StoreOK'
  BY <1>1, <1>3 DEF StoreOK
<1>6. WorkerOK' /\ BatchOK' /\ ContextOK'
  BY <1>1 DEF runVars, WorkerOK, BatchOK, ContextOK, Quiet
<1>7. VerdictMatchesFeatures'
  BY <1>1, <1>4 DEF VerdictMatchesFeatures, StoreOK
<1> QED BY <1>5, <1>6, <1>7

(* The steps of the pass that write nothing. *)
LEMMA QuietStepsKeep ==
  ASSUME ScanInv,
         \/ BeginFeatures \/ FeaturesDone \/ OpenRun \/ CloseRun \/ Aborts
         \/ \E s \in Symbol : FeatureFails(s)
  PROVE  ScanInv'
<1> USE ConstantsOK DEF ScanInv
<1>1. StoreOK' /\ VerdictMatchesFeatures'
  BY DEF StoreOK, VerdictMatchesFeatures, stored, BeginFeatures, FeaturesDone, OpenRun,
         CloseRun, Aborts, FeatureFails
<1>2. ASSUME BeginFeatures \/ FeaturesDone \/ OpenRun \/ \E s \in Symbol : FeatureFails(s)
      PROVE  WorkerOK' /\ BatchOK' /\ ContextOK'
  <2>1. /\ UNCHANGED runVars /\ stage # "evaluate" /\ stage' \in Stage \ {"evaluate"}
        /\ scanner' \in Scanner /\ todo' \in SUBSET Symbol
    BY <1>2 DEF BeginFeatures, FeaturesDone, OpenRun, FeatureFails, WorkerOK, Stage, Scanner
  <2>2. pending = {} /\ rows = {}
    BY <2>1 DEF WorkerOK, Quiet
  <2> QED BY <2>1, <2>2 DEF runVars, WorkerOK, BatchOK, ContextOK, Quiet
<1>3. ASSUME CloseRun \/ Aborts PROVE WorkerOK' /\ BatchOK' /\ ContextOK'
  <2>1. /\ stage' \in Stage \ {"evaluate"} /\ scanner' = scanner /\ todo' = {} /\ Reset
    BY <1>3 DEF CloseRun, Aborts, Stage
  <2>2. Quiet' /\ pending' = {} /\ rows' = {} /\ passed' = {} /\ skipped' = {}
    BY <2>1 DEF Reset, Quiet
  <2>3. context' \in [Symbol -> [date : 0..MaxDay, rev : Rev]]
    BY <2>1 DEF Reset, NoContext, Rev
  <2>4. counts' \in [{"qualified", "rejected", "errors"} -> Nat]
    BY <2>1 DEF Reset, NoCounts
  <2>5. WorkerOK' /\ ContextOK'
    BY <2>1, <2>2, <2>3, <2>4 DEF WorkerOK, ContextOK
  <2>6. BatchOK'
    BY <2>2, FS_EmptySet DEF BatchOK
  <2> QED BY <2>5, <2>6
<1> QED BY <1>1, <1>2, <1>3

(* The contexts are read together: their verdicts are missing, and a       *)
(* LISTED context is the latest feature row.                               *)
LEMMA BuildKeeps ==
  ASSUME ScanInv, BuildContexts
  PROVE  ScanInv'
<1> USE ConstantsOK DEF ScanInv
<1> DEFINE candidates == IF scanner = "listed" THEN Symbol ELSE Universe
           without == {s \in candidates : Stored(feature[s]) = {}}
           known == {s \in candidates \ without : Seen(s)}
           read(s) == [date |-> ScanDate(s), rev |-> feature[s][LatestDate(feature[s])]]
<1>1. /\ context' = [s \in Symbol |-> IF s \in candidates \ without THEN read(s) ELSE NoContext]
      /\ todo' = candidates \ (without \cup known)
      /\ skipped' = (Symbol \ candidates) \cup known
      /\ counts' = [NoCounts EXCEPT !.rejected = Cardinality(without)]
      /\ UNCHANGED <<stored, scanner, pending, rows, passed>>
      /\ stage = "opened" /\ stage' = "evaluate"
  BY DEF BuildContexts
<1>2. Quiet /\ pending = {} /\ rows = {}
  BY <1>1 DEF WorkerOK, Quiet
<1>3. candidates \subseteq Symbol /\ without \subseteq Symbol
  OBVIOUS
<1>4. Cardinality(without) \in Nat
  <2> HIDE DEF without
  <2> QED BY <1>3, FS_Subset, FS_CardinalityType
<1>5. \A s \in candidates \ without :
        /\ read(s).date \in Day /\ read(s).rev \in Rev
        /\ scanner = "listed" => read(s).date = LatestDate(feature[s])
  <2> SUFFICES ASSUME NEW s \in candidates \ without
               PROVE  /\ read(s).date \in Day /\ read(s).rev \in Rev
                      /\ scanner = "listed" => read(s).date = LatestDate(feature[s])
    OBVIOUS
  <2>1. Stored(feature[s]) # {} /\ feature[s] \in [Day -> Rev]
    BY <1>3 DEF StoreOK
  <2>2. LatestDate(feature[s]) \in Day
    BY <2>1, LatestLemma DEF Stored, Day
  <2> QED BY <2>1, <2>2 DEF ScanDate, StoreOK
<1>6. context' \in [Symbol -> [date : 0..MaxDay, rev : Rev]]
  <2>1. ASSUME NEW s \in candidates \ without PROVE read(s) \in [date : 0..MaxDay, rev : Rev]
    <3>1. read(s).date \in 0..MaxDay /\ read(s).rev \in Rev
      BY <1>5 DEF Day
    <3> QED BY <3>1
  <2>2. NoContext \in [date : 0..MaxDay, rev : Rev]
    BY DEF NoContext, Rev
  <2> HIDE DEF read, without, candidates
  <2> QED BY <1>1, <2>1, <2>2
<1>7. counts' \in [{"qualified", "rejected", "errors"} -> Nat]
  <2> HIDE DEF without
  <2> QED BY <1>1, <1>4 DEF NoCounts
<1>8. StoreOK' /\ VerdictMatchesFeatures' /\ BatchOK'
  BY <1>1 DEF StoreOK, VerdictMatchesFeatures, BatchOK, stored
<1>9. WorkerOK'
  BY <1>1, <1>3, <1>6, <1>7 DEF WorkerOK, Stage
<1>10. ContextOK'
  <2> SUFFICES ASSUME NEW s \in todo'
               PROVE  /\ context'[s].date \in Day
                      /\ verdict[scanner][s][context'[s].date] = 0
                      /\ scanner = "listed" => context'[s].rev = feature[s][context'[s].date]
    BY <1>1, <1>2 DEF ContextOK, stored
  <2>1. s \in candidates \ without /\ s \in Symbol /\ ~Seen(s) /\ context'[s] = read(s)
    BY <1>1, <1>3
  <2>2. read(s).date = ScanDate(s)
    OBVIOUS
  <2>3. verdict[scanner][s][read(s).date] = 0
    BY <2>1, <2>2 DEF Seen
  <2>4. scanner = "listed" => read(s).rev = feature[s][read(s).date]
    BY <1>5, <2>1
  <2> QED BY <1>5, <2>1, <2>3, <2>4
<1> QED BY <1>8, <1>9, <1>10

(* Evaluating a symbol moves it from todo to the open batch. *)
LEMMA EvaluateKeeps ==
  ASSUME ScanInv, NEW s \in Symbol, Invalid(s) \/ Raises(s) \/ \E q \in BOOLEAN : Save(s, q)
  PROVE  ScanInv'
<1> USE ConstantsOK DEF ScanInv
<1>1. Evaluating(s)
  BY DEF Invalid, Raises, Save
<1>2. /\ stage = "evaluate" /\ stage' = stage /\ Cardinality(pending) < BatchSize
      /\ s \in todo /\ todo' = todo \ {s} /\ pending' = pending \cup {s}
      /\ UNCHANGED <<day, bar, feature, verdict, scanner, context, skipped>>
  BY <1>1 DEF Evaluating, First, stored
<1>3. rows' \in {rows, rows \cup {s}} /\ passed' \in {passed, passed \cup {s}} /\ passed' \subseteq rows'
  BY DEF Invalid, Raises, Save, WorkerOK
<1>4. counts' \in [{"qualified", "rejected", "errors"} -> Nat]
  <2>1. counts \in [{"qualified", "rejected", "errors"} -> Nat]
    BY DEF WorkerOK
  <2>2. CASE Invalid(s)
    BY <2>1, <2>2 DEF Invalid
  <2>3. CASE Raises(s)
    <3>1. PICK n \in {0, 1} : counts' = [counts EXCEPT !.errors = @ + 1, !.rejected = @ + n]
      BY <2>3 DEF Raises
    <3> DEFINE half == [counts EXCEPT !.errors = @ + 1]
    <3>2. half \in [{"qualified", "rejected", "errors"} -> Nat]
      BY <2>1
    <3>3. counts' = [half EXCEPT !.rejected = half.rejected + n]
      BY <2>1, <3>1
    <3> HIDE DEF half
    <3> QED BY <3>2, <3>3
  <2>4. ASSUME NEW q \in BOOLEAN, Save(s, q) PROVE counts' \in [{"qualified", "rejected", "errors"} -> Nat]
    BY <2>1, <2>4 DEF Save
  <2> QED BY <2>2, <2>3, <2>4
<1>5. StoreOK' /\ VerdictMatchesFeatures'
  BY <1>2 DEF StoreOK, VerdictMatchesFeatures
<1>6. BatchOK'
  <2>1. IsFiniteSet(pending) /\ Cardinality(pending) \in Nat
    BY FS_Subset, FS_CardinalityType DEF WorkerOK
  <2>2. Cardinality(pending \cup {s}) \in {Cardinality(pending), Cardinality(pending) + 1}
    BY <2>1, FS_AddElement
  <2> QED BY <1>2, <2>1, <2>2 DEF BatchOK
<1>7. WorkerOK'
  BY <1>2, <1>3, <1>4 DEF WorkerOK
<1>8. ContextOK'
  BY <1>2, <1>3 DEF ContextOK
<1> QED BY <1>5, <1>6, <1>7, <1>8

(* A commit writes only verdicts that were missing. *)
LEMMA CommitWrites ==
  ASSUME ScanInv, CommitBatch,
         NEW c \in Scanner, NEW s \in Symbol, NEW d \in Day
  PROVE  \/ verdict'[c][s][d] = verdict[c][s][d]
         \/ /\ c = scanner /\ s \in pending /\ d = context[s].date
            /\ verdict[c][s][d] = 0 /\ verdict'[c][s][d] = context[s].rev
<1> USE DEF ScanInv
<1>1. /\ verdict' = [verdict EXCEPT ![scanner] = [u \in Symbol |->
            IF u \in rows \cap pending
            THEN [verdict[scanner][u] EXCEPT ![context[u].date] = context[u].rev]
            ELSE verdict[scanner][u]]]
      /\ stage = "evaluate"
  BY DEF CommitBatch
<1>2. CASE c # scanner \/ s \notin rows \cap pending
  BY <1>1, <1>2 DEF StoreOK, WorkerOK
<1>3. CASE c = scanner /\ s \in rows \cap pending
  <2>1. verdict'[c][s] = [verdict[c][s] EXCEPT ![context[s].date] = context[s].rev]
    BY <1>1, <1>3 DEF StoreOK
  <2>2. verdict[scanner][s][context[s].date] = 0 /\ verdict[c][s] \in [Day -> Rev]
    BY <1>1, <1>3 DEF ContextOK, StoreOK
  <2> QED BY <1>3, <2>1, <2>2
<1> QED BY <1>2, <1>3

LEMMA CommitKeeps ==
  ASSUME ScanInv, CommitBatch
  PROVE  ScanInv'
<1> USE ConstantsOK DEF ScanInv
<1>1. /\ stage = "evaluate" /\ pending' = {}
      /\ UNCHANGED <<day, bar, feature, stage, scanner, todo, context, skipped, rows,
                     passed, counts>>
  BY DEF CommitBatch
<1>2. StoreOK'
  <2>1. verdict' \in [Scanner -> [Symbol -> [Day -> Rev]]]
    <3> DEFINE written(u) == [verdict[scanner][u] EXCEPT ![context[u].date] = context[u].rev]
               table == [u \in Symbol |-> IF u \in rows \cap pending THEN written(u)
                                         ELSE verdict[scanner][u]]
    <3>1. ASSUME NEW u \in Symbol
          PROVE  verdict[scanner][u] \in [Day -> Rev] /\ written(u) \in [Day -> Rev]
      <4>1. verdict[scanner][u] \in [Day -> Rev] /\ context[u].rev \in Rev
        BY DEF StoreOK, WorkerOK
      <4> QED BY <4>1
    <3>2. verdict' = [verdict EXCEPT ![scanner] = table]
      BY DEF CommitBatch
    <3> HIDE DEF written
    <3>3. table \in [Symbol -> [Day -> Rev]]
      BY <3>1
    <3> HIDE DEF table
    <3> QED BY <3>2, <3>3 DEF StoreOK
  <2> QED BY <1>1, <2>1 DEF StoreOK
<1>3. WorkerOK'
  BY <1>1 DEF WorkerOK
<1>4. BatchOK'
  BY <1>1, FS_EmptySet DEF BatchOK
<1>5. ContextOK'
  <2>1. \A s \in todo : s \notin rows /\ s \notin pending
    BY DEF ContextOK
  <2>2. \A s \in todo : context[s].date \in Day /\ scanner \in Scanner /\ s \in Symbol
    BY <1>1 DEF ContextOK, WorkerOK
  <2>3. \A s \in todo : verdict'[scanner][s][context[s].date] = verdict[scanner][s][context[s].date]
    BY <2>1, <2>2, CommitWrites
  <2> QED BY <1>1, <2>1, <2>2, <2>3 DEF ContextOK
<1>6. VerdictMatchesFeatures'
  <2> SUFFICES ASSUME NEW s \in Symbol, NEW d \in Day, verdict'["listed"][s][d] # 0
               PROVE  verdict'["listed"][s][d] = feature[s][d]
    BY <1>1 DEF VerdictMatchesFeatures
  <2>1. "listed" \in Scanner
    BY DEF Scanner
  <2>2. CASE verdict'["listed"][s][d] = verdict["listed"][s][d]
    BY <2>2 DEF VerdictMatchesFeatures
  <2>3. CASE /\ "listed" = scanner /\ s \in pending /\ d = context[s].date
             /\ verdict'["listed"][s][d] = context[s].rev
    BY <1>1, <2>3 DEF ContextOK
  <2> QED BY <2>1, <2>2, <2>3, CommitWrites
<1> QED BY <1>2, <1>3, <1>4, <1>5, <1>6

(* The fundamental queue writes back the features the row still has. *)
LEMMA FetchWrites ==
  ASSUME ScanInv, FetchOK, NEW s \in Symbol, NEW d \in Day, LoadRow(s, d) \/ Rescore(s, d)
  PROVE  /\ UNCHANGED <<stored, stage, scanner, todo, runVars>>
         /\ fetched' \in {fetched, fetched \cup {<<s, d>>}}
         /\ loaded' \in {NoRows, [loaded EXCEPT ![s][d] = verdict["candidate"][s][d]]}
         /\ verdict["candidate"][s][d] # 0
<1>1. CASE LoadRow(s, d)
  BY <1>1 DEF LoadRow
<1>2. CASE Rescore(s, d)
  <2>1. loaded[s][d] = verdict["candidate"][s][d] /\ loaded[s][d] # 0
    BY <1>2 DEF Rescore, FetchOK
  <2>2. verdict' = [verdict EXCEPT !["candidate"] =
                     [verdict["candidate"] EXCEPT ![s] =
                       [verdict["candidate"][s] EXCEPT ![d] = verdict["candidate"][s][d]]]]
    BY <1>2, <2>1 DEF Rescore
  <2>3. /\ verdict["candidate"] \in [Symbol -> [Day -> Rev]]
        /\ verdict["candidate"][s] \in [Day -> Rev]
    BY DEF ScanInv, StoreOK, Scanner
  <2>4. [verdict["candidate"][s] EXCEPT ![d] = verdict["candidate"][s][d]] = verdict["candidate"][s]
    BY <2>3
  <2>5. [verdict["candidate"] EXCEPT ![s] = verdict["candidate"][s]] = verdict["candidate"]
    BY <2>3
  <2>6. verdict' = verdict
    BY <2>2, <2>4, <2>5 DEF ScanInv, StoreOK
  <2> QED BY <1>2, <2>1, <2>6 DEF Rescore, stored
<1> QED BY <1>1, <1>2

(* Every step preserves the invariant. *)
LEMMA NextScanInv == ScanInv /\ FetchOK /\ [Next]_vars => ScanInv'
<1> SUFFICES ASSUME ScanInv, FetchOK, [Next]_vars PROVE ScanInv'
  OBVIOUS
<1>1. ASSUME UNCHANGED <<stored, stage, scanner, todo, runVars>> PROVE ScanInv'
  BY <1>1 DEF stored, runVars, ScanInv, StoreOK, WorkerOK, BatchOK, ContextOK,
              VerdictMatchesFeatures, Quiet
<1>2. CASE UNCHANGED vars
  BY <1>1, <1>2 DEF vars
<1>3. ASSUME NEW s \in Symbol, NEW d \in Day, LoadRow(s, d) \/ Rescore(s, d) PROVE ScanInv'
  BY <1>1, <1>3, FetchWrites
<1> QED BY <1>2, <1>3, StoreKeeps, ComputeKeeps, QuietStepsKeep, BuildKeeps, EvaluateKeeps,
           CommitKeeps DEF Next

(* The steps that write no candidate verdict. *)
VerdictsAlone ==
  \/ NextDay \/ BeginFeatures \/ FeaturesDone
  \/ OpenRun \/ BuildContexts \/ CloseRun \/ Aborts
  \/ \E s \in Symbol :
       \/ ComputeFeatures(s) \/ FeatureFails(s) \/ Invalid(s) \/ Raises(s)
       \/ \E d \in Day : StoreBar(s, d)
       \/ \E q \in BOOLEAN : Save(s, q)

LEMMA VerdictsAloneKeep == VerdictsAlone => UNCHANGED <<verdict, fetched, loaded>>
BY DEF VerdictsAlone, fetchVars, stored, NextDay, BeginFeatures, FeaturesDone, OpenRun,
       BuildContexts, CloseRun, Aborts, ComputeFeatures, FeatureFails, Invalid, Raises,
       Save, StoreBar, Evaluating

LEMMA WritersSplit ==
  Next => \/ CommitBatch \/ VerdictsAlone
          \/ \E s \in Symbol, d \in Day : LoadRow(s, d) \/ Rescore(s, d)
BY DEF Next, VerdictsAlone

(* No step changes the features in a candidate verdict, or takes its       *)
(* fetched score away: what a batch commits was missing when it was read,  *)
(* so no fetch has been there since.                                       *)
LEMMA CandidateKept ==
  ASSUME ScanInv, FetchOK, [Next]_vars
  PROVE  /\ fetched \subseteq fetched'
         /\ \A s \in Symbol, d \in Day :
              verdict["candidate"][s][d] # 0
                => verdict'["candidate"][s][d] = verdict["candidate"][s][d]
<1>1. CASE CommitBatch
  <2>1. "candidate" \in Scanner
    BY DEF Scanner
  <2>2. \A s \in Symbol, d \in Day :
          verdict["candidate"][s][d] # 0
            => verdict'["candidate"][s][d] = verdict["candidate"][s][d]
    BY <1>1, <2>1, CommitWrites
  <2>3. CASE scanner = "listed"
    BY <1>1, <2>2, <2>3 DEF CommitBatch
  <2>4. CASE scanner = "candidate"
    <3>1. \A s \in rows \cap pending : <<s, context[s].date>> \notin fetched
      <4> SUFFICES ASSUME NEW s \in rows \cap pending PROVE <<s, context[s].date>> \notin fetched
        OBVIOUS
      <4>1. context[s].date \in Day /\ verdict["candidate"][s][context[s].date] = 0 /\ s \in Symbol
        BY <1>1, <2>4 DEF CommitBatch, ScanInv, ContextOK, WorkerOK
      <4> QED BY <4>1 DEF FetchOK
    <3>2. fetched' = fetched \ {<<s, context[s].date>> : s \in rows \cap pending}
      BY <1>1, <2>4 DEF CommitBatch
    <3> QED BY <2>2, <3>1, <3>2
  <2> QED BY <2>3, <2>4 DEF ScanInv, WorkerOK, Scanner
<1>2. ASSUME NEW s \in Symbol, NEW d \in Day, LoadRow(s, d) \/ Rescore(s, d)
      PROVE  fetched \subseteq fetched' /\ verdict' = verdict
  BY <1>2, FetchWrites DEF stored
<1>3. CASE VerdictsAlone \/ UNCHANGED vars
  <2>1. UNCHANGED <<verdict, fetched>>
    BY <1>3, VerdictsAloneKeep DEF vars, fetchVars, stored
  <2> QED BY <2>1
<1> QED BY <1>1, <1>2, <1>3, WritersSplit

(* Every step keeps what the fundamental queue has in hand current. *)
LEMMA NextFetchOK == ScanInv /\ FetchOK /\ [Next]_vars => FetchOK'
<1> SUFFICES ASSUME ScanInv, FetchOK, [Next]_vars PROVE FetchOK'
  OBVIOUS
<1>1. \A s \in Symbol, d \in Day :
        verdict["candidate"][s][d] # 0
          => verdict'["candidate"][s][d] = verdict["candidate"][s][d]
  BY CandidateKept
<1>2. ASSUME UNCHANGED loaded, fetched' \subseteq fetched PROVE FetchOK'
  BY <1>1, <1>2 DEF FetchOK
<1>3. ASSUME NEW s \in Symbol, NEW d \in Day, LoadRow(s, d) \/ Rescore(s, d) PROVE FetchOK'
  <2>1. /\ verdict' = verdict /\ verdict["candidate"][s][d] # 0
        /\ fetched' \in {fetched, fetched \cup {<<s, d>>}}
        /\ loaded' \in {NoRows, [loaded EXCEPT ![s][d] = verdict["candidate"][s][d]]}
    BY <1>3, FetchWrites DEF stored
  <2>2. fetched' \subseteq Symbol \X Day
    BY <2>1 DEF FetchOK
  <2>3. verdict["candidate"][s][d] \in Rev
    BY DEF ScanInv, StoreOK, Scanner
  <2>4. loaded' \in [Symbol -> [Day -> Rev]]
    <3>1. NoRows \in [Symbol -> [Day -> Rev]]
      BY ConstantsOK DEF NoRows, Rev
    <3>2. [loaded EXCEPT ![s][d] = verdict["candidate"][s][d]] \in [Symbol -> [Day -> Rev]]
      <4>1. loaded[s] \in [Day -> Rev] /\ loaded \in [Symbol -> [Day -> Rev]]
        BY DEF FetchOK
      <4>2. [loaded[s] EXCEPT ![d] = verdict["candidate"][s][d]] \in [Day -> Rev]
        BY <2>3, <4>1
      <4> QED BY <4>1, <4>2
    <3> QED BY <2>1, <3>1, <3>2
  <2>5. \A u \in Symbol, e \in Day :
          /\ loaded'[u][e] # 0 => verdict["candidate"][u][e] = loaded'[u][e]
          /\ <<u, e>> \in fetched' => verdict["candidate"][u][e] # 0
    <3> SUFFICES ASSUME NEW u \in Symbol, NEW e \in Day
                 PROVE  /\ loaded'[u][e] # 0 => verdict["candidate"][u][e] = loaded'[u][e]
                        /\ <<u, e>> \in fetched' => verdict["candidate"][u][e] # 0
      OBVIOUS
    <3>1. CASE loaded' = NoRows
      BY <2>1, <3>1 DEF FetchOK, NoRows
    <3>2. CASE loaded' = [loaded EXCEPT ![s][d] = verdict["candidate"][s][d]]
      BY <2>1, <3>2 DEF FetchOK
    <3> QED BY <2>1, <3>1, <3>2
  <2> QED BY <2>1, <2>2, <2>4, <2>5 DEF FetchOK
<1>4. CASE CommitBatch
  BY <1>2, <1>4 DEF CommitBatch
<1>5. CASE VerdictsAlone \/ UNCHANGED vars
  <2>1. UNCHANGED <<loaded, fetched>>
    BY <1>5, VerdictsAloneKeep DEF vars, fetchVars
  <2> QED BY <1>2, <2>1
<1> QED BY <1>3, <1>4, <1>5, WritersSplit

(* The invariant holds in every reachable state. *)
LEMMA ScanInvHolds == Spec => [](ScanInv /\ FetchOK)
<1>1. Init => ScanInv /\ FetchOK
  <2> SUFFICES ASSUME Init PROVE ScanInv /\ FetchOK
    OBVIOUS
  <2> USE ConstantsOK
  <2>1. StoreOK
    BY DEF Init, StoreOK, Day, Rev
  <2>2. WorkerOK
    BY DEF Init, WorkerOK, Quiet, Scanner, Stage, NoContext, NoCounts, Rev
  <2>3. BatchOK
    BY FS_EmptySet DEF Init, BatchOK, Quiet
  <2>4. ContextOK /\ VerdictMatchesFeatures
    BY DEF Init, ContextOK, VerdictMatchesFeatures, Scanner, Quiet
  <2>5. FetchOK
    BY DEF Init, FetchOK, NoRows, Rev
  <2> QED BY <2>1, <2>2, <2>3, <2>4, <2>5 DEF ScanInv
<1> QED BY <1>1, NextScanInv, NextFetchOK, PTL DEF Spec

(* Type correctness; a batch of verdicts stays within _BATCH_SIZE. *)
THEOREM TypeCorrect == Spec => []TypeOK
<1>1. ScanInv /\ FetchOK => TypeOK
  BY DEF ScanInv, FetchOK, StoreOK, WorkerOK, BatchOK, TypeOK, Stage
<1> QED BY <1>1, ScanInvHolds, PTL

(* A LISTED verdict keeps agreeing with the feature row of its date, over  *)
(* revisions, aborts and any interleaving with the collector.              *)
THEOREM SnapshotTheorem == Spec => []VerdictMatchesFeatures
<1>1. ScanInv => VerdictMatchesFeatures
  BY DEF ScanInv
<1> QED BY <1>1, ScanInvHolds, PTL

(* The scanners and the fundamental queue never undo each other's writes   *)
(* to a candidate verdict, however the batches, loads and fetches of the   *)
(* two interleave: a batch only holds rows that do not exist.              *)
THEOREM NoLostUpdateTheorem == Spec => NoLostUpdate
<1>1. ScanInv /\ FetchOK /\ [Next]_vars
        => [/\ fetched \subseteq fetched'
            /\ \A s \in Symbol, d \in Day :
                 LET old == verdict["candidate"][s][d]
                 IN old # 0 => verdict'["candidate"][s][d] = old]_vars
  BY CandidateKept
<1> QED BY <1>1, ScanInvHolds, PTL DEF Spec, NoLostUpdate

-----------------------------------------------------------------------------
(* The counts of a run                                                     *)

(* Handling one more symbol adds at most one to the handled ones. *)
LEMMA OneMoreHandled ==
  ASSUME ScanInv, NEW s \in Symbol, Evaluating(s)
  PROVE  /\ Cardinality(Symbol \ (todo \cup skipped)) \in Nat
         /\ Cardinality(Symbol \ (todo' \cup skipped')) \in Nat
         /\ Cardinality(Symbol \ (todo' \cup skipped'))
              <= Cardinality(Symbol \ (todo \cup skipped)) + 1
<1> DEFINE old == Symbol \ (todo \cup skipped)
           new == Symbol \ (todo' \cup skipped')
<1>1. new \subseteq old \cup {s} /\ old \subseteq Symbol /\ new \subseteq Symbol
  BY DEF Evaluating
<1> HIDE DEF old, new
<1>2. IsFiniteSet(old) /\ IsFiniteSet(new)
  BY <1>1, ConstantsOK, FS_Subset
<1>3. Cardinality(old) \in Nat /\ Cardinality(new) \in Nat
  BY <1>2, FS_CardinalityType
<1>4. IsFiniteSet(old \cup {s}) /\ Cardinality(old \cup {s}) \in {Cardinality(old), Cardinality(old) + 1}
  BY <1>2, FS_AddElement
<1>5. Cardinality(new) <= Cardinality(old \cup {s})
  BY <1>1, <1>4, FS_Subset
<1> QED BY <1>3, <1>4, <1>5 DEF old, new

(* Evaluating a symbol counts it, and its verdict if it is qualified. *)
LEMMA EvaluateCounts ==
  ASSUME ScanInv, CountsMatchRows, NEW s \in Symbol,
         Invalid(s) \/ Raises(s) \/ \E q \in BOOLEAN : Save(s, q)
  PROVE  CountsMatchRows'
<1>0. /\ counts \in [{"qualified", "rejected", "errors"} -> Nat]
      /\ counts.qualified \in Nat /\ counts.rejected \in Nat /\ counts.errors \in Nat
  BY DEF ScanInv, WorkerOK
<1>1. Evaluating(s) /\ s \in todo /\ stage = "evaluate"
  BY DEF Invalid, Raises, Save, Evaluating, First
<1>2. /\ counts.qualified = Cardinality(passed)
      /\ counts.qualified + counts.rejected + counts.errors
           >= Cardinality(Symbol \ (todo \cup skipped))
  BY <1>1 DEF CountsMatchRows
<1>3. s \notin passed
  BY <1>1 DEF ScanInv, ContextOK, WorkerOK
<1>4. Cardinality(passed \cup {s}) = Cardinality(passed) + 1
  <2>1. IsFiniteSet(passed)
    <3>1. passed \subseteq Symbol
      BY DEF ScanInv, WorkerOK
    <3> QED BY <3>1, ConstantsOK, FS_Subset
  <2> QED BY <1>3, <2>1, FS_AddElement
<1>5. /\ counts'.qualified = Cardinality(passed')
      /\ counts'.qualified \in Nat /\ counts'.rejected \in Nat /\ counts'.errors \in Nat
      /\ counts'.qualified + counts'.rejected + counts'.errors
           >= counts.qualified + counts.rejected + counts.errors + 1
  <2>1. CASE Invalid(s)
    BY <1>0, <1>2, <2>1 DEF Invalid
  <2>2. CASE Raises(s)
    <3>1. PICK n \in {0, 1} : counts' = [counts EXCEPT !.errors = @ + 1, !.rejected = @ + n]
      BY <2>2 DEF Raises
    <3>2. /\ counts'.qualified = counts.qualified
          /\ counts'.errors = counts.errors + 1
          /\ counts'.rejected = counts.rejected + n
      BY <1>0, <3>1
    <3>3. passed' = passed
      BY <2>2 DEF Raises
    <3> QED BY <1>0, <1>2, <3>2, <3>3
  <2>3. ASSUME NEW q \in BOOLEAN, Save(s, q), q
        PROVE  /\ counts'.qualified = counts.qualified + 1 /\ passed' = passed \cup {s}
               /\ counts'.rejected = counts.rejected /\ counts'.errors = counts.errors
    BY <1>0, <2>3 DEF Save
  <2>4. ASSUME NEW q \in BOOLEAN, Save(s, q), ~q
        PROVE  /\ counts'.qualified = counts.qualified /\ passed' = passed
               /\ counts'.rejected = counts.rejected + 1 /\ counts'.errors = counts.errors
    BY <1>0, <2>4 DEF Save
  <2>5. ASSUME NEW q \in BOOLEAN, Save(s, q)
        PROVE  /\ counts'.qualified = Cardinality(passed')
               /\ counts'.qualified \in Nat /\ counts'.rejected \in Nat /\ counts'.errors \in Nat
               /\ counts'.qualified + counts'.rejected + counts'.errors
                    >= counts.qualified + counts.rejected + counts.errors + 1
    <3>1. CASE q
      <4>1. /\ counts'.qualified = counts.qualified + 1 /\ passed' = passed \cup {s}
            /\ counts'.rejected = counts.rejected /\ counts'.errors = counts.errors
        BY <2>3, <2>5, <3>1
      <4> QED BY <1>0, <1>2, <1>4, <4>1
    <3>2. CASE ~q
      <4>1. /\ counts'.qualified = counts.qualified /\ passed' = passed
            /\ counts'.rejected = counts.rejected + 1 /\ counts'.errors = counts.errors
        BY <2>4, <2>5, <3>2
      <4> QED BY <1>0, <1>2, <4>1
    <3> QED BY <3>1, <3>2
  <2> QED BY <2>1, <2>2, <2>5
<1>6. Cardinality(Symbol \ (todo' \cup skipped')) \in Nat
      /\ Cardinality(Symbol \ (todo' \cup skipped'))
           <= Cardinality(Symbol \ (todo \cup skipped)) + 1
      /\ Cardinality(Symbol \ (todo \cup skipped)) \in Nat
  BY <1>1, OneMoreHandled
<1> DEFINE before == Cardinality(Symbol \ (todo \cup skipped))
           after == Cardinality(Symbol \ (todo' \cup skipped'))
<1>7. before \in Nat /\ after \in Nat /\ after <= before + 1
      /\ counts.qualified + counts.rejected + counts.errors >= before
  BY <1>2, <1>6
<1> HIDE DEF before, after
<1>8. counts'.qualified + counts'.rejected + counts'.errors >= after
  BY <1>0, <1>5, <1>7
<1> QED BY <1>5, <1>8 DEF CountsMatchRows, after

(* The symbols without features are counted when the contexts are read. *)
LEMMA BuildCounts ==
  ASSUME ScanInv, BuildContexts
  PROVE  CountsMatchRows'
<1> DEFINE candidates == IF scanner = "listed" THEN Symbol ELSE Universe
           without == {s \in candidates : Stored(feature[s]) = {}}
           known == {s \in candidates \ without : Seen(s)}
<1>1. /\ todo' = candidates \ (without \cup known) /\ passed' = passed
      /\ skipped' = (Symbol \ candidates) \cup known
      /\ counts' = [NoCounts EXCEPT !.rejected = Cardinality(without)]
      /\ stage = "opened"
  BY DEF BuildContexts
<1>2. passed' = {}
  BY <1>1 DEF ScanInv, WorkerOK, Quiet
<1>3. candidates \subseteq Symbol
  BY ConstantsOK
<1>4. Symbol \ (todo' \cup skipped') = without
  BY <1>1, <1>3
<1> HIDE DEF without
<1>5. without \subseteq Symbol
  BY <1>3 DEF without
<1>6. Cardinality(without) \in Nat
  BY <1>5, ConstantsOK, FS_Subset, FS_CardinalityType
<1>7. counts'.qualified = 0 /\ counts'.rejected = Cardinality(without) /\ counts'.errors = 0
  BY <1>1 DEF NoCounts
<1> QED BY <1>2, <1>4, <1>6, <1>7, FS_EmptySet DEF CountsMatchRows

(* What a run reports as qualified is what it wrote, and nothing it        *)
(* handled is missing from its counts.                                     *)
THEOREM CountsTheorem == Spec => []CountsMatchRows
<1>1. Init => CountsMatchRows
  BY DEF Init, CountsMatchRows
<1>2. ScanInv /\ CountsMatchRows /\ [Next]_vars => CountsMatchRows'
  <2> SUFFICES ASSUME ScanInv, CountsMatchRows, [Next]_vars PROVE CountsMatchRows'
    OBVIOUS
  <2>1. ASSUME UNCHANGED <<stage, counts, passed, todo, skipped>> \/ stage' # "evaluate"
        PROVE  CountsMatchRows'
    BY <2>1 DEF CountsMatchRows
  <2>2. ASSUME NEW s \in Symbol,
               Invalid(s) \/ Raises(s) \/ \E q \in BOOLEAN : Save(s, q)
        PROVE  CountsMatchRows'
    BY <2>2, EvaluateCounts
  <2>3. CASE BuildContexts
    BY <2>3, BuildCounts
  <2>4. CASE \/ NextDay \/ CommitBatch
             \/ \E s \in Symbol : \E d \in Day : StoreBar(s, d) \/ LoadRow(s, d) \/ Rescore(s, d)
    BY <2>1, <2>4 DEF NextDay, CommitBatch, StoreBar, LoadRow, Rescore, runVars
  <2>5. CASE \/ BeginFeatures \/ FeaturesDone \/ OpenRun \/ CloseRun \/ Aborts
             \/ \E s \in Symbol : ComputeFeatures(s) \/ FeatureFails(s)
    BY <2>1, <2>5 DEF BeginFeatures, FeaturesDone, OpenRun, CloseRun, Aborts, ComputeFeatures,
                      FeatureFails
  <2>6. CASE UNCHANGED vars
    BY <2>1, <2>6 DEF vars, runVars
  <2> QED BY <2>2, <2>3, <2>4, <2>5, <2>6 DEF Next
<1> QED BY <1>1, <1>2, ScanInvHolds, PTL DEF Spec
=============================================================================
