---------------------------- MODULE PipelineQueue ----------------------------
(***************************************************************************)
(* Market-data ingestion and the feature/scanner/decision worker, joined   *)
(* by a Redis stream with one consumer group.  An ingester commits its     *)
(* prices to PostgreSQL and then publishes an event; the worker reads      *)
(* events, runs the engines over whatever the database holds by then, and  *)
(* acknowledges.  Ingesters and worker are coroutines of one process,      *)
(* which can die at any point; the stream and the database survive it.     *)
(* Redis (external) is modelled from the five commands queue.py issues.    *)
(***************************************************************************)
EXTENDS Integers, FiniteSets

CONSTANTS
  Ingester,   \* publishers: intraday worker, daily job, websocket
  ReadCount,  \* count= of XREADGROUP
  MaxLen,     \* settings.pipeline_stream_maxlen
  MaxBatches, \* bound: batches of prices committed
  MaxEvents,  \* bound: events published
  MaxCrashes  \* bound: process crashes

ASSUME QueueConstantsOK ==
  /\ ReadCount \in Nat \ {0} /\ MaxLen \in Nat \ {0}
  /\ MaxBatches \in Nat /\ MaxEvents \in Nat \ {0} /\ MaxCrashes \in Nat

EventId == 1..MaxEvents

VARIABLES
  mode,      \* the process: down or running
  data,      \* batches of prices committed so far
  unsent,    \* ingester -> batch committed and not yet published, or 0
  \* Redis
  published, \* XADDs so far; event n is the n-th
  first,     \* the oldest entry still in the stream
  batchOf,   \* event -> the batch it announces
  group,     \* whether the consumer group exists
  delivered, \* the group's last-delivered-id
  pel,       \* pending entries: delivered to the consumer, not acknowledged
  acked,
  \* PipelineWorker
  draining,  \* _draining_pending
  entries,   \* what read() returned and the loop has not started yet
  cur,       \* the event in _process or ack, 0 when none
  phase,     \* idle, process, ack
  seen,      \* data when _process of cur began
  scanned,   \* newest batch a completed _process has covered
  \* history
  crashes,
  starts,    \* event -> times _process was started for it
  leftover   \* pending when this process started and not started by it yet

redisVars == <<published, first, batchOf, group, delivered, pel, acked>>
workerVars == <<draining, entries, cur, phase, seen>>
historyVars == <<crashes, starts, leftover>>
queueVars == <<mode, data, unsent, redisVars, workerVars, scanned, historyVars>>

QueueInit ==
  /\ mode = "down" /\ data = 0 /\ unsent = [i \in Ingester |-> 0]
  /\ published = 0 /\ first = 1 /\ batchOf = [e \in EventId |-> 0]
  /\ group = FALSE /\ delivered = 0 /\ pel = {} /\ acked = {}
  /\ draining = TRUE /\ entries = {} /\ cur = 0 /\ phase = "idle" /\ seen = 0
  /\ scanned = 0
  /\ crashes = 0 /\ starts = [e \in EventId |-> 0] /\ leftover = {}

-----------------------------------------------------------------------------
(* Process start and end                                                   *)

(* Mutant of EnsureGroup: the group starts at the stream's end ($). *)
EnsureGroupAtEnd ==
  \/ group' = TRUE /\ delivered' = IF group THEN delivered ELSE published
  \/ UNCHANGED <<group, delivered>>

(* A fresh queue object; ensure_group creates the group at id 0, finds it  *)
(* there, or fails and is only logged.                                     *)
EnsureGroup ==
  \/ group' = TRUE /\ delivered' = IF group THEN delivered ELSE 0
  \/ UNCHANGED <<group, delivered>>

Startup ==
  /\ mode = "down" /\ mode' = "running"
  /\ EnsureGroup
  /\ draining' = TRUE /\ leftover' = pel
  /\ UNCHANGED <<data, unsent, published, first, batchOf, pel, acked, entries, cur,
                 phase, seen, scanned, crashes, starts>>

Crash ==
  /\ mode = "running" /\ crashes < MaxCrashes
  /\ mode' = "down" /\ crashes' = crashes + 1
  /\ unsent' = [i \in Ingester |-> 0]
  /\ draining' = TRUE /\ entries' = {} /\ cur' = 0 /\ phase' = "idle" /\ seen' = 0
  /\ UNCHANGED <<data, redisVars, scanned, starts, leftover>>

-----------------------------------------------------------------------------
(* Ingestion                                                               *)

(* collect_intraday and the like: prices committed, at least one symbol. *)
Collect(i) ==
  /\ mode = "running" /\ unsent[i] = 0 /\ data < MaxBatches
  /\ data' = data + 1
  /\ unsent' = [unsent EXCEPT ![i] = data + 1]
  /\ UNCHANGED <<mode, redisVars, workerVars, scanned, historyVars>>

(* Mutant of Trim: the cut is computed without regard to the length. *)
TrimAlways == first' = published + 2 - MaxLen

(* XADD with an approximate MAXLEN: Redis may drop the oldest entries, and *)
(* keeps at least MaxLen.                                                  *)
Trim == first' \in {f \in EventId : f = first \/ (f > first /\ f + MaxLen <= published + 2)}

Publish(i) ==
  /\ unsent[i] # 0 /\ published < MaxEvents
  /\ published' = published + 1
  /\ batchOf' = [batchOf EXCEPT ![published + 1] = unsent[i]]
  /\ Trim
  /\ unsent' = [unsent EXCEPT ![i] = 0]
  /\ UNCHANGED <<mode, data, group, delivered, pel, acked, workerVars, scanned,
                 historyVars>>

(* Redis is unreachable: the pass is logged, its event is never sent. *)
PublishFails(i) ==
  /\ unsent[i] # 0
  /\ unsent' = [unsent EXCEPT ![i] = 0]
  /\ UNCHANGED <<mode, data, redisVars, workerVars, scanned, historyVars>>

-----------------------------------------------------------------------------
(* RedisPipelineEventQueue.read                                            *)

Reading == mode = "running" /\ group /\ cur = 0 /\ entries = {}

(* XREADGROUP 0: the oldest pending entries. *)
OldestPending == {e \in pel : Cardinality({p \in pel : p < e}) < ReadCount}

(* Mutants of ReadPending: it drains until nothing is pending, and spins   *)
(* on a failing event; the flag is cleared only by a read that did not     *)
(* raise.                                                                  *)
ReadPendingAgain ==
  /\ Reading /\ draining
  /\ draining' = (pel # {})
  /\ entries' = OldestPending
  /\ UNCHANGED <<mode, data, unsent, redisVars, cur, phase, seen, scanned, historyVars>>

ReadPendingStuck ==
  /\ Reading /\ draining
  /\ draining' = \E e \in OldestPending : e < first
  /\ entries' = IF draining' THEN {} ELSE OldestPending
  /\ UNCHANGED <<mode, data, unsent, redisVars, cur, phase, seen, scanned, historyVars>>

(* The first read of a process.  A pending entry that the stream no longer *)
(* has comes back without fields: _to_event raises, after the flag was     *)
(* already cleared.                                                        *)
ReadPending ==
  /\ Reading /\ draining
  /\ draining' = FALSE
  /\ entries' = IF \E e \in OldestPending : e < first THEN {} ELSE OldestPending
  /\ UNCHANGED <<mode, data, unsent, redisVars, cur, phase, seen, scanned, historyVars>>

(* XREADGROUP >: the next entries of the stream go to the consumer. *)
Oldest == IF delivered + 1 > first THEN delivered + 1 ELSE first
Unread == {e \in Oldest..published : e < Oldest + ReadCount}

(* Mutant of Deliver: NOACK, nothing becomes pending. *)
DeliverNoAck ==
  /\ Unread # {}
  /\ delivered' \in Unread /\ \A e \in Unread : e <= delivered'
  /\ UNCHANGED <<published, first, batchOf, group, pel, acked>>

Deliver ==
  /\ Unread # {}
  /\ pel' = pel \cup Unread
  /\ delivered' \in Unread /\ \A e \in Unread : e <= delivered'
  /\ UNCHANGED <<published, first, batchOf, group, acked>>

ReadLive ==
  /\ Reading /\ ~draining
  /\ Deliver
  /\ entries' = Unread
  /\ UNCHANGED <<mode, data, unsent, draining, cur, phase, seen, scanned, historyVars>>

(* The reply is lost: the entries are pending, read() raises. *)
ReadReplyLost ==
  /\ Reading /\ ~draining
  /\ Deliver
  /\ UNCHANGED <<mode, data, unsent, workerVars, scanned, historyVars>>

-----------------------------------------------------------------------------
(* PipelineWorker.run_forever                                              *)

(* The next entry, in stream order; the engines read the database from     *)
(* here on.                                                                *)
StartEvent(e) ==
  /\ cur = 0 /\ e \in entries /\ \A f \in entries : e <= f
  /\ cur' = e /\ phase' = "process" /\ entries' = entries \ {e}
  /\ seen' = data
  /\ starts' = [starts EXCEPT ![e] = @ + 1] /\ leftover' = leftover \ {e}
  /\ UNCHANGED <<mode, data, unsent, redisVars, draining, scanned, crashes>>

ProcessOk ==
  /\ phase = "process"
  /\ phase' = "ack"
  /\ scanned' = IF seen > scanned THEN seen ELSE scanned
  /\ UNCHANGED <<mode, data, unsent, redisVars, draining, entries, cur, seen, historyVars>>

LoopOn == cur' = 0 /\ phase' = "idle" /\ seen' = 0

Ack ==
  /\ phase = "ack"
  /\ pel' = pel \ {cur} /\ acked' = acked \cup {cur}
  /\ LoopOn
  /\ UNCHANGED <<mode, data, unsent, published, first, batchOf, group, delivered,
                 draining, entries, scanned, historyVars>>

(* Mutant of EventFails: a failed event is acknowledged like any other. *)
EventFailsAcks ==
  /\ phase \in {"process", "ack"}
  /\ pel' = pel \ {cur} /\ acked' = acked \cup {cur}
  /\ LoopOn
  /\ UNCHANGED <<mode, data, unsent, published, first, batchOf, group, delivered,
                 draining, entries, scanned, historyVars>>

(* An engine or XACK raises: "left unacked for retry". *)
EventFails ==
  /\ phase \in {"process", "ack"}
  /\ LoopOn
  /\ UNCHANGED <<mode, data, unsent, redisVars, draining, entries, scanned, historyVars>>

-----------------------------------------------------------------------------
Worker ==
  \/ ReadPending \/ ReadLive \/ ReadReplyLost
  \/ \E e \in EventId : StartEvent(e)
  \/ ProcessOk \/ Ack \/ EventFails

QueueNext ==
  \/ Startup \/ Crash
  \/ \E i \in Ingester : Collect(i) \/ Publish(i) \/ PublishFails(i)
  \/ ReadPending \/ ReadLive \/ ReadReplyLost
  \/ \E e \in EventId : StartEvent(e)
  \/ ProcessOk \/ Ack \/ EventFails

QueueSpec == QueueInit /\ [][QueueNext]_queueVars

(* The event loop runs the worker whenever it can go on, and the           *)
(* supervisor starts a dead process.                                       *)
FairQueueSpec == QueueSpec /\ WF_queueVars(Startup) /\ WF_queueVars(Worker)

-----------------------------------------------------------------------------
(* Properties                                                              *)

ProcessTypes ==
  /\ mode \in {"down", "running"} /\ data \in 0..MaxBatches
  /\ unsent \in [Ingester -> 0..MaxBatches]
  /\ crashes \in 0..MaxCrashes
StreamTypes ==
  /\ published \in 0..MaxEvents /\ first \in EventId
  /\ batchOf \in [EventId -> 0..MaxBatches]
GroupTypes ==
  /\ group \in BOOLEAN /\ delivered \in 0..MaxEvents
  /\ pel \subseteq EventId /\ acked \subseteq EventId /\ leftover \subseteq EventId
WorkerTypes ==
  /\ draining \in BOOLEAN /\ entries \subseteq EventId
  /\ cur \in 0..MaxEvents /\ phase \in {"idle", "process", "ack"}
  /\ seen \in 0..MaxBatches /\ scanned \in 0..MaxBatches
  /\ starts \in [EventId -> Nat]

(* Type invariant. *)
QueueTypeOK == ProcessTypes /\ StreamTypes /\ GroupTypes /\ WorkerTypes

(* An acknowledged event's prices have been through a complete run of the  *)
(* feature, scanner and decision engines: commit before publish, publish   *)
(* before read, _process before ack.                                       *)
AckMeansScanned == \A e \in acked : batchOf[e] # 0 /\ batchOf[e] <= scanned

(* Events the worker was never given: dropped from the stream unread. *)
Missed ==
  {e \in 1..published : e \notin pel \cup acked /\ (e <= delivered \/ e < first)}

(* Only the length limit loses events: one that was never handed out is at *)
(* least MaxLen events old, also when the group was created late.          *)
OnlyOldEventsMissed == \A e \in Missed : published - e >= MaxLen

(* An event is worked on at most once in the life of a process: whatever   *)
(* failed or was acknowledged, only a restart brings an event back.        *)
OncePerLife == \A e \in EventId : starts[e] <= crashes + 1

(* An event that was started is pending until it is acknowledged, so a     *)
(* crash at any point leaves it for the next process.                      *)
StartedIsPendingOrAcked == \A e \in EventId : starts[e] > 0 => e \in pel \cup acked

(* The strengthening the proofs need: batches are announced after they     *)
(* are committed, events are handed out before they are worked on, and     *)
(* nothing is left in memory by a process that is down or still draining.  *)
BatchesOK ==
  /\ \A i \in Ingester : unsent[i] <= data
  /\ \A e \in 1..published : batchOf[e] \in 1..data
HandedOutOK ==
  /\ delivered <= published /\ first <= published + 1 /\ (~group => delivered = 0)
  /\ pel \subseteq 1..delivered /\ acked \subseteq 1..delivered
  /\ entries \subseteq pel /\ cur \notin entries
  /\ phase # "idle" => cur \in pel
  /\ phase = "idle" <=> cur = 0
CoverageOK ==
  /\ seen <= data
  /\ phase = "process" => batchOf[cur] <= seen
  /\ phase = "ack" => batchOf[cur] <= scanned
StartsOK ==
  /\ mode = "down" \/ draining => entries = {} /\ \A e \in EventId : starts[e] <= crashes
  /\ \A e \in entries : starts[e] <= crashes
  /\ \A e \in EventId : e > delivered => starts[e] = 0

(* Every published event is handed out or dropped by the limit, once the   *)
(* group exists, through crashes, failed engines and lost replies.         *)
EventsAreRead ==
  \A e \in EventId :
    (group /\ e \in 1..published) ~> (e \in pel \cup acked \cup Missed)

-----------------------------------------------------------------------------
(* Claims of the repository's comments that the code does not keep         *)

(* queue.py:48-51, the first read drains the pending list before live      *)
(* reads begin.  It reads one page of it.                                  *)
DrainedBeforeLive ==
  mode = "running" /\ ~draining /\ cur = 0 /\ entries = {} => leftover = {}

(* worker.py:70-73, a failed event is left unacked for retry.  Nothing     *)
(* reads the pending list again before the next process.                   *)
FailedIsRetried ==
  \A e \in EventId : (starts[e] = 1 /\ cur # e /\ e \in pel) ~> starts[e] > 1

(* main.py:146-149, a group that could not be created at startup: the      *)
(* workers will keep retrying.  They retry reads, never the creation.      *)
GroupIsRetried == (mode = "running" /\ ~group) ~> group
=============================================================================
