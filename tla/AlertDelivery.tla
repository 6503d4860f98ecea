---------------------------- MODULE AlertDelivery ----------------------------
(***************************************************************************)
(* The life of an alert: AlertManager.process() creates a row in           *)
(* PostgreSQL and hands its id to the in-memory AlertQueue, the            *)
(* NotificationManager sends it through the Telegram bot the router picks, *)
(* the expiry job retires rows past their deadline, and a restart reloads  *)
(* what was left PENDING or RETRYING.                                      *)
(*                                                                         *)
(* Everything runs in one asyncio process, so an action is the code        *)
(* between two awaits that another coroutine can observe: one database     *)
(* transaction, one HTTP request, one queue operation.  The dedup check,   *)
(* the cooldown check and the insert of process() are one action: they are *)
(* one transaction, and the two producers never touch each other's         *)
(* fingerprints (PathOf), so nothing that runs between the reads and the   *)
(* commit can change what the reads decided for this producer's insert.    *)
(* The expiry job is two actions: it reads rows and later overwrites them  *)
(* with an UPDATE by primary key, and a delivery can commit in between.    *)
(***************************************************************************)
EXTENDS Naturals, Sequences

CONSTANTS
  Path,             \* producers: "scan" (Path A) and "momentum" (Path B)
  Fingerprint,      \* AlertDeduplicator.build_fingerprint values
  SignalOf,         \* fingerprint -> (symbol, signal_type), the cooldown key
  PathOf,           \* fingerprint -> the producer that raises it
  CategoryOf,       \* fingerprint -> alert_category of its feature snapshot
  ConfiguredBots,   \* bots with a token and a chat id
  Cooldown,         \* settings.alert_cooldown_minutes
  AlertExpiry,      \* settings.alert_expiry_minutes
  AlertMaxRetries,  \* settings.alert_max_retries
  TelegramMaxRetries, \* settings.telegram_max_retries
  RecoverLimit,     \* limit of AlertRepository.list_by_status
  MaxAlerts,        \* bound: rows ever created
  MaxTime,          \* bound: minutes the clock runs
  MaxCrashes        \* bound: process crashes

Category == {"IPO", "FNO", "NONE"}
Bot == {"ipo", "fno", "default"}

ASSUME ConstantsOK ==
  /\ Path \subseteq {"scan", "momentum"}
  /\ Fingerprint # {}
  /\ PathOf \in [Fingerprint -> Path]
  /\ CategoryOf \in [Fingerprint -> Category]
  /\ ConfiguredBots \subseteq Bot
  /\ Cooldown \in Nat /\ AlertExpiry \in Nat
  /\ AlertMaxRetries \in Nat \ {0} /\ TelegramMaxRetries \in Nat \ {0}
  /\ RecoverLimit \in Nat \ {0}
  /\ MaxAlerts \in Nat /\ MaxTime \in Nat /\ MaxCrashes \in Nat

(* A signal key belongs to one producer: scan signal types derive from the *)
(* scanner's name, momentum ones are the state names.                      *)
ASSUME SignalsPartitioned ==
  \A f, g \in Fingerprint : SignalOf[f] = SignalOf[g] => PathOf[f] = PathOf[g]

AlertId == 1..MaxAlerts
Open == {"PENDING", "RETRYING"}
Status == {"ABSENT", "PENDING", "RETRYING", "SENT", "FAILED", "EXPIRED"}
EventType == {"CREATED", "RETRYING", "SENT", "FAILED", "EXPIRED"}

VARIABLES
  clock,      \* minutes
  mode,       \* the process: down, starting (scheduler up), recovering, running
  lastId,     \* alerts.id sequence
  status, fp, createdAt, expiresAt,   \* columns of the alerts table
  events,     \* alert_events: the event types logged for each alert (the
              \* SUPPRESSED and QUEUED notes, which no code reads, left out)
  moment,     \* producer -> the `now` of its current run
  step,       \* producer -> where it stands inside process()
  held,       \* producer -> id it has committed and not yet put on the queue
  queue,      \* AlertQueue
  recoverQ,   \* ids recover_pending() has still to deliver
  cur,        \* id deliver_now() is working on, 0 when idle
  phase,      \* where deliver_now() stands
  attempt,    \* its loop counter
  try,        \* _send_with_retry's loop counter
  outcome,    \* DeliveryResult of the last send_message
  expiring,   \* rows the expiry job has read and not yet written
  crashes,
  received,   \* history: copies of the alert that reached the chat
  lost        \* history: copies whose acknowledgement the database lost

alertVars == <<status, fp, createdAt, expiresAt, events, lastId>>
producerVars == <<moment, step, held>>
deliveryVars == <<cur, phase, attempt, try, outcome>>
ghostVars == <<received, lost>>
vars == <<clock, mode, alertVars, producerVars, queue, recoverQ, deliveryVars,
          expiring, crashes, ghostVars>>

Init ==
  /\ clock = 0 /\ mode = "down" /\ lastId = 0 /\ crashes = 0
  /\ status = [a \in AlertId |-> "ABSENT"]
  /\ fp = [a \in AlertId |-> CHOOSE f \in Fingerprint : TRUE]
  /\ createdAt = [a \in AlertId |-> 0]
  /\ expiresAt = [a \in AlertId |-> 0]
  /\ events = [a \in AlertId |-> {}]
  /\ moment = [p \in Path |-> 0]
  /\ step = [p \in Path |-> "idle"]
  /\ held = [p \in Path |-> 0]
  /\ queue = <<>> /\ recoverQ = <<>>
  /\ cur = 0 /\ phase = "idle" /\ attempt = 0 /\ try = 0 /\ outcome = "none"
  /\ expiring = {}
  /\ received = [a \in AlertId |-> 0]
  /\ lost = [a \in AlertId |-> 0]

Created == 1..lastId
LogEvent(S, e) == [a \in AlertId |-> IF a \in S THEN events[a] \cup {e} ELSE events[a]]

-----------------------------------------------------------------------------
(* AlertManager                                                            *)

(* get_by_fingerprint: the most recent row, by id. *)
LatestFor(f) == {a \in Created : fp[a] = f /\ \A b \in Created : fp[b] = f => b <= a}

(* Mutant of DuplicateOf: a FAILED alert no longer suppresses. *)
DuplicateOfUnfailed(f) == {a \in LatestFor(f) : status[a] \notin {"EXPIRED", "FAILED"}}

(* AlertDeduplicator.check: the rows that suppress a new alert for f. *)
DuplicateOf(f) == {a \in LatestFor(f) : status[a] \notin {"EXPIRED"}}

(* Mutant of CoolingDown: the boundary minute is free. *)
CoolingDownStrict(f, now) ==
  {a \in Created : SignalOf[fp[a]] = SignalOf[f] /\ createdAt[a] + Cooldown > now}

(* AlertThrottler.check: any row of the same symbol and signal type        *)
(* created at or after now - cooldown.                                     *)
CoolingDown(f, now) ==
  {a \in Created : SignalOf[fp[a]] = SignalOf[f] /\ createdAt[a] + Cooldown >= now}

(* A producer runs only while its loop does: the scheduler starts before   *)
(* recovery, the pipeline worker after it.                                 *)
Alive(p) == IF p = "momentum" THEN mode # "down" ELSE mode = "running"

(* run_all() takes its `now` once and uses it for every candidate. *)
BeginRun(p) ==
  /\ Alive(p) /\ step[p] \in {"idle", "run"}
  /\ moment' = [moment EXCEPT ![p] = clock]
  /\ step' = [step EXCEPT ![p] = "run"]
  /\ UNCHANGED <<clock, mode, alertVars, held, queue, recoverQ,
                 deliveryVars, expiring, crashes, ghostVars>>

(* process() up to the first commit: a PENDING row, unless a duplicate or  *)
(* the cooldown suppresses it (return None; the SUPPRESSED event it leaves *)
(* on the blocking row is not kept, see events).                           *)
Process(p, f) ==
  /\ step[p] = "run" /\ PathOf[f] = p
  /\ DuplicateOf(f) = {} /\ CoolingDown(f, moment[p]) = {}
  /\ lastId < MaxAlerts /\ moment[p] + AlertExpiry <= MaxTime
  /\ lastId' = lastId + 1
  /\ fp' = [fp EXCEPT ![lastId + 1] = f]
  /\ status' = [status EXCEPT ![lastId + 1] = "PENDING"]
  /\ createdAt' = [createdAt EXCEPT ![lastId + 1] = clock]
  /\ expiresAt' = [expiresAt EXCEPT ![lastId + 1] = moment[p] + AlertExpiry]
  /\ events' = LogEvent({lastId + 1}, "CREATED")
  /\ step' = [step EXCEPT ![p] = "put"]
  /\ held' = [held EXCEPT ![p] = lastId + 1]
  /\ UNCHANGED <<clock, mode, moment, queue, recoverQ, deliveryVars, expiring,
                 crashes, ghostVars>>

(* self._queue.put(alert_id): after the commit, in memory only. *)
Put(p) ==
  /\ step[p] = "put"
  /\ queue' = Append(queue, held[p])
  /\ step' = [step EXCEPT ![p] = "run"]
  /\ held' = [held EXCEPT ![p] = 0]
  /\ UNCHANGED <<clock, mode, alertVars, moment, recoverQ, deliveryVars,
                 expiring, crashes, ghostVars>>

-----------------------------------------------------------------------------
(* NotificationManager, NotificationRouter and TelegramProvider            *)

Resolve(category) ==
  CASE category = "IPO" -> "ipo" [] category = "FNO" -> "fno" [] OTHER -> "default"

Configured(a) == Resolve(CategoryOf[fp[a]]) \in ConfiguredBots

(* Mutant of StartDelivery: no check for SENT. *)
StartDeliveryAlways(a) ==
  cur' = a /\ phase' = "send" /\ attempt' = 1 /\ try' = 1 /\ outcome' = "none"

(* deliver_now() up to the first send: anything but SENT is sent, also an  *)
(* EXPIRED or FAILED row.                                                  *)
StartDelivery(a) ==
  IF status[a] = "SENT"
    THEN UNCHANGED deliveryVars
    ELSE /\ cur' = a /\ phase' = "send" /\ attempt' = 1 /\ try' = 1
         /\ outcome' = "none"

(* run_forever: take the next id off the queue. *)
TakeFromQueue ==
  /\ mode = "running" /\ cur = 0 /\ queue # <<>>
  /\ queue' = Tail(queue)
  /\ StartDelivery(Head(queue))
  /\ UNCHANGED <<clock, mode, alertVars, producerVars, recoverQ, expiring,
                 crashes, ghostVars>>

(* One pass of _send_with_retry.  A timed-out request may have reached the *)
(* chat; a transient answer is retried until the attempts are spent.       *)
SendMessage ==
  /\ phase = "send"
  /\ \/ /\ ~Configured(cur)
        /\ phase' = "record" /\ outcome' = "permanent"
        /\ UNCHANGED <<try, ghostVars>>
     \/ /\ Configured(cur)
        /\ phase' = "record" /\ outcome' = "ok"
        /\ received' = [received EXCEPT ![cur] = @ + 1]
        /\ UNCHANGED <<try, lost>>
     \/ /\ Configured(cur)
        /\ phase' = "record" /\ outcome' = "permanent"
        /\ UNCHANGED <<try, ghostVars>>
     \/ /\ Configured(cur)
        /\ \/ UNCHANGED ghostVars
           \/ /\ received' = [received EXCEPT ![cur] = @ + 1]
              /\ lost' = [lost EXCEPT ![cur] = @ + 1]
        /\ IF try < TelegramMaxRetries
             THEN try' = try + 1 /\ UNCHANGED <<phase, outcome>>
             ELSE phase' = "record" /\ outcome' = "transient" /\ UNCHANGED try
  /\ UNCHANGED <<clock, mode, alertVars, producerVars, queue, recoverQ, cur,
                 attempt, expiring, crashes>>

(* Mutants of ResultStatus: one attempt too many; a success retried. *)
ResultStatusOneMore ==
  CASE outcome = "ok" -> "SENT"
    [] outcome = "permanent" -> "FAILED"
    [] outcome = "transient" /\ attempt > AlertMaxRetries -> "FAILED"
    [] OTHER -> "RETRYING"
ResultStatusRetriesOk ==
  CASE outcome = "permanent" -> "FAILED"
    [] outcome # "permanent" /\ attempt >= AlertMaxRetries -> "FAILED"
    [] OTHER -> "RETRYING"

(* The status deliver_now() writes after an attempt, whatever the row's    *)
(* status has become meanwhile.                                            *)
ResultStatus ==
  CASE outcome = "ok" -> "SENT"
    [] outcome = "permanent" -> "FAILED"
    [] outcome = "transient" /\ attempt >= AlertMaxRetries -> "FAILED"
    [] OTHER -> "RETRYING"

DeliveryDone == cur' = 0 /\ phase' = "idle" /\ attempt' = 0 /\ try' = 0 /\ outcome' = "none"

(* Mutant of RecordResult: no return after SENT, the loop sends again. *)
RecordResultLoops ==
  /\ phase = "record"
  /\ status' = [status EXCEPT ![cur] = ResultStatus]
  /\ events' = LogEvent({cur}, ResultStatus)
  /\ IF attempt < AlertMaxRetries
       THEN phase' = "sleep" /\ outcome' = "none" /\ UNCHANGED <<cur, attempt, try>>
       ELSE DeliveryDone
  /\ UNCHANGED <<clock, mode, lastId, fp, createdAt, expiresAt, producerVars,
                 queue, recoverQ, expiring, crashes, ghostVars>>

RecordResult ==
  /\ phase = "record"
  /\ status' = [status EXCEPT ![cur] = ResultStatus]
  /\ events' = LogEvent({cur}, ResultStatus)
  /\ IF ResultStatus = "RETRYING"
       THEN phase' = "sleep" /\ outcome' = "none" /\ UNCHANGED <<cur, attempt, try>>
       ELSE DeliveryDone
  /\ UNCHANGED <<clock, mode, lastId, fp, createdAt, expiresAt, producerVars,
                 queue, recoverQ, expiring, crashes, ghostVars>>

(* A database error before the first request of an attempt (get_by_id,     *)
(* _format) or in the transaction that records it: the caller's loop logs  *)
(* it and goes on, the row keeps its status.                               *)
DeliveryRaises ==
  /\ phase = "record" \/ (phase = "send" /\ try = 1)
  /\ lost' = IF phase = "record" /\ outcome = "ok"
               THEN [lost EXCEPT ![cur] = @ + 1] ELSE lost
  /\ DeliveryDone
  /\ UNCHANGED <<clock, mode, alertVars, producerVars, queue, recoverQ,
                 expiring, crashes, received>>

(* After the backoff the loop starts its next attempt. *)
RetryAfterSleep ==
  /\ phase = "sleep"
  /\ phase' = "send" /\ attempt' = attempt + 1 /\ try' = 1
  /\ UNCHANGED <<clock, mode, alertVars, producerVars, queue, recoverQ, cur,
                 outcome, expiring, crashes, ghostVars>>

-----------------------------------------------------------------------------
(* The expiry job                                                          *)

(* Mutant of Stale: RETRYING rows never expire. *)
StalePending == {a \in Created : status[a] = "PENDING" /\ expiresAt[a] <= clock}

Stale == {a \in Created : status[a] \in Open /\ expiresAt[a] <= clock}

ExpireRead ==
  /\ mode # "down" /\ expiring = {} /\ Stale # {}
  /\ expiring' = Stale
  /\ UNCHANGED <<clock, mode, alertVars, producerVars, queue, recoverQ,
                 deliveryVars, crashes, ghostVars>>

(* Mutant of ExpireWrite: no event logged. *)
ExpireWriteSilent ==
  /\ expiring # {}
  /\ status' = [a \in AlertId |-> IF a \in expiring THEN "EXPIRED" ELSE status[a]]
  /\ lost' = [a \in AlertId |->
                IF a \in expiring /\ status[a] = "SENT" THEN lost[a] + 1 ELSE lost[a]]
  /\ expiring' = {}
  /\ UNCHANGED <<clock, mode, lastId, fp, createdAt, expiresAt, events, producerVars,
                 queue, recoverQ, deliveryVars, crashes, received>>

ExpireWrite ==
  /\ expiring # {}
  /\ status' = [a \in AlertId |-> IF a \in expiring THEN "EXPIRED" ELSE status[a]]
  /\ events' = LogEvent(expiring, "EXPIRED")
  /\ lost' = [a \in AlertId |->
                IF a \in expiring /\ status[a] = "SENT" THEN lost[a] + 1 ELSE lost[a]]
  /\ expiring' = {}
  /\ UNCHANGED <<clock, mode, lastId, fp, createdAt, expiresAt, producerVars,
                 queue, recoverQ, deliveryVars, crashes, received>>

-----------------------------------------------------------------------------
(* The process                                                             *)

(* lifespan() up to scheduler_service.start(). *)
Startup ==
  /\ mode = "down" /\ mode' = "starting"
  /\ UNCHANGED <<clock, alertVars, producerVars, queue, recoverQ, deliveryVars,
                 expiring, crashes, ghostVars>>

(* recover_pending reads the open rows once, ordered by created_at (ties   *)
(* in any order), up to the limit.                                         *)
OpenRows == {a \in Created : status[a] \in Open}
IsRecoveryList(s) ==
  /\ \A i \in 1..Len(s) : s[i] \in OpenRows
  /\ \A i, j \in 1..Len(s) : i < j => s[i] # s[j] /\ createdAt[s[i]] <= createdAt[s[j]]
  /\ \A a \in OpenRows :
       \/ \E i \in 1..Len(s) : s[i] = a
       \/ Len(s) = RecoverLimit /\ createdAt[s[RecoverLimit]] <= createdAt[a]

RecoverList ==
  /\ mode = "starting" /\ mode' = "recovering"
  /\ \E n \in 0..MaxAlerts : n <= RecoverLimit /\ \E s \in [1..n -> AlertId] :
       IsRecoveryList(s) /\ recoverQ' = s
  /\ UNCHANGED <<clock, alertVars, producerVars, queue, deliveryVars, expiring,
                 crashes, ghostVars>>

RecoverNext ==
  /\ mode = "recovering" /\ cur = 0 /\ recoverQ # <<>>
  /\ recoverQ' = Tail(recoverQ)
  /\ StartDelivery(Head(recoverQ))
  /\ UNCHANGED <<clock, mode, alertVars, producerVars, queue, expiring, crashes,
                 ghostVars>>

(* create_task(notification_manager.run_forever()) and the other workers. *)
StartWorkers ==
  /\ mode = "recovering" /\ cur = 0 /\ recoverQ = <<>>
  /\ mode' = "running"
  /\ UNCHANGED <<clock, alertVars, producerVars, queue, recoverQ, deliveryVars,
                 expiring, crashes, ghostVars>>

(* The process dies (or is cancelled at shutdown): what is not in          *)
(* PostgreSQL is gone.                                                     *)
Crash ==
  /\ mode # "down" /\ crashes < MaxCrashes
  /\ crashes' = crashes + 1 /\ mode' = "down"
  /\ step' = [p \in Path |-> "idle"] /\ held' = [p \in Path |-> 0]
  /\ moment' = [p \in Path |-> 0]
  /\ queue' = <<>> /\ recoverQ' = <<>> /\ expiring' = {}
  /\ lost' = IF phase = "record" /\ outcome = "ok"
               THEN [lost EXCEPT ![cur] = @ + 1] ELSE lost
  /\ DeliveryDone
  /\ UNCHANGED <<clock, alertVars, received>>

Tick ==
  /\ clock < MaxTime /\ clock' = clock + 1
  /\ UNCHANGED <<mode, alertVars, producerVars, queue, recoverQ, deliveryVars,
                 expiring, crashes, ghostVars>>

-----------------------------------------------------------------------------
Deliver == TakeFromQueue \/ SendMessage \/ RecordResult \/ DeliveryRaises \/ RetryAfterSleep
Boot == Startup \/ RecoverList \/ RecoverNext \/ StartWorkers
Expire == ExpireRead \/ ExpireWrite

Next ==
  \/ \E p \in Path : BeginRun(p) \/ Put(p)
  \/ \E p \in Path, f \in Fingerprint : Process(p, f)
  \/ TakeFromQueue \/ SendMessage \/ RecordResult \/ DeliveryRaises \/ RetryAfterSleep
  \/ ExpireRead \/ ExpireWrite
  \/ Startup \/ RecoverList \/ RecoverNext \/ StartWorkers
  \/ Crash \/ Tick

Spec == Init /\ [][Next]_vars

(* Every coroutine that can run is eventually run by the event loop, the   *)
(* supervisor restarts the process, and time passes.  Producers and        *)
(* crashes owe nothing.                                                    *)
FairSpec ==
  /\ Spec
  /\ WF_vars(Deliver) /\ WF_vars(Boot) /\ WF_vars(Expire) /\ WF_vars(Tick)
  /\ \A p \in Path : WF_vars(Put(p))

-----------------------------------------------------------------------------
(* Properties                                                              *)

ProcessTypes ==
  /\ clock \in 0..MaxTime /\ crashes \in 0..MaxCrashes
  /\ mode \in {"down", "starting", "recovering", "running"}
RowTypes ==
  /\ lastId \in 0..MaxAlerts
  /\ status \in [AlertId -> Status]
  /\ fp \in [AlertId -> Fingerprint]
  /\ createdAt \in [AlertId -> 0..MaxTime]
  /\ expiresAt \in [AlertId -> 0..MaxTime]
  /\ events \in [AlertId -> SUBSET EventType]
ProducerTypes ==
  /\ moment \in [Path -> 0..MaxTime]
  /\ step \in [Path -> {"idle", "run", "put"}]
  /\ held \in [Path -> 0..MaxAlerts]
QueueTypes ==
  /\ queue \in Seq(AlertId) /\ recoverQ \in Seq(AlertId)
  /\ expiring \subseteq AlertId
DeliveryTypes ==
  /\ cur \in 0..MaxAlerts
  /\ phase \in {"idle", "send", "record", "sleep"}
  /\ attempt \in 0..AlertMaxRetries /\ try \in 0..TelegramMaxRetries
  /\ outcome \in {"none", "ok", "permanent", "transient"}
GhostTypes == received \in [AlertId -> Nat] /\ lost \in [AlertId -> Nat]

(* Type invariant. *)
TypeOK == ProcessTypes /\ RowTypes /\ ProducerTypes /\ QueueTypes /\ DeliveryTypes /\ GhostTypes

(* A second row with the same fingerprint exists only after every earlier  *)
(* one was expired by the expiry job (the "no duplicate alert" key of      *)
(* AlertDeduplicator, read through the audit trail).                       *)
ReissueOnlyAfterExpiry ==
  \A a, b \in Created : a < b /\ fp[a] = fp[b] => "EXPIRED" \in events[a]

(* Two alerts for the same symbol and signal type are more than the        *)
(* cooldown apart, although the throttler compares the database clock with *)
(* the `now` a run took when it began.                                     *)
CooldownSpacing ==
  \A a, b \in Created :
    a < b /\ SignalOf[fp[a]] = SignalOf[fp[b]] => createdAt[a] + Cooldown < createdAt[b]

(* The audit trail backs the status column: a row SENT, FAILED, RETRYING   *)
(* or EXPIRED has the event of that name.                                  *)
StatusHasEvent ==
  \A a \in Created :
    /\ "CREATED" \in events[a]
    /\ status[a] # "PENDING" => status[a] \in events[a]

(* Copies of one alert beyond the first are each explained by an           *)
(* acknowledgement the database lost: a timed-out request that had been    *)
(* accepted, a crash or a failed transaction between the send and the      *)
(* SENT commit, or the expiry job overwriting SENT.                        *)
DuplicatesAreLostAcks ==
  \A a \in Created : received[a] <= lost[a] + 1

(* While a row is SENT no copy of it is sent: deliver_now() skips it when  *)
(* it comes up a second time (recovery and queue can both hold the id).    *)
SentIsNotResent ==
  [][\A a \in AlertId : status[a] = "SENT" => received'[a] = received[a]]_vars

(* The strengthening the proofs need: rows that do not exist yet, clocks,  *)
(* ids held in memory, and where deliver_now() can stand.                  *)
Acknowledged(a) == status[a] = "SENT" \/ (phase = "record" /\ outcome = "ok" /\ cur = a)

RowsOK ==
  /\ \A a \in AlertId : a > lastId => status[a] = "ABSENT"
  /\ \A a \in Created : createdAt[a] <= clock
  /\ \A p \in Path : moment[p] <= clock
IdsOK ==
  /\ \A p \in Path : step[p] = "put" => held[p] \in Created
  /\ \A i \in 1..Len(queue) : queue[i] \in Created
  /\ \A i \in 1..Len(recoverQ) : recoverQ[i] \in Created
  /\ expiring \subseteq Created
DeliveryOK ==
  /\ phase # "idle" => /\ cur \in Created
                       /\ attempt \in 1..AlertMaxRetries
                       /\ status[cur] # "SENT"
  /\ phase = "sleep" => attempt < AlertMaxRetries
  /\ phase = "record" => outcome # "none"
AcksOK ==
  \A a \in AlertId :
    /\ received[a] <= lost[a] + 1
    /\ ~Acknowledged(a) => received[a] <= lost[a]

(* Every alert is settled: it does not stay PENDING or RETRYING for ever,  *)
(* through crashes, failed transactions and recovery's limit.              *)
AlertsSettle ==
  \A a \in AlertId : status[a] \in Open ~> status[a] \in {"SENT", "FAILED", "EXPIRED"}

-----------------------------------------------------------------------------
(* Claims of the repository's comments that the code does not keep         *)

(* alerts/deduplicator.py:4-6 and README "No duplicate alerts": one active *)
(* alert per fingerprint.  The worker still sends an EXPIRED row and makes *)
(* it SENT beside the fresh row that its expiry allowed.                   *)
OneActivePerFingerprint ==
  \A a, b \in Created :
    a # b /\ fp[a] = fp[b] => "EXPIRED" \in {status[a], status[b]}

(* alert_repository.py:138, expire_stale marks PENDING and RETRYING rows.  *)
(* It writes by primary key what it read earlier, so a row that was SENT   *)
(* in between becomes EXPIRED.                                             *)
ExpiryKeepsSent ==
  [][\A a \in AlertId : status[a] = "SENT" => status'[a] # "EXPIRED"]_vars

(* notifications/router.py:17-19, an alert whose provider is not           *)
(* configured stays PENDING/RETRYING.  The provider answers "not           *)
(* retryable", which deliver_now() turns into FAILED.                      *)
UnconfiguredStaysOpen ==
  \A a \in Created : ~Configured(a) => status[a] \in Open \cup {"EXPIRED"}
=============================================================================
