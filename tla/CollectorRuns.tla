----------------------------- MODULE CollectorRuns -----------------------------
(***************************************************************************)
(* The runs of MarketDataCollector over the one provider instance of the   *)
(* process: the ingestion sweep, the feed's gap-fill, the daily candles    *)
(* and the symbol refresh.  A run opens a log row, connects the provider   *)
(* if it has to, fetches its items one after the other and records the     *)
(* outcome.  The provider paces, retries and times out every request; its  *)
(* connection flag and the time of its last call are shared by all runs.   *)
(* Time passes in ticks; clocks are kept as the ticks since an event.      *)
(***************************************************************************)
EXTENDS Integers, FiniteSets

CONSTANTS
  Job,         \* runs that may overlap: a subset of AllJobs
  Items,       \* bound: symbols a candle run fetches
  MaxRetries,  \* ..._max_retries
  Interval,    \* ticks between two calls: 1 / ..._rate_limit_per_sec
  Backoff,     \* ..._retry_backoff_seconds
  MaxLost      \* bound: runs cancelled or broken by the database

AllJobs == {"sweep", "gapfill", "daily", "symbols"}

ASSUME ConstantsOK ==
  /\ Job \subseteq AllJobs /\ Items \in Nat /\ MaxRetries \in Nat \ {0}
  /\ Interval \in Nat \ {0} /\ Backoff \in Nat /\ MaxLost \in Nat

VARIABLES
  broker,     \* active_market_data_provider, "upstox" or "fivepaisa"
  accepted,   \* whether the broker accepts the credentials (external)
  connected,  \* the provider's _connected
  sinceCall,  \* ticks since _last_call_at, Interval when it is longer ago
  pc, left, tries, wait, \* of each run: its place, items to fetch, attempts
                         \* for the current one, ticks it still sleeps
  failed,     \* of each run: whether it was aborted
  openLogs,   \* collector_logs rows without finish_time
  \* history
  mine,       \* job -> ticks since its own last request, at most Interval
  lost

runVars == <<pc, left, tries, wait, failed>>
vars == <<broker, accepted, connected, sinceCall, runVars, openLogs, mine, lost>>

Place == {"idle", "connect", "next", "pace", "ready", "paced", "sent", "backoff", "record", "finish"}

Init ==
  /\ broker \in {"upstox", "fivepaisa"} /\ accepted \in BOOLEAN /\ connected \in BOOLEAN
  /\ connected => accepted
  /\ sinceCall = Interval /\ pc = [j \in Job |-> "idle"] /\ left = [j \in Job |-> 0]
  /\ tries = [j \in Job |-> 0] /\ wait = [j \in Job |-> 0]
  /\ failed = [j \in Job |-> FALSE]
  /\ openLogs = 0 /\ mine = [j \in Job |-> Interval] /\ lost = 0

-----------------------------------------------------------------------------
(* Time and the broker                                                     *)

Later(n) == IF n < Interval THEN n + 1 ELSE n

Tick ==
  /\ sinceCall' = Later(sinceCall)
  /\ mine' = [j \in Job |-> Later(mine[j])]
  /\ wait' = [j \in Job |-> IF wait[j] > 0 THEN wait[j] - 1 ELSE 0]
  /\ UNCHANGED <<broker, accepted, connected, pc, left, tries, failed, openLogs, lost>>

(* The token expires, the broker accepts it again. *)
Credentials ==
  /\ accepted' = ~accepted
  /\ UNCHANGED <<broker, connected, sinceCall, runVars, openLogs, mine, lost>>

-----------------------------------------------------------------------------
(* MarketDataCollector._run                                                *)

Goto(j, place) == pc' = [pc EXCEPT ![j] = place]

(* Mutant of FirstPlace: the run trusts the connection. *)
FirstPlaceConnected == "next"

FirstPlace == IF connected THEN "next" ELSE "connect"

Start(j) ==
  /\ pc[j] = "idle" /\ Goto(j, FirstPlace)
  /\ left' = [left EXCEPT ![j] = IF j = "symbols" THEN 1 ELSE Items]
  /\ openLogs' = openLogs + 1
  /\ UNCHANGED <<broker, accepted, connected, sinceCall, tries, wait, failed, mine, lost>>

(* A ProviderError, or any exception of the implementation. *)
Abort(j) ==
  /\ Goto(j, "record") /\ failed' = [failed EXCEPT ![j] = TRUE]
  /\ tries' = [tries EXCEPT ![j] = 0] /\ left' = [left EXCEPT ![j] = 0]

(* connect() before a run: a network failure and a rejection abort it. *)
ConnectAnswer(j, ok) ==
  /\ pc[j] = "connect"
  /\ ok => accepted
  /\ connected' = ok
  /\ IF ok THEN Goto(j, "next") /\ UNCHANGED <<left, tries, failed>> ELSE Abort(j)
  /\ UNCHANGED <<broker, accepted, sinceCall, wait, openLogs, mine, lost>>

NextItem(j) ==
  /\ pc[j] = "next"
  /\ IF left[j] = 0 THEN Goto(j, "record") /\ UNCHANGED tries
     ELSE Goto(j, "pace") /\ tries' = [tries EXCEPT ![j] = 1]
  /\ UNCHANGED <<broker, accepted, connected, sinceCall, left, wait, failed, openLogs, mine, lost>>

(* The failure of one symbol is counted and skipped; the symbol refresh    *)
(* has nothing else to do.                                                 *)
ItemFails(j) ==
  IF j = "symbols" THEN Abort(j)
  ELSE /\ Goto(j, "next") /\ left' = [left EXCEPT ![j] = @ - 1]
       /\ tries' = [tries EXCEPT ![j] = 0] /\ UNCHANGED failed

(* record_success or record_failure. *)
Record(j) ==
  /\ pc[j] = "record" /\ Goto(j, "finish")
  /\ UNCHANGED <<broker, accepted, connected, sinceCall, left, tries, wait, failed, openLogs, mine, lost>>

(* Mutant of Finish: the log row of an aborted run is not closed. *)
FinishUnlessFailed(j) ==
  /\ pc[j] = "finish" /\ Goto(j, "idle") /\ failed' = [failed EXCEPT ![j] = FALSE]
  /\ openLogs' = IF failed[j] THEN openLogs ELSE openLogs - 1
  /\ UNCHANGED <<broker, accepted, connected, sinceCall, left, tries, wait, mine, lost>>

Finish(j) ==
  /\ pc[j] = "finish" /\ Goto(j, "idle")
  /\ failed' = [failed EXCEPT ![j] = FALSE] /\ openLogs' = openLogs - 1
  /\ UNCHANGED <<broker, accepted, connected, sinceCall, left, tries, wait, mine, lost>>

(* The gap-fill's timeout cancels its run wherever it waits, and the       *)
(* database may fail _run's own bookkeeping: the log row stays open.       *)
Lose(j) ==
  /\ pc[j] # "idle" /\ lost < MaxLost /\ lost' = lost + 1
  /\ j = "gapfill" \/ pc[j] \in {"record", "finish"}
  /\ Goto(j, "idle") /\ left' = [left EXCEPT ![j] = 0]
  /\ tries' = [tries EXCEPT ![j] = 0] /\ wait' = [wait EXCEPT ![j] = 0]
  /\ failed' = [failed EXCEPT ![j] = FALSE]
  /\ UNCHANGED <<broker, accepted, connected, sinceCall, openLogs, mine>>

-----------------------------------------------------------------------------
(* One request of the provider: _request, _download_instruments,           *)
(* _call_with_retry                                                        *)

(* Upstox's instruments file is a plain download.                          *)
Paced(j) == broker = "fivepaisa" \/ j # "symbols"

(* FivePaisa connects again before an attempt. *)
Reconnect(j, ok) ==
  /\ pc[j] = "pace" /\ broker = "fivepaisa" /\ ~connected
  /\ ok => accepted
  /\ connected' = ok
  /\ IF ok THEN Goto(j, "ready") /\ UNCHANGED <<left, tries, failed>> ELSE ItemFails(j)
  /\ UNCHANGED <<broker, accepted, sinceCall, wait, openLogs, mine, lost>>

(* The connection is looked at once, before the pause. *)
Ready(j) == pc[j] = "ready" \/ (pc[j] = "pace" /\ (broker = "fivepaisa" => connected))

Send(j) ==
  /\ Goto(j, "sent")
  /\ IF Paced(j) THEN sinceCall' = 0 /\ mine' = [mine EXCEPT ![j] = 0]
     ELSE UNCHANGED <<sinceCall, mine>>

(* Mutant of Delay: the pause is not computed from the last call. *)
DelayNone == 0

Delay == Interval - sinceCall

(* _respect_rate_limit sleeps, or sends at once. *)
Pace(j) ==
  /\ Ready(j)
  /\ IF Paced(j) /\ Delay > 0
     THEN Goto(j, "paced") /\ wait' = [wait EXCEPT ![j] = Delay] /\ UNCHANGED <<sinceCall, mine>>
     ELSE Send(j) /\ UNCHANGED wait
  /\ UNCHANGED <<broker, accepted, connected, left, tries, failed, openLogs, lost>>

(* The sleep is over: the call goes out whatever others sent meanwhile. *)
Wake(j) ==
  /\ pc[j] = "paced" /\ wait[j] = 0 /\ Send(j)
  /\ UNCHANGED <<broker, accepted, connected, left, tries, wait, failed, openLogs, lost>>

(* Data, possibly none, and the transaction that stores it. *)
Answer(j) ==
  /\ pc[j] = "sent" /\ (accepted \/ ~Paced(j))
  /\ Goto(j, "next") /\ left' = [left EXCEPT ![j] = @ - 1]
  /\ tries' = [tries EXCEPT ![j] = 0]
  /\ UNCHANGED <<broker, accepted, connected, sinceCall, wait, failed, openLogs, mine, lost>>

MayRetry(j) == tries[j] < MaxRetries

(* To FivePaisa's client anything but a timeout may mean a dead session. *)
ConnectedAfterError == IF broker = "fivepaisa" THEN {connected, FALSE} ELSE {connected}

(* A timeout, a network error, 429 or 5xx. *)
Transient(j) ==
  /\ pc[j] = "sent"
  /\ IF MayRetry(j)
     THEN /\ Goto(j, "backoff") /\ wait' = [wait EXCEPT ![j] = Backoff * tries[j]]
          /\ UNCHANGED <<left, tries, failed>>
     ELSE ItemFails(j) /\ UNCHANGED wait
  /\ connected' \in ConnectedAfterError
  /\ UNCHANGED <<broker, accepted, sinceCall, openLogs, mine, lost>>

(* Mutant of BackoffEnds: the attempt is not counted. *)
BackoffEndsUncounted(j) ==
  /\ pc[j] = "backoff" /\ wait[j] = 0 /\ Goto(j, "pace")
  /\ UNCHANGED <<broker, accepted, connected, sinceCall, left, tries, wait, failed, openLogs, mine, lost>>

BackoffEnds(j) ==
  /\ pc[j] = "backoff" /\ wait[j] = 0
  /\ Goto(j, "pace") /\ tries' = [tries EXCEPT ![j] = @ + 1]
  /\ UNCHANGED <<broker, accepted, connected, sinceCall, left, wait, failed, openLogs, mine, lost>>

(* 401 to an authenticated Upstox call; the run goes on without a new      *)
(* connection.                                                             *)
Denied(j) ==
  /\ pc[j] = "sent" /\ broker = "upstox" /\ Paced(j) /\ ~accepted
  /\ connected' = FALSE /\ ItemFails(j)
  /\ UNCHANGED <<broker, accepted, sinceCall, wait, openLogs, mine, lost>>

(* Any other refusal, an unknown symbol, a failing transaction. *)
Permanent(j) ==
  /\ pc[j] = "sent" /\ ItemFails(j)
  /\ UNCHANGED <<broker, accepted, connected, sinceCall, wait, openLogs, mine, lost>>

-----------------------------------------------------------------------------
Fetching(j) ==
  \/ Pace(j) \/ Wake(j) \/ Answer(j) \/ Transient(j) \/ BackoffEnds(j)
  \/ Denied(j) \/ Permanent(j)
  \/ \E ok \in BOOLEAN : Reconnect(j, ok)

Running(j) ==
  \/ NextItem(j) \/ Record(j) \/ Finish(j) \/ Fetching(j)
  \/ \E ok \in BOOLEAN : ConnectAnswer(j, ok)

Next ==
  \/ Tick \/ Credentials
  \/ \E j \in Job : Start(j) \/ Running(j) \/ Lose(j)

Spec == Init /\ [][Next]_vars

(* Requests and connects have timeouts, so each is answered in the end;    *)
(* jobs are started again and again; a connect that can succeed does so    *)
(* now and then.                                                           *)
FairSpec ==
  /\ Spec /\ WF_vars(Tick)
  /\ \A j \in Job : /\ WF_vars(Running(j)) /\ WF_vars(Start(j))
                    /\ SF_vars(ConnectAnswer(j, TRUE))

-----------------------------------------------------------------------------
(* Properties                                                              *)

ClockOK == sinceCall \in 0..Interval /\ mine \in [Job -> 0..Interval]
RunOK ==
  /\ pc \in [Job -> Place] /\ left \in [Job -> Nat]
  /\ tries \in [Job -> 0..MaxRetries] /\ wait \in [Job -> Nat] /\ failed \in [Job -> BOOLEAN]

(* Every variable has its type; a symbol is tried at most MaxRetries       *)
(* times, and the collector log has a row open for every running job.      *)
TypeOK ==
  /\ broker \in {"upstox", "fivepaisa"} /\ accepted \in BOOLEAN /\ connected \in BOOLEAN
  /\ ClockOK /\ RunOK /\ lost \in 0..MaxLost
  /\ openLogs = lost + Cardinality({j \in Job : pc[j] # "idle"})

Sends(j) == pc[j] # "sent" /\ pc'[j] = "sent" /\ Paced(j)

(* A run never sends two requests within one interval, whatever the other  *)
(* runs do, so at most one request per overlapping run falls into an       *)
(* interval (_respect_rate_limit, shared _last_call_at, no lock).          *)
PacedPerRun == [][\A j \in Job : Sends(j) => mine[j] = Interval]_vars

(* What the settings ask for: two requests of the provider are an interval *)
(* apart.  Violated by two runs that sleep for the same moment.            *)
PacedOverall == [][\A j \in Job : Sends(j) => sinceCall = Interval]_vars

(* Every run ends: timeouts bound each call, retries are counted, and no   *)
(* failure of one symbol keeps the next from being fetched.                *)
RunEnds == \A j \in Job : pc[j] # "idle" ~> pc[j] = "idle"

(* If the broker accepts the credentials for good, the provider is         *)
(* connected again and again: a rejected token does not disable it until   *)
(* a restart.                                                              *)
Recovers == <>[]accepted => []<>connected
=============================================================================
