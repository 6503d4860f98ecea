----------------------------- MODULE MarketFeed -----------------------------
(***************************************************************************)
(* The Upstox websocket feed.  Trades happen at the exchange; while the    *)
(* connection is subscribed their ticks reach the socket, otherwise they   *)
(* are lost to it.  TickAggregator folds ticks into one-minute bars in     *)
(* memory, _flush writes the completed bars, and every (re)connect runs a  *)
(* REST gap-fill that races its own timeout and the REST sweep of the      *)
(* ingestion worker.  A bar is represented by its volume (each trade has   *)
(* quantity one), which tells how much of the minute it contains.          *)
(***************************************************************************)
EXTENDS Integers, Sequences, FiniteSets

CONSTANTS
  Key,        \* instrument keys
  Rest,       \* callers of collect_intraday: "gapfill", and "sweep" when the
              \* market is open
  MaxMinute,  \* bound: minutes of trading
  MaxTrades,  \* bound: trades of one instrument in one minute
  MaxSocket,  \* messages the websocket library buffers
  MaxRepeats, \* bound: ticks the server repeats
  MaxFaults   \* bound: broken connections, failed writes, crashes

ASSUME ConstantsOK ==
  /\ MaxMinute \in Nat \ {0} /\ MaxTrades \in Nat \ {0} /\ MaxSocket \in Nat
  /\ "gapfill" \in Rest /\ MaxRepeats \in Nat /\ MaxFaults \in Nat

Minute == 1..MaxMinute
Volume == 0..MaxTrades
Tick == [key : Key, minute : Minute, nth : 1..MaxTrades]
Candle == [minute : Minute, volume : 1..MaxTrades]
NoBucket == [minute |-> 0, volume |-> 0]

VARIABLES
  \* the exchange and the wire
  now,        \* the current minute
  trades,     \* key -> minute -> trades so far
  socket,     \* ticks sent to this connection and not received yet
  repeats,
  \* UpstoxMarketFeed
  phase,      \* where run_forever stands
  after,      \* where _flush returns to: streaming or closing
  subscribed, \* _current_symbols, subscribed on this connection
  todo,       \* symbols the gap-fill has not finished
  pending,    \* key -> _pending_candles
  inflight,   \* the candles _flush took out of pending
  \* TickAggregator
  bucket,     \* key -> the open bucket
  last,       \* key -> last trade time seen: <<minute, nth>>
  \* database
  store,      \* key -> minute -> volume of the intraday_prices row, 0 for none
  fetched,    \* caller -> the symbol and bars it read and has not written
  \* history
  completed,  \* key -> minutes this process has closed a bucket for
  faults

wireVars == <<now, trades, socket, repeats>>
feedVars == <<phase, after, subscribed, todo, pending, inflight>>
aggVars == <<bucket, last, completed>>
dbVars == <<store, fetched>>
vars == <<wireVars, feedVars, aggVars, dbVars, faults>>

NoFetch == [key |-> {}, bars |-> <<>>]
Online == {"filling", "streaming", "flush", "flushing", "publishing"}
NoCandles == [k \in Key |-> <<>>]

Init ==
  /\ now = 1 /\ trades = [k \in Key |-> [m \in Minute |-> 0]] /\ socket = <<>>
  /\ repeats = 0
  /\ phase = "idle" /\ after = "streaming" /\ subscribed = {} /\ todo = {}
  /\ pending = NoCandles /\ inflight = NoCandles
  /\ bucket = [k \in Key |-> NoBucket] /\ last = [k \in Key |-> <<0, 0>>]
  /\ store = [k \in Key |-> [m \in Minute |-> 0]] /\ fetched = [r \in Rest |-> NoFetch]
  /\ completed = [k \in Key |-> {}] /\ faults = 0

-----------------------------------------------------------------------------
(* The exchange and the server (external)                                  *)

Connected(k) == phase \in Online /\ after # "closing" /\ k \in subscribed

Send(k, m, n) ==
  socket' = IF Connected(k) /\ Len(socket) < MaxSocket
            THEN Append(socket, [key |-> k, minute |-> m, nth |-> n])
            ELSE socket

Trade(k) ==
  /\ trades[k][now] < MaxTrades
  /\ trades' = [trades EXCEPT ![k][now] = @ + 1]
  /\ Send(k, now, trades[k][now] + 1)
  /\ UNCHANGED <<now, repeats, feedVars, aggVars, dbVars, faults>>

NextMinute ==
  /\ now < MaxMinute /\ now' = now + 1
  /\ UNCHANGED <<trades, socket, repeats, feedVars, aggVars, dbVars, faults>>

(* The server repeats a trade: the snapshot after a subscribe, a duplicate. *)
Repeat(k) ==
  /\ repeats < MaxRepeats /\ repeats' = repeats + 1
  /\ Connected(k) /\ Len(socket) < MaxSocket
  /\ \E m \in Minute : \E n \in 1..trades[k][m] : Send(k, m, n)
  /\ UNCHANGED <<now, trades, feedVars, aggVars, dbVars, faults>>

-----------------------------------------------------------------------------
(* run_forever and _connect_and_stream                                     *)

(* Active symbols read, feed authorized, log row opened, connected and     *)
(* subscribed.  Without an active symbol the cycle ends at once.           *)
Connect ==
  /\ phase = "idle"
  /\ \E active \in SUBSET Key :
       /\ active # {}
       /\ subscribed' = active /\ todo' = active
  /\ phase' = "filling" /\ after' = "streaming" /\ socket' = <<>>
  /\ UNCHANGED <<now, trades, repeats, pending, inflight, aggVars, dbVars, faults>>

(* Mutant of FillTimesOut: the backfill is awaited without a limit. *)
FillNeverTimesOut == FALSE /\ UNCHANGED vars

(* asyncio.wait_for cancels collect_intraday wherever it stands. *)
FillTimesOut ==
  /\ phase = "filling"
  /\ phase' = "streaming" /\ todo' = {}
  /\ fetched' = [fetched EXCEPT !["gapfill"] = NoFetch]
  /\ UNCHANGED <<wireVars, after, subscribed, pending, inflight, aggVars, store, faults>>

FillDone ==
  /\ phase = "filling" /\ todo = {} /\ fetched["gapfill"] = NoFetch
  /\ phase' = "streaming"
  /\ UNCHANGED <<wireVars, after, subscribed, todo, pending, inflight, aggVars, dbVars, faults>>

(* Mutant of Ingest: the duplicate guard is dropped. *)
IngestDuplicates(t) ==
  LET b == bucket[t.key] IN
  /\ last' = [last EXCEPT ![t.key] = <<t.minute, t.nth>>]
  /\ IF b.minute # t.minute
     THEN /\ bucket' = [bucket EXCEPT ![t.key] = [minute |-> t.minute, volume |-> 1]]
          /\ IF b = NoBucket THEN UNCHANGED <<pending, completed>>
             ELSE /\ pending' = [pending EXCEPT ![t.key] = Append(@, b)]
                  /\ completed' = [completed EXCEPT ![t.key] = @ \cup {b.minute}]
     ELSE /\ bucket' = [bucket EXCEPT ![t.key].volume = @ + 1]
          /\ UNCHANGED <<pending, completed>>

(* A tick at or before the last trade time of its instrument. *)
Stale(t) ==
  \/ t.minute < last[t.key][1]
  \/ t.minute = last[t.key][1] /\ t.nth <= last[t.key][2]

(* TickAggregator.ingest and the bookkeeping of its completed candle. *)
Ingest(t) ==
  LET b == bucket[t.key] IN
  IF Stale(t) THEN UNCHANGED <<last, bucket, pending, completed>>
  ELSE /\ last' = [last EXCEPT ![t.key] = <<t.minute, t.nth>>]
       /\ IF b.minute # t.minute
          THEN /\ bucket' = [bucket EXCEPT ![t.key] = [minute |-> t.minute, volume |-> 1]]
               /\ IF b = NoBucket THEN UNCHANGED <<pending, completed>>
                  ELSE /\ pending' = [pending EXCEPT ![t.key] = Append(@, b)]
                       /\ completed' = [completed EXCEPT ![t.key] = @ \cup {b.minute}]
          ELSE /\ bucket' = [bucket EXCEPT ![t.key].volume = @ + 1]
               /\ UNCHANGED <<pending, completed>>

(* One pass of the receive loop; the flush interval may be over. *)
Receive ==
  /\ phase = "streaming" /\ socket # <<>>
  /\ Ingest(Head(socket)) /\ socket' = Tail(socket)
  /\ phase' \in {"streaming", "flush"}
  /\ UNCHANGED <<now, trades, repeats, after, subscribed, todo, inflight, dbVars, faults>>

(* Mutant of LeaveLoop: a stale connection is dropped without the flush in *)
(* the finally block.                                                      *)
LeaveLoopNoFlush == phase' = "idle" /\ UNCHANGED after

(* Every way out of the connection passes the finally block. *)
LeaveLoop == phase' = "flush" /\ after' = "closing"

(* recv() times out: nothing arrived for the stale threshold. *)
StaleTimeout ==
  /\ phase = "streaming" /\ socket = <<>>
  /\ LeaveLoop
  /\ UNCHANGED <<wireVars, subscribed, todo, pending, inflight, aggVars, dbVars, faults>>

(* The connection closes, or the gap-fill or its publish raises. *)
Disconnect ==
  /\ phase \in {"filling", "streaming"} /\ faults < MaxFaults /\ faults' = faults + 1
  /\ LeaveLoop
  /\ socket' = <<>> /\ todo' = {} /\ fetched' = [fetched EXCEPT !["gapfill"] = NoFetch]
  /\ UNCHANGED <<now, trades, repeats, subscribed, pending, inflight, aggVars, store>>

-----------------------------------------------------------------------------
(* _flush                                                                  *)

Resume == phase' = IF after = "closing" THEN "idle" ELSE "streaming"

(* pending, self._pending_candles = self._pending_candles, {} *)
TakePending == inflight' = pending /\ pending' = NoCandles

FlushBegin ==
  /\ phase = "flush"
  /\ IF pending = NoCandles THEN Resume /\ UNCHANGED <<pending, inflight>>
     ELSE TakePending /\ phase' = "flushing"
  /\ UNCHANGED <<wireVars, after, subscribed, todo, aggVars, dbVars, faults>>

(* validate_candles keeps the first candle of a timestamp; the upsert      *)
(* replaces the row.                                                       *)
Written(k, m) ==
  LET same == {i \in 1..Len(inflight[k]) : inflight[k][i].minute = m} IN
  IF same = {} THEN store[k][m]
  ELSE inflight[k][CHOOSE i \in same : \A j \in same : i <= j].volume

FlushCommit ==
  /\ phase = "flushing"
  /\ store' = [k \in Key |-> [m \in Minute |->
                 IF k \in subscribed THEN Written(k, m) ELSE store[k][m]]]
  /\ inflight' = NoCandles /\ phase' = "publishing"
  /\ UNCHANGED <<wireVars, after, subscribed, todo, pending, aggVars, fetched, faults>>

FlushPublished ==
  /\ phase = "publishing" /\ Resume
  /\ UNCHANGED <<wireVars, after, subscribed, todo, pending, inflight, aggVars, dbVars, faults>>

(* The transaction or the publish raises: the exception leaves the loop    *)
(* through the finally block, or leaves the finally block itself, whose    *)
(* log row then stays open.  What was in flight and not written is gone.   *)
FlushFails ==
  /\ phase \in {"flushing", "publishing"} /\ faults < MaxFaults /\ faults' = faults + 1
  /\ inflight' = NoCandles
  /\ IF after = "closing" THEN phase' = "idle" /\ UNCHANGED after ELSE LeaveLoop
  /\ socket' = <<>>
  /\ UNCHANGED <<now, trades, repeats, subscribed, todo, pending, aggVars, dbVars>>

(* The process dies and starts again. *)
Crash ==
  /\ faults < MaxFaults /\ faults' = faults + 1
  /\ phase' = "idle" /\ after' = "streaming" /\ subscribed' = {} /\ todo' = {}
  /\ socket' = <<>> /\ pending' = NoCandles /\ inflight' = NoCandles
  /\ bucket' = [k \in Key |-> NoBucket] /\ last' = [k \in Key |-> <<0, 0>>]
  /\ completed' = [k \in Key |-> {}] /\ fetched' = [r \in Rest |-> NoFetch]
  /\ UNCHANGED <<now, trades, repeats, store>>

-----------------------------------------------------------------------------
(* MarketDataCollector._collect_candles, called by the gap-fill and by the *)
(* ingestion worker's sweep                                                *)

(* The broker's bars, the running minute included, as of this moment. *)
Fetch(r, k) ==
  /\ fetched[r] = NoFetch
  /\ r = "gapfill" => phase = "filling" /\ k \in todo
  /\ fetched' = [fetched EXCEPT ![r] = [key |-> {k}, bars |-> trades[k]]]
  /\ UNCHANGED <<wireVars, feedVars, aggVars, store, faults>>

Upsert(k, bars) ==
  store' = [store EXCEPT ![k] = [m \in Minute |-> IF bars[m] > 0 THEN bars[m] ELSE @[m]]]

(* The symbol's own transaction. *)
Write(r, k) ==
  /\ fetched[r].key = {k}
  /\ Upsert(k, fetched[r].bars)
  /\ fetched' = [fetched EXCEPT ![r] = NoFetch]
  /\ todo' = IF r = "gapfill" THEN todo \ {k} ELSE todo
  /\ UNCHANGED <<wireVars, phase, after, subscribed, pending, inflight, aggVars, faults>>

(* A provider error or a failed transaction: the symbol is skipped. *)
SkipSymbol(r, k) ==
  /\ fetched[r].key = {k} /\ faults < MaxFaults /\ faults' = faults + 1
  /\ fetched' = [fetched EXCEPT ![r] = NoFetch]
  /\ todo' = IF r = "gapfill" THEN todo \ {k} ELSE todo
  /\ UNCHANGED <<wireVars, phase, after, subscribed, pending, inflight, aggVars, store>>

-----------------------------------------------------------------------------
Feed ==
  \/ Connect \/ FillTimesOut \/ FillDone \/ Receive \/ StaleTimeout
  \/ FlushBegin \/ FlushCommit \/ FlushPublished

Next ==
  \/ \E k \in Key : Trade(k) \/ Repeat(k)
  \/ NextMinute
  \/ Feed
  \/ Disconnect \/ FlushFails \/ Crash
  \/ \E r \in Rest, k \in Key : Fetch(r, k) \/ Write(r, k) \/ SkipSymbol(r, k)

Spec == Init /\ [][Next]_vars

(* The coroutine runs when it can; the broker's REST answers need not come. *)
FairSpec == Spec /\ WF_vars(Connect) /\ WF_vars(FillTimesOut) /\ WF_vars(Receive)
                 /\ WF_vars(StaleTimeout) /\ WF_vars(FlushBegin)
                 /\ WF_vars(FlushCommit) /\ WF_vars(FlushPublished)

-----------------------------------------------------------------------------
(* Properties                                                              *)

WireOK ==
  /\ now \in Minute /\ trades \in [Key -> [Minute -> Volume]]
  /\ socket \in Seq(Tick) /\ repeats \in 0..MaxRepeats
FeedOK ==
  /\ phase \in {"idle", "filling", "streaming", "flush", "flushing", "publishing"}
  /\ after \in {"streaming", "closing"}
  /\ subscribed \in SUBSET Key /\ todo \in SUBSET subscribed
  /\ pending \in [Key -> Seq(Candle)] /\ inflight \in [Key -> Seq(Candle)]
AggOK ==
  /\ bucket \in [Key -> Candle \cup {NoBucket}]
  /\ last \in [Key -> (0..MaxMinute) \X Volume]
  /\ completed \in [Key -> SUBSET Minute]
DbOK ==
  /\ store \in [Key -> [Minute -> Volume]] /\ faults \in 0..MaxFaults
  /\ fetched \in [Rest -> {NoFetch} \cup
                          [key : {{k} : k \in Key}, bars : [Minute -> Volume]]]

(* Every variable has its type; an open bucket holds at least one trade    *)
(* and at most those of its minute.                                        *)
TypeOK == WireOK /\ FeedOK /\ AggOK /\ DbOK

(* No bar, in memory or stored, counts a trade twice, whatever the server  *)
(* repeats and however connections, gap-fills and restarts follow each     *)
(* other (tick_aggregator.ingest's duplicate guard, _flush, upserts).      *)
NeverOverstates ==
  /\ \A k \in Key, m \in Minute : store[k][m] <= trades[k][m]
  /\ \A k \in Key : bucket[k] # NoBucket => bucket[k].volume <= trades[k][bucket[k].minute]
  /\ \A k \in Key : \A i \in DOMAIN pending[k] :
       pending[k][i].volume <= trades[k][pending[k][i].minute]

(* The candles waiting for a flush are in time order, one per minute, and  *)
(* all older than the open bucket, so the validator's duplicate-timestamp  *)
(* rule never drops one of them (_handle_message, validate_candles).       *)
PendingInOrder ==
  \A k \in Key :
    /\ \A i, j \in DOMAIN pending[k] : i < j => pending[k][i].minute < pending[k][j].minute
    /\ \A i \in DOMAIN pending[k] : pending[k][i].minute < bucket[k].minute

(* The gap-fill never keeps the receive loop waiting for ever, although    *)
(* the REST calls may hang (upstox_ws_gap_fill_timeout_seconds).           *)
GapFillEnds == phase = "filling" ~> phase # "filling"

(* A completed bar does not stay in memory for ever: the flush interval, a *)
(* stale connection and every disconnect lead to a flush (_flush).         *)
PendingDrains == \A k \in Key : pending[k] # <<>> ~> pending[k] = <<>>

(* The module's comment: the gap-fill on every reconnect covers the window *)
(* that was missed.  Violated: a bucket that was open across the gap is    *)
(* flushed later and replaces the full bar of a closed minute with what    *)
(* the feed saw of it; so does a REST answer written late.                 *)
BackfillKept ==
  [][\A k \in Key, m \in Minute :
       m < now /\ store[k][m] = trades[k][m] => store'[k][m] = store[k][m]]_vars

(* _flush's comment: a completed but unflushed bar is never silently       *)
(* dropped.  Violated when its transaction fails.                          *)
CompletedBarKept ==
  \A k \in Key : \A m \in completed[k] :
    \/ store[k][m] > 0
    \/ \E i \in DOMAIN pending[k] : pending[k][i].minute = m
    \/ \E i \in DOMAIN inflight[k] : inflight[k][i].minute = m
=============================================================================
