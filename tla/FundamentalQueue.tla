--------------------------- MODULE FundamentalQueue ---------------------------
(***************************************************************************)
(* The fundamental queue: a scheduled run takes a PostgreSQL advisory      *)
(* lock, checks the rate-limit pause and the daily budget against the      *)
(* fetch log, and works through the pending candidate rows in batches,     *)
(* each batch one transaction.  The lock belongs to the database           *)
(* connection that took it; the run's session gives its connection back at *)
(* every commit and may get another one for the next statement.            *)
(***************************************************************************)
EXTENDS FundamentalSources, Integers, Sequences, FiniteSets, FiniteSetsExt

CONSTANTS
  Proc,        \* processes running this service against one database
  Slot,        \* connections of one process's pool
  Row,         \* candidate rows of scanner_results
  SymbolOf,    \* row -> symbol
  Rank,        \* row -> place in the priority order (_priority_key, then the query's)
  Sources,     \* configured sources: a subset of {"upstox", "trendlyne"}
  MaxPerRun, MaxPerDay, BatchSize,     \* fundamental_max_requests_..., batch_size
  Cooldown, Multiplier, MaxCooldown,   \* fundamental_rate_limit_...
  Ttl,         \* fundamental_cache_ttl
  DayLength,   \* ticks of a market day
  MaxTime,     \* bound: ticks
  MaxFaults,   \* bound: crashes and failing transactions
  MaxClosed    \* bound: idle connections the pool closes

ASSUME ConstantsOK ==
  /\ MaxPerRun \in Nat \ {0} /\ MaxPerDay \in Nat \ {0} /\ BatchSize \in Nat \ {0}
  /\ Cooldown \in Nat /\ Multiplier \in Nat \ {0} /\ MaxCooldown \in Nat /\ Ttl \in Nat
  /\ DayLength \in Nat \ {0} /\ MaxTime \in Nat \ {0} /\ MaxFaults \in Nat /\ MaxClosed \in Nat
  /\ Rank \in [Row -> Nat] /\ \A r, q \in Row : Rank[r] = Rank[q] => r = q
  /\ SymbolOf \in [Row -> STRING] /\ IsFiniteSet(Row)

Time == 0..MaxTime   \* 0 stands for "never"; the clock starts at 1
DayOf(t) == t \div DayLength
Day == 0..DayOf(MaxTime)
Symbol == {SymbolOf[r] : r \in Row}
Conn == Proc \X Slot
None == <<>>

VARIABLES
  now,
  \* database
  rows,      \* row -> fundamental_status, fundamental_fetched_at and, for the record,
             \* the time of the snapshot written with it
  snaps,     \* symbol -> status and fetched_at of fundamental_snapshots
  used,      \* day -> committed fetch-log rows requested that day
  limitedAt, \* requested_at of the newest RATE_LIMITED log row
  okAt,      \* requested_at of the newest SUCCESS or CACHED log row
  since,     \* RATE_LIMITED log rows newer than okAt
  lock,      \* the connection holding the advisory lock, how often
  \* each process
  pc,        \* idle, batch, apply, commit, limited, unlock
  conn,      \* the connection its session holds
  todo,      \* pending rows of this run not yet fetched
  left,      \* rows left in the current batch
  tx,        \* the session's uncommitted work
  cache,     \* Trendlyne's per-process cache: symbol -> time of the entry
  \* history
  asked,     \* day -> provider fetches, by the day their log row bears
  faults, closed

dbVars == <<rows, snaps, used, limitedAt, okAt, since>>
procVars == <<pc, conn, todo, left, tx, cache>>
vars == <<now, dbVars, lock, procVars, asked, faults, closed>>

NoTx == [at |-> 0, n |-> 0, ok |-> FALSE, limited |-> FALSE, due |-> None,
         rows |-> <<>>, snaps |-> <<>>]
Unlocked == [conn |-> None, depth |-> 0]

Init ==
  /\ now = 1
  /\ rows = [r \in Row |-> [status |-> "PENDING", at |-> 0, of |-> 0]]
  /\ snaps = [s \in Symbol |-> [status |-> "PENDING", at |-> 0]]
  /\ used = [d \in Day |-> 0] /\ limitedAt = 0 /\ okAt = 0 /\ since = 0
  /\ lock = Unlocked
  /\ pc = [p \in Proc |-> "idle"] /\ conn = [p \in Proc |-> None]
  /\ todo = [p \in Proc |-> <<>>] /\ left = [p \in Proc |-> 0] /\ tx = [p \in Proc |-> NoTx]
  /\ cache = [p \in Proc |-> [s \in Symbol |-> 0]]
  /\ asked = [d \in Day |-> 0] /\ faults = 0 /\ closed = 0

Tick ==
  /\ now < MaxTime /\ now' = now + 1
  /\ UNCHANGED <<dbVars, lock, procVars, asked, faults, closed>>

-----------------------------------------------------------------------------
(* The fetch log's questions                                               *)

(* count_consecutive_rate_limits and _escalated_cooldown_seconds *)
Power[n \in Nat] == IF n = 0 THEN 1 ELSE Multiplier * Power[n - 1]
Wait(n) == Min({Cooldown * Power[IF n = 0 THEN 0 ELSE n - 1], MaxCooldown})

RateLimited == limitedAt # 0 /\ okAt <= limitedAt
Paused == RateLimited /\ now < limitedAt + Wait(since)

(* Mutant of Remaining: the whole daily limit for every run. *)
RemainingAll == MaxPerDay

Remaining == MaxPerDay - used[DayOf(now)]

(* _select_pending: all but the rows fetched within the cache's lifetime. *)
Pending == {r \in Row : ~(rows[r].status = "SUCCESS" /\ now - rows[r].at < Ttl)}

(* The pending rows in priority order, cut at the budget. *)
Ahead(r) == {q \in Pending : Rank[q] < Rank[r]}
Budget == Min({MaxPerRun, Remaining, Cardinality(Pending)})
Selected == [i \in 1..Budget |-> CHOOSE r \in Pending : Cardinality(Ahead(r)) = i - 1]

-----------------------------------------------------------------------------
(* A run                                                                   *)

Pool(p) == {c \in Conn : c[1] = p}

Acquired(c) == lock.conn \in {None, c}
Released(c) ==
  IF lock.conn # c THEN lock
  ELSE IF lock.depth = 1 THEN Unlocked ELSE [lock EXCEPT !.depth = @ - 1]

FirstBatch(s) == IF Len(s) < BatchSize THEN Len(s) ELSE BatchSize

(* Mutant of MayRun: the pause is not looked at. *)
MayRunPaused == Remaining > 0 /\ Pending # {}

MayRun == ~Paused /\ Remaining > 0 /\ Pending # {}

(* Mutant of TakeLock: the lock call is answered yes to everyone. *)
TakeLockAlways(c) == lock' = [conn |-> c, depth |-> 1]

TakeLock(c) == Acquired(c) /\ lock' = [conn |-> c, depth |-> lock.depth + 1]

(* The job fires (one at a time in a process).  A run that is paused, out  *)
(* of budget or without pending rows unlocks on the same connection, and   *)
(* one that does not get the lock returns: nothing changes.                *)
BeginRun(p, c) ==
  /\ pc[p] = "idle" /\ c \in Pool(p) /\ MayRun
  /\ TakeLock(c)
  /\ pc' = [pc EXCEPT ![p] = "batch"] /\ conn' = [conn EXCEPT ![p] = c]
  /\ todo' = [todo EXCEPT ![p] = Selected]
  /\ left' = [left EXCEPT ![p] = FirstBatch(Selected)]
  /\ tx' = [tx EXCEPT ![p] = [NoTx EXCEPT !.at = now]]
  /\ UNCHANGED <<now, dbVars, cache, asked, faults, closed>>

Cached(p, s) == cache[p][s] # 0 /\ now - cache[p][s] < Ttl

(* Mutant of SnapAfter: a fetch without data, too, refreshes the time. *)
SnapAfterAlways(old, a) == [status |-> a.status, at |-> now]

(* FundamentalSnapshotRepository.upsert *)
SnapAfter(old, a) == [status |-> a.status, at |-> IF a.data THEN now ELSE old.at]

(* The log row and the snapshot of an answer.  requested_at defaults to    *)
(* the start of the session's transaction.                                 *)
TxAfter(p, r, s, a) ==
  LET old == tx[p]
      snap == IF s \in DOMAIN old.snaps THEN old.snaps[s] ELSE snaps[s]
  IN [at |-> IF conn[p] = None THEN now ELSE old.at,
      n |-> old.n + 1,
      ok |-> old.ok \/ a.status \in {"SUCCESS", "CACHED"},
      limited |-> a.status = "RATE_LIMITED",
      due |-> <<r, a>>,
      rows |-> old.rows,
      snaps |-> [x \in DOMAIN old.snaps \cup {s} |->
                  IF x = s THEN SnapAfter(snap, a) ELSE old.snaps[x]]]

(* _process_one for the next row: the provider's answer, the log row and   *)
(* the snapshot, all uncommitted; the answer is due to the candidate row.  *)
Fetch(p, c) ==
  /\ pc[p] = "batch"
  /\ c \in IF conn[p] = None THEN Pool(p) ELSE {conn[p]}
  /\ LET r == Head(todo[p])
         s == SymbolOf[r]
     IN \E reply \in Answers(Sources, Cached(p, s)) :
          LET a == reply.answer
              t == TxAfter(p, r, s, a)
          IN /\ tx' = [tx EXCEPT ![p] = t]
             /\ asked' = [asked EXCEPT ![DayOf(t.at)] = @ + 1]
             /\ cache' = IF reply.asked /\ a.data /\ ~Cached(p, s)
                         THEN [cache EXCEPT ![p][s] = now] ELSE cache
  /\ pc' = [pc EXCEPT ![p] = "apply"] /\ conn' = [conn EXCEPT ![p] = c]
  /\ todo' = [todo EXCEPT ![p] = Tail(@)] /\ left' = [left EXCEPT ![p] = @ - 1]
  /\ UNCHANGED <<now, dbVars, lock, faults, closed>>

(* _apply_result, which reads the clock again, or the bare status of a     *)
(* fetch without data.                                                     *)
RowAfter(old, a, snap) ==
  [status |-> a.status, at |-> IF a.data THEN now ELSE old.at,
   of |-> IF a.data THEN snap.at ELSE old.of]

(* The rest of _process_one: the candidate row gets the answer due to it.  *)
(* A rate limit ends the run, the last row of a batch commits it.          *)
Apply(p) ==
  /\ pc[p] = "apply"
  /\ LET t == tx[p]
         r == t.due[1]
         row == IF r \in DOMAIN t.rows THEN t.rows[r] ELSE rows[r]
         new == RowAfter(row, t.due[2], t.snaps[SymbolOf[r]])
     IN /\ tx' = [tx EXCEPT ![p] =
                     [t EXCEPT !.due = None,
                               !.rows = [x \in DOMAIN t.rows \cup {r} |->
                                           IF x = r THEN new ELSE t.rows[x]]]]
        /\ pc' = [pc EXCEPT ![p] = IF t.limited THEN "limited"
                                   ELSE IF left[p] = 0 THEN "commit" ELSE "batch"]
  /\ UNCHANGED <<now, dbVars, lock, conn, todo, left, cache, asked, faults, closed>>

(* The commit after a batch or after a rate limit.  It ends the            *)
(* transaction and gives the connection back.                              *)
Commit(p) ==
  LET t == tx[p] IN
  /\ pc[p] \in {"commit", "limited"}
  /\ rows' = [r \in Row |-> IF r \in DOMAIN t.rows THEN t.rows[r] ELSE rows[r]]
  /\ snaps' = [s \in Symbol |-> IF s \in DOMAIN t.snaps THEN t.snaps[s] ELSE snaps[s]]
  /\ used' = [used EXCEPT ![DayOf(t.at)] = @ + t.n]
  /\ okAt' = IF t.ok THEN t.at ELSE okAt
  /\ limitedAt' = IF t.limited THEN t.at ELSE limitedAt
  /\ since' = IF t.ok THEN 0 ELSE IF t.limited THEN since + 1 ELSE since
  /\ tx' = [tx EXCEPT ![p] = NoTx] /\ conn' = [conn EXCEPT ![p] = None]
  /\ LET over == pc[p] = "limited" \/ todo[p] = <<>> IN
     /\ pc' = [pc EXCEPT ![p] = IF over THEN "unlock" ELSE "batch"]
     /\ left' = [left EXCEPT ![p] = IF over THEN 0 ELSE FirstBatch(todo[p])]
     /\ todo' = IF over THEN [todo EXCEPT ![p] = <<>>] ELSE todo
  /\ UNCHANGED <<now, lock, cache, asked, faults, closed>>

(* _release_run_lock on whatever connection the session gets now. *)
Unlock(p, c) ==
  /\ pc[p] = "unlock" /\ c \in Pool(p)
  /\ lock' = Released(c)
  /\ pc' = [pc EXCEPT ![p] = "idle"]
  /\ UNCHANGED <<now, dbVars, conn, todo, left, tx, cache, asked, faults, closed>>

Abandon(p) ==
  /\ pc' = [pc EXCEPT ![p] = "idle"] /\ conn' = [conn EXCEPT ![p] = None]
  /\ todo' = [todo EXCEPT ![p] = <<>>] /\ left' = [left EXCEPT ![p] = 0]
  /\ tx' = [tx EXCEPT ![p] = NoTx]

(* A statement fails: the session is aborted, so the unlock fails too, and *)
(* the connection goes back to the pool with the lock it holds.            *)
RunFails(p) ==
  /\ pc[p] # "idle" /\ faults < MaxFaults /\ faults' = faults + 1
  /\ Abandon(p)
  /\ UNCHANGED <<now, dbVars, lock, cache, asked, closed>>

(* The process dies, its connections with it. *)
Crash(p) ==
  /\ faults < MaxFaults /\ faults' = faults + 1
  /\ Abandon(p)
  /\ lock' = IF lock.conn \in Pool(p) THEN Unlocked ELSE lock
  /\ cache' = [cache EXCEPT ![p] = [s \in Symbol |-> 0]]
  /\ UNCHANGED <<now, dbVars, asked, closed>>

(* The pool closes an idle connection (an overflow connection given back,  *)
(* one that fails its pre-ping): PostgreSQL drops its lock.                *)
CloseIdle(p, c) ==
  /\ closed < MaxClosed /\ closed' = closed + 1
  /\ c \in Pool(p) /\ conn[p] # c /\ lock.conn = c
  /\ lock' = Unlocked
  /\ UNCHANGED <<now, dbVars, procVars, asked, faults>>

-----------------------------------------------------------------------------
Next ==
  \/ Tick
  \/ \E p \in Proc :
       \/ Apply(p) \/ Commit(p) \/ RunFails(p) \/ Crash(p)
       \/ \E c \in Conn : BeginRun(p, c) \/ Fetch(p, c) \/ Unlock(p, c) \/ CloseIdle(p, c)

Spec == Init /\ [][Next]_vars

-----------------------------------------------------------------------------
(* Properties                                                              *)

Stamp == [status : FetchStatus, at : Time]
RowStamp == [status : FetchStatus, at : Time, of : Time]
Answer == [status : FetchStatus, data : BOOLEAN]
TxOK(t) ==
  /\ DOMAIN t = DOMAIN NoTx
  /\ t.at \in Time /\ t.n \in 0..BatchSize /\ t.ok \in BOOLEAN /\ t.limited \in BOOLEAN
  /\ t.due \in (Row \X Answer) \cup {None}
  /\ DOMAIN t.rows \subseteq Row /\ \A r \in DOMAIN t.rows : t.rows[r] \in RowStamp
  /\ DOMAIN t.snaps \subseteq Symbol /\ \A s \in DOMAIN t.snaps : t.snaps[s] \in Stamp

(* Every variable has its type; a batch holds at most fundamental_         *)
(* batch_size rows and never more than the run has left.                   *)
TypeOK ==
  /\ now \in Time /\ rows \in [Row -> RowStamp] /\ snaps \in [Symbol -> Stamp]
  /\ used \in [Day -> Nat] /\ limitedAt \in Time /\ okAt \in Time /\ since \in Nat
  /\ lock.conn \in Conn \cup {None} /\ lock.depth \in Nat
  /\ pc \in [Proc -> {"idle", "batch", "apply", "commit", "limited", "unlock"}]
  /\ conn \in [Proc -> Conn \cup {None}] /\ todo \in [Proc -> Seq(Row)]
  /\ left \in [Proc -> 0..BatchSize] /\ \A p \in Proc : left[p] <= Len(todo[p])
  /\ \A p \in Proc : TxOK(tx[p])
  /\ cache \in [Proc -> [Symbol -> Time]]
  /\ asked \in [Day -> Nat] /\ faults \in 0..MaxFaults /\ closed \in 0..MaxClosed

(* One process works through the queue at a time, although the lock is     *)
(* taken on one connection and the work goes on on others; every closed    *)
(* connection that held the lock lets in one more (_acquire_run_lock).     *)
OneRunAtATime == Cardinality({p \in Proc : pc[p] # "idle"}) <= 1 + closed

(* The providers are asked at most fundamental_max_requests_per_day times  *)
(* a day, plus one batch for every crash or failed transaction, whose      *)
(* fetch-log rows are lost (run_queue, count_today, commit per batch), and *)
(* one run for every lost lock.                                            *)
RequestsBounded ==
  \A d \in Day : asked[d] <= MaxPerDay + faults * BatchSize + closed * MaxPerRun

(* While the log says the queue is cooling down from a rate limit, no      *)
(* process asks a provider, not even one that crashed and restarted or was *)
(* in the middle of a run, unless a lock was lost (_paused_until is asked  *)
(* once per run).                                                          *)
NoFetchWhilePaused == [][asked' # asked => ~Paused \/ closed > 0]_vars

(* Snapshots and candidate rows tell of the same fetches, whatever batches *)
(* were rolled back and however often a symbol was asked for without data: *)
(* a row's score comes from a snapshot no newer than its symbol's, and was *)
(* stamped after it; and the data of a snapshot, which claims no fresher   *)
(* time than they have (upsert), reached a row (_process_one).  A lost     *)
(* lock that let two runs overlap is excepted.                             *)
RowsFollowSnapshots ==
  closed = 0 =>
    /\ \A r \in Row : rows[r].of <= snaps[SymbolOf[r]].at /\ rows[r].of <= rows[r].at
    /\ \A s \in Symbol : \E r \in Row : SymbolOf[r] = s /\ rows[r].of = snaps[s].at

(* The docstring of _acquire_run_lock: two processes can never run the     *)
(* queue concurrently.  Violated when the pool closes the connection that  *)
(* took the lock, which the run's session gave back with its first commit. *)
NeverTwoRuns == Cardinality({p \in Proc : pc[p] # "idle"}) <= 1

(* The comment of _escalated_cooldown_seconds: each rate limit with no     *)
(* success since the last one waits longer.  Violated when the first one   *)
(* ends a batch that began with a success: both log rows bear the start of *)
(* the transaction, and the rate limit is not counted as later.            *)
EachLimitWaitsLonger ==
  [][\A p \in Proc :
       pc[p] = "limited" /\ pc'[p] = "unlock" /\ RateLimited /\ ~tx[p].ok
         => Wait(since') > Wait(since) \/ Wait(since') = MaxCooldown]_vars
=============================================================================
