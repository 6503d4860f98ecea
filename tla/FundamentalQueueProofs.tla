------------------------ MODULE FundamentalQueueProofs ------------------------
(***************************************************************************)
(* Proofs about FundamentalQueue, for any processes, pools, rows, sources  *)
(* and limits.  A PostgreSQL advisory lock ends with the connection that   *)
(* took it, so the theorems count the connections the pool closed.         *)
(***************************************************************************)
EXTENDS FundamentalQueue, FiniteSetTheorems, WellFoundedInduction, TLAPS

-----------------------------------------------------------------------------
(* Numbers                                                                 *)

(* Every nonempty set of natural numbers has a least element. *)
LEMMA Least ==
  ASSUME NEW T \in SUBSET Nat, T # {}
  PROVE  \E x \in T : \A y \in T : x <= y
<1> DEFINE R == OpToRel(<, Nat)
<1>1. IsWellFoundedOn(R, Nat)
  BY NatLessThanWellFounded
<1>2. PICK x \in T : \A y \in T : ~ (<<y, x>> \in R)
  <2> HIDE DEF R
  <2> QED BY <1>1, WFMin
<1>3. \A y \in T : ~(y < x)
  BY <1>2 DEF OpToRel
<1> QED BY <1>3

(* Later times are on later days, or the same. *)
LEMMA DayMonotone ==
  ASSUME NEW a \in Nat, NEW b \in Nat, a <= b
  PROVE  DayOf(a) \in Nat /\ DayOf(a) <= DayOf(b)
BY ConstantsOK DEF DayOf

(* The least of three is one of them, and at most each. *)
LEMMA BudgetLemma ==
  ASSUME NEW n \in Nat, NEW m \in Nat, NEW k \in Int
  PROVE  /\ Min({n, k, m}) \in {n, k, m}
         /\ Min({n, k, m}) <= n /\ Min({n, k, m}) <= k /\ Min({n, k, m}) <= m
<1>1. \E x \in {n, k, m} : \A y \in {n, k, m} : x <= y
  OBVIOUS
<1> QED BY <1>1 DEF Min

(* The lesser of two numbers. *)
LEMMA MinOfTwo ==
  ASSUME NEW n \in Nat, NEW m \in Nat
  PROVE  Min({n, m}) = IF n <= m THEN n ELSE m
<1>1. \E x \in {n, m} : \A y \in {n, m} : x <= y
  OBVIOUS
<1> QED BY <1>1 DEF Min



(* A product of naturals grows with its factors. *)
LEMMA ProductGrows ==
  ASSUME NEW a \in Nat, NEW b \in Nat, NEW m \in Nat, a <= b
  PROVE  a * m \in Nat /\ b * m \in Nat /\ a * m <= b * m
OBVIOUS

-----------------------------------------------------------------------------
(* One run at a time                                                       *)

(* The processes in a run, and those whose lock was dropped under them.    *)
Active == {p \in Proc : pc[p] # "idle"}
Strays == {p \in Active : lock.conn \notin Pool(p)}

(* The pools of two processes have no connection in common. *)
LEMMA PoolsDisjoint ==
  ASSUME NEW p \in Proc, NEW q \in Proc, NEW c \in Pool(p), c \in Pool(q)
  PROVE  p = q
BY DEF Pool

(* No connection is "none". *)
LEMMA ConnIsNotNone == None \notin Conn
BY DEF Conn, None

(* Every closed connection makes at most one stray. *)
StrayInv ==
  /\ closed \in Nat /\ pc = [p \in Proc |-> pc[p]]
  /\ IsFiniteSet(Active) /\ Cardinality(Strays) <= closed

(* One element more is at most one more to count. *)
LEMMA OneMore ==
  ASSUME NEW S, NEW x, IsFiniteSet(S)
  PROVE  /\ Cardinality(S) \in Nat
         /\ IsFiniteSet(S \cup {x}) /\ Cardinality(S \cup {x}) \in Nat
         /\ Cardinality(S \cup {x}) <= Cardinality(S) + 1
<1>1. Cardinality(S) \in Nat
  BY FS_CardinalityType
<1>2. /\ IsFiniteSet(S \cup {x})
      /\ Cardinality(S \cup {x}) = IF x \in S THEN Cardinality(S) ELSE Cardinality(S) + 1
  BY FS_AddElement
<1> QED BY <1>1, <1>2

(* A step that ends a run or keeps the runs, without a new stray. *)
LEMMA FewerStrays ==
  ASSUME StrayInv, closed' = closed, pc' = [p \in Proc |-> pc'[p]],
         Active' \subseteq Active, Strays' \subseteq Strays
  PROVE  StrayInv'
<1>1. IsFiniteSet(Strays) /\ Cardinality(Strays) \in Nat
  BY FS_Subset, FS_CardinalityType DEF StrayInv, Strays
<1>2. IsFiniteSet(Active') /\ IsFiniteSet(Strays')
  BY <1>1, FS_Subset DEF StrayInv
<1>3. Cardinality(Strays') <= Cardinality(Strays) /\ Cardinality(Strays') \in Nat
  BY <1>1, <1>2, FS_Subset, FS_CardinalityType
<1> QED BY <1>1, <1>2, <1>3 DEF StrayInv

(* Every step preserves StrayInv. *)
LEMMA NextStrayInv == StrayInv /\ [Next]_vars => StrayInv'
<1> SUFFICES ASSUME StrayInv, [Next]_vars PROVE StrayInv'
  OBVIOUS
<1>1. ASSUME NEW p \in Proc, NEW c \in Conn, BeginRun(p, c) PROVE StrayInv'
  <2>1. /\ pc' = [pc EXCEPT ![p] = "batch"] /\ closed' = closed /\ c \in Pool(p)
        /\ pc[p] = "idle" /\ lock.conn \in {None, c} /\ lock'.conn = c
    BY <1>1 DEF BeginRun, TakeLock, Acquired
  <2>2. Active' = Active \cup {p} /\ pc' = [q \in Proc |-> pc'[q]]
    BY <2>1 DEF Active, StrayInv
  <2>3. Strays' \subseteq Strays
    <3> SUFFICES ASSUME NEW q \in Active', c \notin Pool(q) PROVE q \in Strays
      BY <2>1 DEF Strays, Pool
    <3>1. q \in Active /\ q \in Proc
      BY <2>1, <2>2 DEF Active
    <3>2. lock.conn \notin Pool(q)
      BY <2>1, ConnIsNotNone DEF Pool
    <3> QED BY <3>1, <3>2 DEF Strays
  <2>4. IsFiniteSet(Strays) /\ Cardinality(Strays) \in Nat /\ IsFiniteSet(Active')
    BY <2>2, FS_Subset, FS_AddElement, FS_CardinalityType DEF StrayInv, Strays
  <2>5. Cardinality(Strays') <= Cardinality(Strays) /\ Cardinality(Strays') \in Nat
    BY <2>3, <2>4, FS_Subset, FS_CardinalityType
  <2> QED BY <2>1, <2>2, <2>4, <2>5 DEF StrayInv
<1>2. ASSUME NEW p \in Proc, NEW c \in Conn, Fetch(p, c) PROVE StrayInv'
  <2>1. /\ \E to : pc' = [pc EXCEPT ![p] = to]
        /\ pc[p] # "idle" /\ UNCHANGED <<lock, closed>>
    BY <1>2 DEF Fetch
  <2> QED BY <2>1, FewerStrays DEF Active, Strays, Pool, StrayInv
<1>3. ASSUME NEW p \in Proc, Commit(p) PROVE StrayInv'
  <2>1. /\ \E to : pc' = [pc EXCEPT ![p] = to]
        /\ pc[p] # "idle" /\ UNCHANGED <<lock, closed>>
    BY <1>3 DEF Commit
  <2> QED BY <2>1, FewerStrays DEF Active, Strays, Pool, StrayInv
<1>9. ASSUME NEW p \in Proc, Apply(p) PROVE StrayInv'
  <2> DEFINE to == IF tx[p].limited THEN "limited" ELSE IF left[p] = 0 THEN "commit" ELSE "batch"
  <2>1. pc' = [pc EXCEPT ![p] = to] /\ pc[p] # "idle" /\ UNCHANGED <<lock, closed>>
    BY <1>9 DEF Apply
  <2>2. to # "idle"
    OBVIOUS
  <2> HIDE DEF to
  <2> QED BY <2>1, <2>2, FewerStrays DEF Active, Strays, Pool, StrayInv
<1>4. ASSUME NEW p \in Proc, pc' = [pc EXCEPT ![p] = "idle"], closed' = closed,
             lock.conn \in Pool(p) \/ lock'.conn = lock.conn
      PROVE  StrayInv'
  <2>1. Active' \subseteq Active \ {p} /\ pc' = [q \in Proc |-> pc'[q]]
    BY <1>4 DEF Active, StrayInv
  <2>2. ASSUME NEW q \in Strays' PROVE q \in Strays
    <3>1. q \in Active /\ q \in Proc /\ q # p /\ lock'.conn \notin Pool(q)
      BY <2>1, <2>2 DEF Active, Strays, Pool
    <3>2. lock.conn \notin Pool(q)
      BY <1>4, <3>1, PoolsDisjoint
    <3> QED BY <3>1, <3>2 DEF Strays
  <2> QED BY <1>4, <2>1, <2>2, FewerStrays
<1>5. ASSUME NEW p \in Proc, NEW c \in Conn, Unlock(p, c) PROVE StrayInv'
  <2>1. pc' = [pc EXCEPT ![p] = "idle"] /\ closed' = closed /\ c \in Pool(p)
        /\ lock' = Released(c)
    BY <1>5 DEF Unlock
  <2>2. lock.conn = c \/ lock' = lock
    BY <2>1 DEF Released
  <2> QED BY <1>4, <2>1, <2>2
<1>6. ASSUME NEW p \in Proc, RunFails(p) \/ Crash(p) PROVE StrayInv'
  <2>1. /\ pc' = [pc EXCEPT ![p] = "idle"] /\ closed' = closed
        /\ lock.conn \in Pool(p) \/ lock' = lock
    BY <1>6 DEF RunFails, Crash, Abandon
  <2> QED BY <1>4, <2>1
<1>7. ASSUME NEW p \in Proc, NEW c \in Conn, CloseIdle(p, c) PROVE StrayInv'
  <2>1. /\ UNCHANGED pc /\ closed' = closed + 1
        /\ c \in Pool(p) /\ lock.conn = c
    BY <1>7 DEF CloseIdle, procVars
  <2>2. Active' = Active
    BY <2>1 DEF Active
  <2>3. Strays' \subseteq Strays \cup {p}
    <3> SUFFICES ASSUME NEW q \in Active, q # p PROVE q \in Strays
      BY <2>2 DEF Strays
    <3>1. c \notin Pool(q)
      BY <2>1, PoolsDisjoint DEF Active
    <3> QED BY <2>1, <3>1 DEF Strays
  <2>4. IsFiniteSet(Strays) /\ Cardinality(Strays) \in Nat
    BY FS_Subset, FS_CardinalityType DEF StrayInv, Strays
  <2>5. /\ IsFiniteSet(Strays \cup {p}) /\ Cardinality(Strays \cup {p}) \in Nat
        /\ Cardinality(Strays \cup {p}) <= Cardinality(Strays) + 1
    BY <2>4, OneMore
  <2>6. Cardinality(Strays') <= Cardinality(Strays) + 1 /\ Cardinality(Strays') \in Nat
    BY <2>3, <2>4, <2>5, FS_Subset, FS_CardinalityType
  <2> QED BY <2>1, <2>2, <2>4, <2>6 DEF StrayInv
<1>8. CASE Tick \/ UNCHANGED vars
  <2>1. UNCHANGED <<pc, lock, closed>>
    BY <1>8 DEF Tick, vars, procVars
  <2> QED BY <2>1, FewerStrays DEF Active, Strays, Pool, StrayInv
<1> QED BY <1>1, <1>2, <1>3, <1>5, <1>6, <1>7, <1>8, <1>9 DEF Next

(* Nothing runs at the start. *)
LEMMA InitStrayInv == Init => StrayInv
<1> SUFFICES ASSUME Init PROVE StrayInv
  OBVIOUS
<1>1. Active = {} /\ Strays = {} /\ closed = 0 /\ pc = [p \in Proc |-> pc[p]]
  BY DEF Init, Active, Strays
<1> QED BY <1>1, FS_EmptySet DEF StrayInv

(* Two processes run the queue together only if a connection was closed    *)
(* under the lock, however the session and its pool move the work between  *)
(* connections; each closed connection lets in one more.                   *)
THEOREM OneRunTheorem == Spec => []OneRunAtATime
<1>1. StrayInv => OneRunAtATime
  <2> SUFFICES ASSUME StrayInv PROVE OneRunAtATime
    OBVIOUS
  <2>1. IsFiniteSet(Strays) /\ Cardinality(Strays) \in Nat /\ Strays \subseteq Active
    BY FS_Subset, FS_CardinalityType DEF StrayInv, Strays
  <2> SUFFICES Cardinality(Active) <= 1 + closed
    BY DEF OneRunAtATime, Active
  <2>2. CASE Active = Strays
    BY <2>1, <2>2 DEF StrayInv
  <2>3. CASE Active # Strays
    <3>1. PICK h \in Active : h \notin Strays
      BY <2>1, <2>3
    <3>2. Active \subseteq Strays \cup {h}
      <4> SUFFICES ASSUME NEW q \in Active, q \notin Strays PROVE q = h
        OBVIOUS
      <4> QED BY <3>1, PoolsDisjoint DEF Active, Strays
    <3>3. Active = Strays \cup {h}
      BY <2>1, <3>1, <3>2
    <3>4. Cardinality(Active) \in Nat /\ Cardinality(Active) <= Cardinality(Strays) + 1
      BY <2>1, <3>3, OneMore
    <3> QED BY <2>1, <3>4 DEF StrayInv
  <2> QED BY <2>2, <2>3
<1> QED BY <1>1, InitStrayInv, NextStrayInv, PTL DEF Spec

-----------------------------------------------------------------------------
(* The rows of a run and the answers of its sources                       *)

(* Each place below the number of pending rows is taken by one of them.    *)
LEMMA PlaceTaken ==
  ASSUME NEW k \in Nat, k < Cardinality(Pending)
  PROVE  \E r \in Pending : Cardinality(Ahead(r)) = k
<1>1. /\ Pending \subseteq Row /\ IsFiniteSet(Pending)
      /\ \A r \in Pending : /\ Ahead(r) \subseteq Pending /\ IsFiniteSet(Ahead(r))
                            /\ Cardinality(Ahead(r)) \in Nat
  BY ConstantsOK, FS_Subset, FS_CardinalityType DEF Pending, Ahead
<1>2. ASSUME NEW r \in Pending, NEW q \in Pending, Rank[r] < Rank[q]
      PROVE  Cardinality(Ahead(r)) < Cardinality(Ahead(q))
  <2>1. Ahead(r) \subseteq Ahead(q) /\ r \in Ahead(q) /\ r \notin Ahead(r)
    BY <1>1, <1>2, ConstantsOK DEF Ahead
  <2>2. Cardinality(Ahead(r)) <= Cardinality(Ahead(q)) /\ Cardinality(Ahead(r)) # Cardinality(Ahead(q))
    BY <1>1, <2>1, FS_Subset
  <2> QED BY <1>1, <2>2
<1>3. ASSUME NEW S \in SUBSET Pending, \A r \in S : Cardinality(Ahead(r)) < k
      PROVE  IsFiniteSet(S) /\ Cardinality(S) <= k
  <2> DEFINE f == [r \in S |-> Cardinality(Ahead(r))]
  <2>1. f \in [S -> 0..k - 1]
    BY <1>1, <1>3
  <2>2. \A r, q \in S : f[r] = f[q] => r = q
    BY <1>1, <1>2, ConstantsOK
  <2>3. IsFiniteSet(0..k - 1) /\ Cardinality(0..k - 1) = k
    BY FS_Interval
  <2> HIDE DEF f
  <2>4. f \in Injection(S, 0..k - 1)
    BY <2>1, <2>2 DEF Injection, IsInjective
  <2>5. IsFiniteSet(S) /\ Cardinality(S) <= Cardinality(0..k - 1)
    BY <2>3, <2>4, FS_Injection
  <2> QED BY <2>3, <2>5
<1>4. PICK r \in Pending : /\ Cardinality(Ahead(r)) >= k
                           /\ \A q \in Pending : Cardinality(Ahead(q)) >= k => Rank[r] <= Rank[q]
  <2> DEFINE T == {Rank[r] : r \in {q \in Pending : Cardinality(Ahead(q)) >= k}}
  <2>1. T \in SUBSET Nat
    BY <1>1, ConstantsOK
  <2>2. T # {}
    <3>1. SUFFICES ASSUME T = {} PROVE FALSE
      OBVIOUS
    <3>2. ASSUME NEW r \in Pending PROVE Cardinality(Ahead(r)) < k
      <4>1. Rank[r] \in T \/ ~(Cardinality(Ahead(r)) >= k)
        OBVIOUS
      <4> QED BY <1>1, <3>1, <4>1
    <3> QED BY <1>1, <1>3, <3>2, FS_CardinalityType
  <2>3. PICK n \in T : \A m \in T : n <= m
    <3> HIDE DEF T
    <3> QED BY <2>1, <2>2, Least
  <2> QED BY <2>3
<1>5. \A q \in Ahead(r) : Cardinality(Ahead(q)) < k
  <2> SUFFICES ASSUME NEW q \in Ahead(r) PROVE Cardinality(Ahead(q)) < k
    OBVIOUS
  <2>1. q \in Pending /\ Rank[q] < Rank[r] /\ Rank[q] \in Nat /\ Rank[r] \in Nat
    BY <1>1, ConstantsOK DEF Ahead
  <2> QED BY <1>1, <1>4, <2>1
<1>6. Cardinality(Ahead(r)) <= k
  BY <1>1, <1>3, <1>5
<1> QED BY <1>1, <1>4, <1>6

(* A run's rows: pending ones, at most a run's and the day's remaining budget. *)
LEMMA SelectedRows ==
  ASSUME Remaining \in Int, Remaining > 0, Pending # {}
  PROVE  /\ Selected \in Seq(Row) /\ Len(Selected) \in Nat \ {0}
         /\ Len(Selected) <= MaxPerRun /\ Len(Selected) <= Remaining
<1>1. Pending \subseteq Row /\ IsFiniteSet(Pending) /\ Cardinality(Pending) \in Nat \ {0}
  <2>1. Pending \subseteq Row /\ IsFiniteSet(Pending)
    BY ConstantsOK, FS_Subset DEF Pending
  <2> QED BY <2>1, FS_CardinalityType, FS_EmptySet
<1> DEFINE card == Cardinality(Pending)
<1>2. /\ Budget \in Nat \ {0} /\ Budget <= MaxPerRun /\ Budget <= Remaining /\ Budget <= card
  <2>0. card \in Nat \ {0} /\ Budget = Min({MaxPerRun, Remaining, card})
    BY <1>1 DEF Budget
  <2> HIDE DEF card
  <2> QED BY <2>0, BudgetLemma, ConstantsOK
<1> DEFINE e(i) == CHOOSE r \in Pending : Cardinality(Ahead(r)) = i - 1
<1>3. ASSUME NEW i \in 1..Budget PROVE e(i) \in Row
  <2>1. i - 1 \in Nat /\ i - 1 < Cardinality(Pending)
    BY <1>1, <1>2
  <2>2. \E r \in Pending : Cardinality(Ahead(r)) = i - 1
    BY <2>1, PlaceTaken
  <2> QED BY <1>1, <2>2
<1>4. Selected = [i \in 1..Budget |-> e(i)]
  BY DEF Selected
<1> HIDE DEF e, card
<1>5. Selected \in Seq(Row) /\ Len(Selected) = Budget
  BY <1>2, <1>3, <1>4
<1> QED BY <1>2, <1>5

(* What the sources may answer. *)
Reply == [asked : BOOLEAN, answer : Answer]

(* Whatever the sources say, the answer is a status with or without data. *)
LEMMA AnswerTypes ==
  ASSUME NEW cached \in BOOLEAN
  PROVE  Answers(Sources, cached) \subseteq Reply
<1> DEFINE A == Answer
<1> USE DEF Answer
<1>1. Failed \in A /\ Limited \in A
  BY DEF Failed, Limited, FetchStatus
<1>2. \A k, i, c, r : UpstoxAnswer(k, i, c, r) \in A
  BY <1>1 DEF UpstoxAnswer, FetchStatus
<1>3. \A o, h, m : TrendlyneAnswer(cached, o, h, m) \in A
  BY <1>1 DEF TrendlyneAnswer, FetchStatus
<1>4. \A u \in A, t \in A : [asked |-> ~u.data, answer |-> FirstAnswer(u, t)] \in Reply
  BY <1>1 DEF FirstAnswer, Reply
<1> QED BY <1>1, <1>2, <1>3, <1>4 DEF Answers

-----------------------------------------------------------------------------
(* Types                                                                   *)

(* The clock, the database and the history; nothing is booked on a day to come. *)
StoreOK ==
  /\ now \in Time /\ rows \in [Row -> RowStamp] /\ snaps \in [Symbol -> Stamp]
  /\ used \in [Day -> Nat] /\ \A d \in Day : d > DayOf(now) => used[d] = 0
  /\ limitedAt \in Time /\ okAt \in Time /\ since \in Nat
  /\ lock.conn \in Conn \cup {None} /\ lock.depth \in Nat
  /\ lock.conn # None => lock.depth # 0
  /\ asked \in [Day -> Nat] /\ faults \in 0..MaxFaults /\ closed \in 0..MaxClosed

(* The processes' variables are functions on the processes. *)
Shapes ==
  /\ pc = [p \in Proc |-> pc[p]] /\ conn = [p \in Proc |-> conn[p]]
  /\ todo = [p \in Proc |-> todo[p]] /\ left = [p \in Proc |-> left[p]]
  /\ tx = [p \in Proc |-> tx[p]] /\ cache = [p \in Proc |-> cache[p]]

(* One process's values, and how they go together: a batch has rows left,  *)
(* and they fit in it with the fetched ones; an answer due to a row left   *)
(* its snapshot in the session; only a connection has uncommitted work;    *)
(* the run's rows, fetched or not, fit in a run.                           *)
ProcOK(p) ==
  /\ pc[p] \in {"idle", "batch", "apply", "commit", "limited", "unlock"}
  /\ conn[p] \in Conn \cup {None} /\ todo[p] \in Seq(Row)
  /\ left[p] \in 0..BatchSize /\ left[p] <= Len(todo[p])
  /\ TxOK(tx[p]) /\ cache[p] \in [Symbol -> Time]
RunOK(p) ==
  /\ pc[p] = "batch" =>
       left[p] >= 1 /\ tx[p].n + left[p] <= BatchSize /\ ~tx[p].limited
  /\ pc[p] = "apply" =>
       /\ tx[p].due # None /\ SymbolOf[tx[p].due[1]] \in DOMAIN tx[p].snaps
       /\ conn[p] # None /\ tx[p].n + left[p] <= BatchSize
  /\ pc[p] = "commit" => ~tx[p].limited
  /\ pc[p] \in {"idle", "unlock"} => tx[p] = NoTx /\ todo[p] = <<>>
  /\ conn[p] = None => tx[p] = NoTx
  /\ tx[p].at <= now /\ tx[p].n + Len(todo[p]) <= MaxPerRun

TypeInv == StoreOK /\ Shapes /\ \A p \in Proc : ProcOK(p) /\ RunOK(p)

(* What a step of p leaves alone. *)
Alone(q) ==
  /\ pc'[q] = pc[q] /\ conn'[q] = conn[q] /\ todo'[q] = todo[q]
  /\ left'[q] = left[q] /\ tx'[q] = tx[q] /\ cache'[q] = cache[q]

(* A process a step leaves alone keeps its type. *)
LEMMA StillOK ==
  ASSUME NEW q \in Proc, ProcOK(q), RunOK(q), Alone(q), now' = now
  PROVE  ProcOK(q)' /\ RunOK(q)'
<1>1. ProcOK(q)'
  BY DEF ProcOK, Alone, TxOK
<1>2. RunOK(q)'
  BY DEF RunOK, Alone
<1> QED BY <1>1, <1>2

(* Every time is a natural number, on one of the days. *)
LEMMA TimeOfDay == \A t \in Time : t \in Nat /\ DayOf(t) \in Day
<1> SUFFICES ASSUME NEW t \in Time PROVE t \in Nat /\ DayOf(t) \in Day
  OBVIOUS
<1>1. t \in Nat /\ MaxTime \in Nat /\ t <= MaxTime
  BY ConstantsOK DEF Time
<1>2. DayOf(t) \in Nat /\ DayOf(MaxTime) \in Nat /\ DayOf(t) <= DayOf(MaxTime)
  BY <1>1, DayMonotone
<1> QED BY <1>1, <1>2 DEF Day

(* A session without work. *)
LEMMA NoTxOK == TxOK(NoTx) /\ NoTx.n = 0 /\ NoTx.at = 0 /\ ~NoTx.limited
BY ConstantsOK DEF NoTx, TxOK, Time

(* A step of p alone, and what it leaves of the others. *)
LEMMA OneProcessMoves ==
  ASSUME TypeInv, NEW p \in Proc, StoreOK', Shapes', now' = now,
         \A q \in Proc \ {p} : Alone(q), ProcOK(p)', RunOK(p)'
  PROVE  TypeInv'
<1>1. ASSUME NEW q \in Proc PROVE ProcOK(q)' /\ RunOK(q)'
  <2>1. CASE q = p
    BY <2>1
  <2>2. CASE q # p
    <3>1. ProcOK(q) /\ RunOK(q) /\ Alone(q)
      BY <2>2 DEF TypeInv
    <3> QED BY <3>1, StillOK
  <2> QED BY <2>1, <2>2
<1> QED BY <1>1 DEF TypeInv

(* BeginRun preserves the types: the selected rows fill a first batch. *)
LEMMA BeginTypes ==
  ASSUME TypeInv, NEW p \in Proc, NEW c \in Conn, BeginRun(p, c)
  PROVE  TypeInv'
<1> DEFINE S == Selected
<1>1. /\ pc' = [pc EXCEPT ![p] = "batch"] /\ conn' = [conn EXCEPT ![p] = c]
      /\ todo' = [todo EXCEPT ![p] = S] /\ left' = [left EXCEPT ![p] = FirstBatch(S)]
      /\ tx' = [tx EXCEPT ![p] = [NoTx EXCEPT !.at = now]] /\ cache' = cache
      /\ Remaining > 0 /\ Pending # {}
  BY DEF BeginRun, MayRun
<1>2. StoreOK'
  <2>1. UNCHANGED <<now, rows, snaps, used, limitedAt, okAt, since, asked, faults, closed>>
    BY DEF BeginRun, dbVars
  <2>2. lock' = [conn |-> c, depth |-> lock.depth + 1]
    BY DEF BeginRun, TakeLock
  <2>3. lock'.conn = c /\ lock'.depth \in Nat \ {0}
    BY <2>2 DEF TypeInv, StoreOK
  <2> QED BY <2>1, <2>3 DEF TypeInv, StoreOK
<1>3. Remaining \in Int
  BY TimeOfDay, ConstantsOK DEF Remaining, TypeInv, StoreOK
<1>4. S \in Seq(Row) /\ Len(S) \in Nat \ {0} /\ Len(S) <= MaxPerRun
  BY <1>1, <1>3, SelectedRows
<1> HIDE DEF S
<1>5. /\ FirstBatch(S) \in 0..BatchSize /\ FirstBatch(S) >= 1 /\ FirstBatch(S) <= Len(S)
  BY <1>4, ConstantsOK DEF FirstBatch
<1>6. Shapes' /\ \A q \in Proc \ {p} : Alone(q)
  BY <1>1 DEF TypeInv, Shapes, Alone
<1>7. /\ pc'[p] = "batch" /\ conn'[p] = c /\ todo'[p] = S /\ left'[p] = FirstBatch(S)
      /\ tx'[p] = [NoTx EXCEPT !.at = now] /\ cache'[p] = cache[p] /\ now' = now
  BY <1>1 DEF TypeInv, Shapes, BeginRun
<1>8. TxOK([NoTx EXCEPT !.at = now])
  BY ConstantsOK DEF NoTx, TxOK, TypeInv, StoreOK
<1>9. now \in Nat
  BY TimeOfDay DEF TypeInv, StoreOK
<1>10. /\ tx'[p].n = 0 /\ tx'[p].at = now /\ ~tx'[p].limited
  BY <1>7 DEF NoTx
<1>11. ProcOK(p)'
  <2>1. cache[p] \in [Symbol -> Time]
    BY DEF TypeInv, ProcOK
  <2>2. TxOK(tx[p])'
    BY <1>7, <1>8 DEF TxOK
  <2>3. left'[p] \in 0..BatchSize /\ left'[p] <= Len(todo'[p]) /\ todo'[p] \in Seq(Row)
    BY <1>4, <1>5, <1>7
  <2> QED BY <1>7, <2>1, <2>2, <2>3 DEF ProcOK
<1>12. RunOK(p)'
  <2>1. conn'[p] # None /\ pc'[p] = "batch" /\ ~tx'[p].limited
    BY <1>7, <1>10, ConnIsNotNone
  <2>2. left'[p] >= 1 /\ tx'[p].n + left'[p] <= BatchSize
    BY <1>5, <1>7, <1>10, ConstantsOK
  <2>3. tx'[p].at <= now' /\ tx'[p].n + Len(todo'[p]) <= MaxPerRun
    <3>1. tx'[p].at = now' /\ tx'[p].n = 0 /\ todo'[p] = S
      BY <1>7, <1>10
    <3>2. 0 + Len(S) <= MaxPerRun /\ now <= now
      BY <1>4, <1>9
    <3> QED BY <1>7, <3>1, <3>2
  <2> QED BY <2>1, <2>2, <2>3 DEF RunOK
<1> QED BY <1>2, <1>6, <1>7, <1>11, <1>12, OneProcessMoves

(* What a fetch adds to its session's work. *)
LEMMA FetchTx ==
  ASSUME TypeInv, NEW p \in Proc, pc[p] = "batch", NEW r \in Row,
         NEW a \in Answer
  PROVE  LET t == TxAfter(p, r, SymbolOf[r], a)
         IN  /\ TxOK(t) /\ t.n = tx[p].n + 1 /\ t.at <= now
             /\ t.at = IF conn[p] = None THEN now ELSE tx[p].at
             /\ t.limited = (a.status = "RATE_LIMITED")
             /\ t.due = <<r, a>> /\ SymbolOf[r] \in DOMAIN t.snaps
<1> DEFINE s == SymbolOf[r]
           old == tx[p]
           t == TxAfter(p, r, s, a)
           snap == IF s \in DOMAIN old.snaps THEN old.snaps[s] ELSE snaps[s]
<1>1. TxOK(old) /\ old.n + 1 \in 0..BatchSize /\ old.at <= now /\ left[p] \in Nat
  <2>1. /\ TxOK(old) /\ left[p] \in 0..BatchSize /\ left[p] >= 1 /\ old.n + left[p] <= BatchSize
        /\ old.at <= now
    BY DEF TypeInv, ProcOK, RunOK
  <2>2. old.n \in 0..BatchSize
    BY <2>1 DEF TxOK
  <2> QED BY <2>1, <2>2, ConstantsOK
<1>2. s \in Symbol /\ now \in Time /\ now \in Nat
  BY TimeOfDay DEF Symbol, TypeInv, StoreOK
<1>3. snap \in Stamp
  BY <1>1, <1>2 DEF TxOK, TypeInv, StoreOK
<1>4. SnapAfter(snap, a) \in Stamp
  BY <1>2, <1>3 DEF SnapAfter, Stamp, Answer
<1> HIDE DEF snap
<1>5. /\ t.at = IF conn[p] = None THEN now ELSE old.at
      /\ t.n = old.n + 1 /\ t.ok = (old.ok \/ a.status \in {"SUCCESS", "CACHED"})
      /\ t.limited = (a.status = "RATE_LIMITED")
      /\ t.rows = old.rows /\ t.due = <<r, a>> /\ DOMAIN t = DOMAIN NoTx
      /\ t.snaps = [x \in DOMAIN old.snaps \cup {s} |->
                      IF x = s THEN SnapAfter(snap, a) ELSE old.snaps[x]]
  BY DEF TxAfter, snap, NoTx
<1> HIDE DEF t, s
<1>6. DOMAIN t.rows \subseteq Row /\ \A x \in DOMAIN t.rows : t.rows[x] \in RowStamp
  <2> HIDE DEF old
  <2> QED BY <1>1, <1>5 DEF TxOK
<1>7. DOMAIN t.snaps \subseteq Symbol /\ \A x \in DOMAIN t.snaps : t.snaps[x] \in Stamp
  <2> HIDE DEF old
  <2> QED BY <1>1, <1>2, <1>4, <1>5 DEF TxOK
<1>8. t.at \in Time /\ t.n \in 0..BatchSize /\ t.at <= now
  BY <1>1, <1>2, <1>5 DEF TxOK
<1>9. t.ok \in BOOLEAN /\ t.limited \in BOOLEAN
  BY <1>5
<1>10. TxOK(t)
  <2>1. t.due \in Row \X Answer
    BY <1>5
  <2>2. DOMAIN t = DOMAIN NoTx
    BY <1>5
  <2> QED BY <1>6, <1>7, <1>8, <1>9, <2>1, <2>2 DEF TxOK
<1> QED BY <1>5, <1>8, <1>10 DEF t, s

(* Head and tail of the rows to fetch. *)
LEMMA NextRow ==
  ASSUME NEW s \in Seq(Row), NEW n \in Nat, n >= 1, n <= Len(s)
  PROVE  /\ Head(s) \in Row /\ Tail(s) \in Seq(Row) /\ Len(s) \in Nat
         /\ Len(Tail(s)) = Len(s) - 1
<1>1. s # <<>> /\ Len(s) \in Nat
  OBVIOUS
<1> QED BY <1>1

(* A fetch takes one of the l rows left in the batch and of the run's k;   *)
(* n were fetched before.                                                  *)
LEMMA OneRowLess ==
  ASSUME NEW l \in Nat, NEW k \in Nat, NEW n \in Nat, l >= 1, l <= k, l <= BatchSize,
         n + l <= BatchSize, n + k <= MaxPerRun
  PROVE  /\ l - 1 \in 0..BatchSize /\ l - 1 <= k - 1
         /\ (n + 1) + (l - 1) <= BatchSize /\ (n + 1) + (k - 1) <= MaxPerRun
BY ConstantsOK

(* What a fetch does, in the words of its provider's answer. *)
LEMMA FetchStep ==
  ASSUME TypeInv, NEW p \in Proc, NEW c \in Conn, Fetch(p, c)
  PROVE  \E a \in Answer :
           LET t == TxAfter(p, Head(todo[p]), SymbolOf[Head(todo[p])], a)
           IN  /\ tx' = [tx EXCEPT ![p] = t]
               /\ asked' = [asked EXCEPT ![DayOf(t.at)] = @ + 1]
               /\ \/ cache' = cache
                  \/ cache' = [cache EXCEPT ![p][SymbolOf[Head(todo[p])]] = now]
<1> DEFINE r == Head(todo[p])
           s == SymbolOf[r]
<1>1. PICK reply \in Answers(Sources, Cached(p, s)) :
         LET t == TxAfter(p, r, s, reply.answer)
         IN  /\ tx' = [tx EXCEPT ![p] = t]
             /\ asked' = [asked EXCEPT ![DayOf(t.at)] = @ + 1]
             /\ cache' = IF reply.asked /\ reply.answer.data /\ ~Cached(p, s)
                         THEN [cache EXCEPT ![p][s] = now] ELSE cache
  BY DEF Fetch
<1>2. Cached(p, s) \in BOOLEAN
  BY DEF Cached
<1>3. reply.answer \in Answer
  <2> HIDE DEF s
  <2> QED BY <1>1, <1>2, AnswerTypes DEF Reply
<1> QED BY <1>1, <1>3

(* Fetch preserves the types: one row from the batch to the session's work. *)
LEMMA FetchTypes ==
  ASSUME TypeInv, NEW p \in Proc, NEW c \in Conn, Fetch(p, c)
  PROVE  TypeInv'
<1> DEFINE r == Head(todo[p])
           s == SymbolOf[r]
<1>1. /\ pc[p] = "batch" /\ pc' = [pc EXCEPT ![p] = "apply"] /\ conn' = [conn EXCEPT ![p] = c]
      /\ todo' = [todo EXCEPT ![p] = Tail(@)] /\ left' = [left EXCEPT ![p] = @ - 1]
      /\ UNCHANGED <<now, rows, snaps, used, limitedAt, okAt, since, lock, faults, closed>>
  BY DEF Fetch, dbVars
<1>2. PICK a \in Answer :
        /\ tx' = [tx EXCEPT ![p] = TxAfter(p, r, s, a)]
        /\ asked' = [asked EXCEPT ![DayOf(TxAfter(p, r, s, a).at)] = @ + 1]
        /\ cache' = cache \/ cache' = [cache EXCEPT ![p][s] = now]
  BY FetchStep
<1>3. /\ todo[p] \in Seq(Row) /\ left[p] \in Nat /\ left[p] >= 1 /\ left[p] <= Len(todo[p])
      /\ left[p] <= BatchSize /\ tx[p].n \in Nat /\ tx[p].n + left[p] <= BatchSize
      /\ tx[p].n + Len(todo[p]) <= MaxPerRun
  BY <1>1, ConstantsOK DEF TypeInv, ProcOK, RunOK, TxOK
<1>4. /\ r \in Row /\ Tail(todo[p]) \in Seq(Row) /\ Len(todo[p]) \in Nat
      /\ Len(Tail(todo[p])) = Len(todo[p]) - 1
  BY <1>3, NextRow
<1> DEFINE t == TxAfter(p, r, s, a)
<1> HIDE DEF r
<1>5. /\ TxOK(t) /\ t.n = tx[p].n + 1 /\ t.at <= now
      /\ t.due # None /\ t.due[1] = r /\ s \in DOMAIN t.snaps
  <2>1. /\ TxOK(t) /\ t.n = tx[p].n + 1 /\ t.at <= now
        /\ t.due = <<r, a>> /\ s \in DOMAIN t.snaps
    BY <1>1, <1>4, FetchTx
  <2>2. <<r, a>> # None /\ <<r, a>>[1] = r
    BY DEF None
  <2> HIDE DEF t
  <2> QED BY <2>1, <2>2
<1>6. s \in Symbol /\ now \in Time /\ DayOf(t.at) \in Day /\ asked \in [Day -> Nat]
  BY <1>4, <1>5, TimeOfDay DEF Symbol, TypeInv, StoreOK, TxOK
<1> HIDE DEF t, s
<1>7. StoreOK'
  <2>1. asked' \in [Day -> Nat]
    BY <1>2, <1>6 DEF t
  <2> QED BY <1>1, <2>1 DEF TypeInv, StoreOK
<1>8. /\ tx' = [tx EXCEPT ![p] = t]
      /\ cache'[p] \in [Symbol -> Time] /\ cache' = [q \in Proc |-> cache'[q]]
      /\ \A q \in Proc \ {p} : cache'[q] = cache[q]
  <2>1. cache = [q \in Proc |-> cache[q]] /\ cache[p] \in [Symbol -> Time]
    BY DEF TypeInv, Shapes, ProcOK
  <2>2. tx' = [tx EXCEPT ![p] = t] /\ (cache' = cache \/ cache' = [cache EXCEPT ![p][s] = now])
    BY <1>2 DEF t
  <2>3. CASE cache' = cache
    BY <2>1, <2>2, <2>3
  <2>4. CASE cache' = [cache EXCEPT ![p][s] = now]
    BY <1>6, <2>1, <2>2, <2>4
  <2> QED BY <2>2, <2>3, <2>4
<1>9. Shapes' /\ \A q \in Proc \ {p} : Alone(q)
  BY <1>1, <1>2, <1>8 DEF TypeInv, Shapes, Alone
<1>10. /\ conn'[p] = c /\ todo'[p] = Tail(todo[p]) /\ left'[p] = left[p] - 1 /\ tx'[p] = t
       /\ pc'[p] = "apply"
  BY <1>1, <1>2, <1>8 DEF TypeInv, Shapes
<1>11. ProcOK(p)'
  <2>1. TxOK(tx[p])'
    BY <1>5, <1>10 DEF TxOK
  <2>2. pc'[p] = "apply"
    BY <1>10
  <2>3. left'[p] \in 0..BatchSize /\ left'[p] <= Len(todo'[p])
    <3>1. left'[p] = left[p] - 1 /\ Len(todo'[p]) = Len(todo[p]) - 1
      BY <1>4, <1>10
    <3>2. left[p] - 1 \in 0..BatchSize /\ left[p] - 1 <= Len(todo[p]) - 1
      BY <1>3, <1>4, OneRowLess
    <3> QED BY <3>1, <3>2
  <2>4. conn'[p] \in Conn \cup {None} /\ todo'[p] \in Seq(Row)
    BY <1>4, <1>10
  <2> QED BY <1>8, <2>1, <2>2, <2>3, <2>4 DEF ProcOK
<1>12. RunOK(p)'
  <2>1. tx'[p].n = tx[p].n + 1 /\ tx'[p].at <= now'
    BY <1>1, <1>5, <1>10
  <2>2. tx'[p].n + Len(todo'[p]) <= MaxPerRun
    <3>1. Len(todo'[p]) = Len(todo[p]) - 1
      BY <1>4, <1>10
    <3>2. (tx[p].n + 1) + (Len(todo[p]) - 1) <= MaxPerRun
      BY <1>3, <1>4, OneRowLess
    <3> QED BY <2>1, <3>1, <3>2
  <2>3. tx'[p].n + left'[p] <= BatchSize
    BY <1>3, <1>4, <1>10, <2>1, OneRowLess
  <2>4. conn'[p] # None
    BY <1>10, ConnIsNotNone
  <2>5. tx'[p].due # None /\ SymbolOf[tx'[p].due[1]] \in DOMAIN tx'[p].snaps
    BY <1>5, <1>10 DEF s
  <2> QED BY <1>10, <2>1, <2>2, <2>3, <2>4, <2>5 DEF RunOK
<1> QED BY <1>1, <1>7, <1>9, <1>11, <1>12, OneProcessMoves

(* What Apply does to its session: the row due gets its answer. *)
LEMMA ApplyStep ==
  ASSUME TypeInv, NEW p \in Proc, Apply(p)
  PROVE  LET t == tx[p]
             r == t.due[1]
             a == t.due[2]
             row == IF r \in DOMAIN t.rows THEN t.rows[r] ELSE rows[r]
             snap == t.snaps[SymbolOf[r]]
         IN  /\ pc[p] = "apply" /\ TxOK(t) /\ r \in Row /\ a \in Answer
             /\ SymbolOf[r] \in DOMAIN t.snaps /\ row \in RowStamp /\ snap \in Stamp
             /\ tx' = [tx EXCEPT ![p] = tx'[p]] /\ DOMAIN tx'[p] = DOMAIN NoTx
             /\ tx'[p].at = t.at /\ tx'[p].n = t.n /\ tx'[p].ok = t.ok
             /\ tx'[p].limited = t.limited /\ tx'[p].due = None /\ tx'[p].snaps = t.snaps
             /\ tx'[p].rows = [x \in DOMAIN t.rows \cup {r} |->
                                 IF x = r THEN RowAfter(row, a, snap) ELSE t.rows[x]]
             /\ pc' = [pc EXCEPT ![p] = IF t.limited THEN "limited"
                                        ELSE IF left[p] = 0 THEN "commit" ELSE "batch"]
             /\ UNCHANGED <<now, rows, snaps, used, limitedAt, okAt, since, lock, conn, todo, left,
                            cache, asked, faults, closed>>
<1> DEFINE t == tx[p]
           r == t.due[1]
           a == t.due[2]
           row == IF r \in DOMAIN t.rows THEN t.rows[r] ELSE rows[r]
           snap == t.snaps[SymbolOf[r]]
           R == [x \in DOMAIN t.rows \cup {r} |->
                   IF x = r THEN RowAfter(row, a, snap) ELSE t.rows[x]]
<1>1. /\ pc[p] = "apply" /\ tx' = [tx EXCEPT ![p] = [t EXCEPT !.due = None, !.rows = R]]
      /\ pc' = [pc EXCEPT ![p] = IF t.limited THEN "limited"
                                 ELSE IF left[p] = 0 THEN "commit" ELSE "batch"]
      /\ UNCHANGED <<now, rows, snaps, used, limitedAt, okAt, since, lock, conn, todo, left,
                     cache, asked, faults, closed>>
  BY DEF Apply, dbVars
<1>2. /\ TxOK(t) /\ t.due # None /\ SymbolOf[r] \in DOMAIN t.snaps
      /\ tx = [q \in Proc |-> tx[q]]
  BY <1>1 DEF TypeInv, Shapes, ProcOK, RunOK
<1>3. t.due \in Row \X Answer /\ DOMAIN t = DOMAIN NoTx
  BY <1>2 DEF TxOK
<1>4. r \in Row /\ a \in Answer
  BY <1>3
<1>5. row \in RowStamp /\ snap \in Stamp
  BY <1>2, <1>4 DEF TxOK, TypeInv, StoreOK
<1> HIDE DEF R, row, snap, r, a
<1>6. tx'[p] = [t EXCEPT !.due = None, !.rows = R] /\ tx' = [tx EXCEPT ![p] = tx'[p]]
  BY <1>1, <1>2
<1> HIDE DEF t
<1>7. /\ DOMAIN tx'[p] = DOMAIN NoTx
      /\ tx'[p].at = t.at /\ tx'[p].n = t.n /\ tx'[p].ok = t.ok
      /\ tx'[p].limited = t.limited /\ tx'[p].due = None /\ tx'[p].snaps = t.snaps
      /\ tx'[p].rows = R
  BY <1>3, <1>6 DEF NoTx
<1> QED BY <1>1, <1>2, <1>4, <1>5, <1>6, <1>7 DEF t, r, a, row, snap, R

(* Apply preserves the types: a batch goes on only with rows left. *)
LEMMA ApplyTypes ==
  ASSUME TypeInv, NEW p \in Proc, Apply(p)
  PROVE  TypeInv'
<1> DEFINE t == tx[p]
           r == t.due[1]
           a == t.due[2]
           row == IF r \in DOMAIN t.rows THEN t.rows[r] ELSE rows[r]
           snap == t.snaps[SymbolOf[r]]
<1>1. /\ pc[p] = "apply" /\ TxOK(t) /\ r \in Row /\ a \in Answer
      /\ row \in RowStamp /\ snap \in Stamp
      /\ tx' = [tx EXCEPT ![p] = tx'[p]] /\ DOMAIN tx'[p] = DOMAIN NoTx
      /\ tx'[p].at = t.at /\ tx'[p].n = t.n /\ tx'[p].ok = t.ok
      /\ tx'[p].limited = t.limited /\ tx'[p].due = None /\ tx'[p].snaps = t.snaps
      /\ tx'[p].rows = [x \in DOMAIN t.rows \cup {r} |->
                          IF x = r THEN RowAfter(row, a, snap) ELSE t.rows[x]]
      /\ pc' = [pc EXCEPT ![p] = IF t.limited THEN "limited"
                                 ELSE IF left[p] = 0 THEN "commit" ELSE "batch"]
      /\ UNCHANGED <<now, rows, snaps, used, limitedAt, okAt, since, lock, conn, todo, left,
                     cache, asked, faults, closed>>
  BY ApplyStep
<1>2. RowAfter(row, a, snap) \in RowStamp
  <2>1. now \in Time
    BY DEF TypeInv, StoreOK
  <2> HIDE DEF row, a, snap
  <2> QED BY <1>1, <2>1 DEF RowAfter, RowStamp, Stamp, Answer
<1> HIDE DEF r, a, row, snap
<1>3. TxOK(tx[p])'
  <2>1. DOMAIN tx'[p].rows \subseteq Row /\ \A x \in DOMAIN tx'[p].rows : tx'[p].rows[x] \in RowStamp
    BY <1>1, <1>2 DEF TxOK
  <2> HIDE DEF t
  <2> QED BY <1>1, <2>1 DEF TxOK
<1>4. StoreOK' /\ Shapes' /\ \A q \in Proc \ {p} : Alone(q)
  <2>1. StoreOK'
    BY <1>1 DEF TypeInv, StoreOK
  <2>2. Shapes' /\ \A q \in Proc \ {p} : Alone(q)
    BY <1>1 DEF TypeInv, Shapes, Alone
  <2> QED BY <2>1, <2>2
<1>5. pc'[p] = IF t.limited THEN "limited" ELSE IF left[p] = 0 THEN "commit" ELSE "batch"
  BY <1>1 DEF TypeInv, Shapes
<1>6. ProcOK(p) /\ RunOK(p) /\ left[p] \in Nat
  BY ConstantsOK DEF TypeInv, ProcOK
<1>7. ProcOK(p)'
  BY <1>1, <1>3, <1>5, <1>6 DEF ProcOK
<1>8. RunOK(p)'
  <2>1. /\ conn[p] # None /\ tx[p].n + left[p] <= BatchSize
        /\ tx[p].at <= now /\ tx[p].n + Len(todo[p]) <= MaxPerRun
    BY <1>1, <1>6 DEF RunOK
  <2> QED BY <1>1, <1>5, <1>6, <2>1 DEF RunOK
<1> QED BY <1>1, <1>4, <1>7, <1>8, OneProcessMoves

(* Commit preserves the types: the session's work becomes the stored one. *)
LEMMA CommitTypes ==
  ASSUME TypeInv, NEW p \in Proc, Commit(p)
  PROVE  TypeInv'
<1> DEFINE t == tx[p]
           over == pc[p] = "limited" \/ todo[p] = <<>>
<1>1. /\ pc[p] \in {"commit", "limited"}
      /\ rows' = [r \in Row |-> IF r \in DOMAIN t.rows THEN t.rows[r] ELSE rows[r]]
      /\ snaps' = [s \in Symbol |-> IF s \in DOMAIN t.snaps THEN t.snaps[s] ELSE snaps[s]]
      /\ used' = [used EXCEPT ![DayOf(t.at)] = @ + t.n]
      /\ okAt' = IF t.ok THEN t.at ELSE okAt
      /\ limitedAt' = IF t.limited THEN t.at ELSE limitedAt
      /\ since' = IF t.ok THEN 0 ELSE IF t.limited THEN since + 1 ELSE since
      /\ tx' = [tx EXCEPT ![p] = NoTx] /\ conn' = [conn EXCEPT ![p] = None]
      /\ pc' = [pc EXCEPT ![p] = IF over THEN "unlock" ELSE "batch"]
      /\ left' = [left EXCEPT ![p] = IF over THEN 0 ELSE FirstBatch(todo[p])]
      /\ todo' = IF over THEN [todo EXCEPT ![p] = <<>>] ELSE todo
      /\ UNCHANGED <<now, lock, cache, asked, faults, closed>>
  BY DEF Commit
<1>2. TxOK(t) /\ t.at <= now /\ t.n \in Nat /\ t.at \in Nat /\ now \in Nat /\ DayOf(t.at) \in Day
  <2>1. TxOK(t) /\ t.at <= now /\ now \in Time
    BY DEF TypeInv, ProcOK, RunOK, StoreOK
  <2>2. t.n \in 0..BatchSize /\ t.at \in Time
    BY <2>1 DEF TxOK
  <2> QED BY <2>1, <2>2, TimeOfDay, ConstantsOK
<1>3. /\ todo[p] \in Seq(Row) /\ Len(todo[p]) \in Nat /\ Len(todo[p]) <= MaxPerRun
      /\ cache[p] \in [Symbol -> Time]
  <2>1. todo[p] \in Seq(Row) /\ t.n + Len(todo[p]) <= MaxPerRun /\ cache[p] \in [Symbol -> Time]
    BY DEF TypeInv, ProcOK, RunOK
  <2>2. Len(todo[p]) \in Nat
    BY <2>1
  <2> HIDE DEF t
  <2> QED BY <1>2, <2>1, <2>2, ConstantsOK
<1>4. StoreOK'
  <2>1. rows' \in [Row -> RowStamp] /\ snaps' \in [Symbol -> Stamp]
    BY <1>1, <1>2 DEF TxOK, TypeInv, StoreOK
  <2>2. used' \in [Day -> Nat]
    BY <1>1, <1>2 DEF TypeInv, StoreOK
  <2>3. ASSUME NEW d \in Day, d > DayOf(now) PROVE used'[d] = 0
    <3>1. DayOf(t.at) <= DayOf(now) /\ DayOf(t.at) \in Nat /\ DayOf(now) \in Nat
      BY <1>2, DayMonotone
    <3>2. d # DayOf(t.at) /\ used[d] = 0
      BY <2>3, <3>1, ConstantsOK DEF TypeInv, StoreOK, Day
    <3> QED BY <1>1, <3>2 DEF TypeInv, StoreOK
  <2>4. limitedAt' \in Time /\ okAt' \in Time /\ since' \in Nat
    BY <1>1, <1>2 DEF TxOK, TypeInv, StoreOK
  <2>5. UNCHANGED <<now, lock, asked, faults, closed>>
    BY <1>1
  <2> HIDE DEF t, over
  <2> QED BY <2>1, <2>2, <2>3, <2>4, <2>5 DEF TypeInv, StoreOK
<1> HIDE DEF t, over
<1>5. Shapes' /\ \A q \in Proc \ {p} : Alone(q)
  BY <1>1 DEF TypeInv, Shapes, Alone
<1>6. /\ tx'[p] = NoTx /\ conn'[p] = None /\ pc'[p] = IF over THEN "unlock" ELSE "batch"
      /\ left'[p] = IF over THEN 0 ELSE FirstBatch(todo[p])
      /\ todo'[p] = IF over THEN <<>> ELSE todo[p]
      /\ cache'[p] = cache[p] /\ now' = now
  BY <1>1 DEF TypeInv, Shapes
<1>7. ~over => /\ FirstBatch(todo[p]) \in 0..BatchSize /\ FirstBatch(todo[p]) >= 1
               /\ FirstBatch(todo[p]) <= Len(todo[p])
  BY <1>3, ConstantsOK DEF over, FirstBatch
<1>8. TxOK(tx[p])' /\ tx'[p].n = 0 /\ tx'[p].at = 0 /\ ~tx'[p].limited
  BY <1>6, NoTxOK DEF TxOK
<1>9. CASE over
  <2>1. ProcOK(p)'
    BY <1>3, <1>6, <1>8, <1>9, ConstantsOK DEF ProcOK
  <2>2. RunOK(p)'
    BY <1>2, <1>6, <1>8, <1>9, ConstantsOK DEF RunOK
  <2> QED BY <1>4, <1>5, <1>6, <2>1, <2>2, OneProcessMoves
<1>10. CASE ~over
  <2>1. ProcOK(p)'
    BY <1>3, <1>6, <1>7, <1>8, <1>10, ConstantsOK DEF ProcOK
  <2>2. RunOK(p)'
    BY <1>2, <1>3, <1>6, <1>7, <1>8, <1>10, ConstantsOK DEF RunOK
  <2> QED BY <1>4, <1>5, <1>6, <2>1, <2>2, OneProcessMoves
<1> QED BY <1>9, <1>10

(* A failing or dying run leaves its process as it was at the start. *)
LEMMA AbandonTypes ==
  ASSUME TypeInv, NEW p \in Proc, Abandon(p), StoreOK', now' = now,
         cache' = cache \/ cache' = [cache EXCEPT ![p] = [s \in Symbol |-> 0]]
  PROVE  TypeInv'
<1>1. /\ pc' = [pc EXCEPT ![p] = "idle"] /\ conn' = [conn EXCEPT ![p] = None]
      /\ todo' = [todo EXCEPT ![p] = <<>>] /\ left' = [left EXCEPT ![p] = 0]
      /\ tx' = [tx EXCEPT ![p] = NoTx]
  BY DEF Abandon
<1>2. /\ cache'[p] \in [Symbol -> Time] /\ cache' = [q \in Proc |-> cache'[q]]
      /\ \A q \in Proc \ {p} : cache'[q] = cache[q]
  <2>1. cache = [q \in Proc |-> cache[q]] /\ cache[p] \in [Symbol -> Time] /\ 0 \in Time
    BY ConstantsOK DEF TypeInv, Shapes, ProcOK, Time
  <2>2. CASE cache' = cache
    BY <2>1, <2>2
  <2>3. CASE cache' = [cache EXCEPT ![p] = [s \in Symbol |-> 0]]
    BY <2>1, <2>3
  <2> QED BY <2>2, <2>3
<1>3. Shapes' /\ \A q \in Proc \ {p} : Alone(q)
  BY <1>1, <1>2 DEF TypeInv, Shapes, Alone
<1>4. pc'[p] = "idle" /\ conn'[p] = None /\ todo'[p] = <<>> /\ left'[p] = 0 /\ tx'[p] = NoTx
  BY <1>1 DEF TypeInv, Shapes
<1>5. now \in Nat
  BY TimeOfDay DEF TypeInv, StoreOK
<1>6. TxOK(tx[p])' /\ tx'[p].n = 0 /\ tx'[p].at = 0 /\ ~tx'[p].limited
  BY <1>4, NoTxOK DEF TxOK
<1>7. ProcOK(p)'
  BY <1>2, <1>4, <1>6, ConstantsOK DEF ProcOK
<1>8. RunOK(p)'
  BY <1>4, <1>5, <1>6, ConstantsOK DEF RunOK
<1> QED BY <1>3, <1>7, <1>8, OneProcessMoves

(* Every step preserves TypeInv. *)
LEMMA NextTypes == TypeInv /\ [Next]_vars => TypeInv'
<1> SUFFICES ASSUME TypeInv, [Next]_vars PROVE TypeInv'
  OBVIOUS
<1>1. ASSUME NEW p \in Proc, NEW c \in Conn, Unlock(p, c) PROVE TypeInv'
  <2>1. /\ pc[p] = "unlock" /\ pc' = [pc EXCEPT ![p] = "idle"] /\ lock' = Released(c)
        /\ UNCHANGED <<now, rows, snaps, used, limitedAt, okAt, since, conn, todo, left, tx,
                       cache, asked, faults, closed>>
    BY <1>1 DEF Unlock, dbVars
  <2>2. /\ lock'.conn \in Conn \cup {None} /\ lock'.depth \in Nat
        /\ lock'.conn # None => lock'.depth # 0
    <3>1. /\ lock.conn \in Conn \cup {None} /\ lock.depth \in Nat
          /\ lock.conn # None => lock.depth # 0
      BY DEF TypeInv, StoreOK
    <3>2. CASE lock' = lock \/ lock' = Unlocked
      BY <3>1, <3>2 DEF Unlocked
    <3>3. CASE lock' = [lock EXCEPT !.depth = @ - 1] /\ lock.depth # 1 /\ lock.conn = c
      <4>1. lock'.conn = lock.conn /\ lock'.depth = lock.depth - 1
        BY <3>3
      <4>2. lock.depth \in Nat /\ lock.depth # 0
        BY <3>1, <3>3, ConnIsNotNone
      <4>3. lock.depth - 1 \in Nat /\ lock.depth - 1 # 0
        BY <3>3, <4>2
      <4> QED BY <3>1, <4>1, <4>3
    <3> QED BY <2>1, <3>2, <3>3 DEF Released
  <2>3. StoreOK'
    BY <2>1, <2>2 DEF TypeInv, StoreOK
  <2>4. Shapes' /\ \A q \in Proc \ {p} : Alone(q)
    BY <2>1 DEF TypeInv, Shapes, Alone
  <2>5. pc'[p] = "idle" /\ Alone(p)!2
    BY <2>1 DEF TypeInv, Shapes, Alone
  <2>6. ProcOK(p) /\ RunOK(p)
    BY DEF TypeInv
  <2>7. ProcOK(p)'
    BY <2>1, <2>5, <2>6 DEF ProcOK, TxOK
  <2>8. RunOK(p)'
    BY <2>1, <2>5, <2>6 DEF RunOK
  <2> QED BY <2>1, <2>3, <2>4, <2>7, <2>8, OneProcessMoves
<1>2. ASSUME NEW p \in Proc, RunFails(p) PROVE TypeInv'
  <2>1. /\ faults' = faults + 1 /\ faults < MaxFaults /\ Abandon(p)
        /\ UNCHANGED <<now, rows, snaps, used, limitedAt, okAt, since, lock, cache, asked, closed>>
    BY <1>2 DEF RunFails, dbVars
  <2>2. StoreOK'
    BY <2>1, ConstantsOK DEF TypeInv, StoreOK
  <2> QED BY <2>1, <2>2, AbandonTypes
<1>3. ASSUME NEW p \in Proc, Crash(p) PROVE TypeInv'
  <2>1. /\ faults' = faults + 1 /\ faults < MaxFaults /\ Abandon(p)
        /\ cache' = [cache EXCEPT ![p] = [s \in Symbol |-> 0]]
        /\ lock' = lock \/ lock' = Unlocked
        /\ UNCHANGED <<now, rows, snaps, used, limitedAt, okAt, since, asked, closed>>
    BY <1>3 DEF Crash, dbVars
  <2>2. /\ lock'.conn \in Conn \cup {None} /\ lock'.depth \in Nat
        /\ lock'.conn # None => lock'.depth # 0
    BY <2>1 DEF TypeInv, StoreOK, Unlocked
  <2>3. StoreOK'
    BY <2>1, <2>2, ConstantsOK DEF TypeInv, StoreOK
  <2> QED BY <2>1, <2>3, AbandonTypes
<1>4. ASSUME NEW p \in Proc, NEW c \in Conn, CloseIdle(p, c) PROVE TypeInv'
  <2>1. /\ closed' = closed + 1 /\ closed < MaxClosed /\ lock' = Unlocked
        /\ UNCHANGED <<now, rows, snaps, used, limitedAt, okAt, since, asked, faults>>
        /\ UNCHANGED <<pc, conn, todo, left, tx, cache>>
    BY <1>4 DEF CloseIdle, dbVars, procVars
  <2>2. StoreOK'
    BY <2>1, ConstantsOK DEF TypeInv, StoreOK, Unlocked
  <2>3. Shapes' /\ \A q \in Proc : Alone(q)
    BY <2>1 DEF TypeInv, Shapes, Alone
  <2> QED BY <2>1, <2>2, <2>3, StillOK DEF TypeInv
<1>5. ASSUME Tick PROVE TypeInv'
  <2>1. /\ now' = now + 1 /\ now < MaxTime
        /\ UNCHANGED <<rows, snaps, used, limitedAt, okAt, since, lock, asked, faults, closed>>
        /\ UNCHANGED <<pc, conn, todo, left, tx, cache>>
    BY <1>5 DEF Tick, dbVars, procVars
  <2>2. now \in Time /\ now' \in Time /\ now \in Nat /\ now' \in Nat
    BY <2>1, TimeOfDay, ConstantsOK DEF TypeInv, StoreOK, Time
  <2>3. StoreOK'
    <3>1. ASSUME NEW d \in Day, d > DayOf(now') PROVE used[d] = 0
      <4>1. DayOf(now) \in Nat /\ DayOf(now') \in Nat /\ DayOf(now) <= DayOf(now')
        BY <2>1, <2>2, DayMonotone
      <4>2. d \in Int
        BY DEF Day
      <4> QED BY <3>1, <4>1, <4>2 DEF TypeInv, StoreOK
    <3> QED BY <2>1, <2>2, <3>1 DEF TypeInv, StoreOK
  <2>4. Shapes'
    BY <2>1 DEF TypeInv, Shapes
  <2>5. ASSUME NEW q \in Proc PROVE ProcOK(q)' /\ RunOK(q)'
    <3>1. ProcOK(q) /\ RunOK(q) /\ tx[q].at \in Time
      BY DEF TypeInv, ProcOK, TxOK
    <3>2. ProcOK(q)'
      BY <2>1, <3>1 DEF ProcOK, TxOK
    <3>3. tx'[q].at <= now'
      <4>1. tx'[q].at = tx[q].at /\ tx[q].at \in Nat /\ tx[q].at <= now
        BY <2>1, <3>1, TimeOfDay DEF RunOK
      <4> QED BY <2>1, <2>2, <4>1
    <3>4. RunOK(q)'
      BY <2>1, <3>1, <3>3 DEF RunOK
    <3> QED BY <3>2, <3>4
  <2> QED BY <2>3, <2>4, <2>5 DEF TypeInv
<1>6. CASE UNCHANGED vars
  <2>1. /\ UNCHANGED <<now, rows, snaps, used, limitedAt, okAt, since, lock, asked, faults, closed>>
        /\ UNCHANGED <<pc, conn, todo, left, tx, cache>>
    BY <1>6 DEF vars, dbVars, procVars
  <2>2. StoreOK' /\ Shapes' /\ \A q \in Proc : Alone(q)
    BY <2>1 DEF TypeInv, StoreOK, Shapes, Alone
  <2> QED BY <2>1, <2>2, StillOK DEF TypeInv
<1> QED BY <1>1, <1>2, <1>3, <1>4, <1>5, <1>6, BeginTypes, FetchTypes, ApplyTypes,
        CommitTypes DEF Next

(* The initial state satisfies TypeInv. *)
LEMMA InitTypes == Init => TypeInv
<1> SUFFICES ASSUME Init PROVE TypeInv
  OBVIOUS
<1>1. 0 \in Time /\ 1 \in Time /\ 0 \in Day
  BY TimeOfDay, ConstantsOK DEF Time, Day
<1>2. "PENDING" \in FetchStatus
  BY DEF FetchStatus
<1>3. rows \in [Row -> RowStamp] /\ snaps \in [Symbol -> Stamp]
  BY <1>1, <1>2 DEF Init, Stamp, RowStamp
<1>4. StoreOK
  BY <1>1, <1>3, ConstantsOK DEF Init, StoreOK, Unlocked
<1>5. Shapes
  BY DEF Init, Shapes
<1>6. ASSUME NEW p \in Proc PROVE ProcOK(p) /\ RunOK(p)
  <2>1. /\ pc[p] = "idle" /\ conn[p] = None /\ todo[p] = <<>> /\ left[p] = 0 /\ tx[p] = NoTx
        /\ cache[p] \in [Symbol -> Time] /\ now = 1
    BY <1>1 DEF Init
  <2>2. TxOK(tx[p]) /\ tx[p].n = 0 /\ tx[p].at = 0
    BY <2>1, NoTxOK
  <2>3. ProcOK(p)
    BY <2>1, <2>2, ConstantsOK DEF ProcOK
  <2>4. RunOK(p)
    BY <2>1, <2>2, ConstantsOK DEF RunOK
  <2> QED BY <2>3, <2>4
<1> QED BY <1>4, <1>5, <1>6 DEF TypeInv

(* Every variable has its type: a session never fetches more rows than     *)
(* fundamental_batch_size before it commits, and never one it has not got. *)
THEOREM TypeCorrect == Spec => []TypeOK
<1>1. TypeInv => TypeOK
  <2> SUFFICES ASSUME TypeInv PROVE TypeOK
    OBVIOUS
  <2>1. /\ pc \in [Proc -> {"idle", "batch", "apply", "commit", "limited", "unlock"}]
        /\ conn \in [Proc -> Conn \cup {None}] /\ todo \in [Proc -> Seq(Row)]
        /\ left \in [Proc -> 0..BatchSize] /\ cache \in [Proc -> [Symbol -> Time]]
    BY DEF TypeInv, Shapes, ProcOK
  <2>2. \A p \in Proc : left[p] <= Len(todo[p]) /\ TxOK(tx[p])
    BY DEF TypeInv, ProcOK
  <2> QED BY <2>1, <2>2 DEF TypeInv, StoreOK, TypeOK
<1> QED BY <1>1, InitTypes, NextTypes, PTL DEF Spec

-----------------------------------------------------------------------------
(* Candidate rows and snapshots                                            *)

(* While no connection is closed, the lock of a run is held by some        *)
(* connection of its own process.                                          *)
LockInv == pc = [p \in Proc |-> pc[p]] /\ Strays = {}

(* The rows and snapshots the session of p sees: its uncommitted ones over *)
(* the stored.                                                             *)
RowSeen(p, r) == IF r \in DOMAIN tx[p].rows THEN tx[p].rows[r] ELSE rows[r]
SnapSeen(p, s) == IF s \in DOMAIN tx[p].snaps THEN tx[p].snaps[s] ELSE snaps[s]

NoWork(p) == tx[p].rows = <<>> /\ tx[p].snaps = <<>>

(* Stored or seen by a session, each row was scored with a snapshot no     *)
(* newer than its symbol's and stamped no earlier, and nothing is in the   *)
(* future; the data of each snapshot reached a row, or are due to one;     *)
(* between its commit and its next run a process has nothing uncommitted.  *)
Ordered(row, snap) ==
  /\ row.of \in 0..now /\ row.at \in Nat /\ snap.at \in 0..now
  /\ row.of <= snap.at /\ row.of <= row.at
Due(p, s) == pc[p] = "apply" /\ tx[p].due[2].data /\ SymbolOf[tx[p].due[1]] = s
StoredOK ==
  /\ \A r \in Row : Ordered(rows[r], snaps[SymbolOf[r]])
  /\ \A s \in Symbol : \E r \in Row : SymbolOf[r] = s /\ rows[r].of = snaps[s].at
SessionOK(p) ==
  /\ pc[p] \in {"idle", "unlock"} => NoWork(p)
  /\ \A r \in Row : Ordered(RowSeen(p, r), SnapSeen(p, SymbolOf[r]))
  /\ \A s \in Symbol : \/ \E r \in Row : SymbolOf[r] = s /\ RowSeen(p, r).of = SnapSeen(p, s).at
                       \/ Due(p, s)
FreshInv ==
  /\ now \in Nat /\ tx = [p \in Proc |-> tx[p]]
  /\ StoredOK /\ \A p \in Proc : SessionOK(p)

(* A session without uncommitted work sees what is stored. *)
LEMMA IdleSession ==
  ASSUME NEW p \in Proc, StoredOK, NoWork(p)
  PROVE  SessionOK(p)
BY DEF StoredOK, NoWork, SessionOK, RowSeen, SnapSeen

(* A session that a step leaves alone, with what is stored. *)
LEMMA SessionKept ==
  ASSUME NEW q \in Proc, SessionOK(q), tx'[q] = tx[q], pc'[q] = pc[q],
         UNCHANGED <<rows, snaps>>, now' \in {now, now + 1}, now \in Nat
  PROVE  SessionOK(q)'
<1>1. \A r : RowSeen(q, r)' = RowSeen(q, r) /\ SnapSeen(q, r)' = SnapSeen(q, r)
  BY DEF RowSeen, SnapSeen
<1>2. \A s : Due(q, s)' = Due(q, s)
  BY DEF Due
<1>3. ASSUME NEW r \in Row PROVE Ordered(RowSeen(q, r), SnapSeen(q, SymbolOf[r]))'
  BY <1>1 DEF SessionOK, Ordered
<1> QED BY <1>1, <1>2, <1>3 DEF SessionOK, NoWork

(* What a fetch lets its session see: a snapshot of now if it brought data. *)
LEMMA FetchTimes ==
  ASSUME NEW p \in Proc, NEW r, NEW s, NEW a, NEW x,
         tx' = [tx EXCEPT ![p] = TxAfter(p, r, s, a)], tx = [q \in Proc |-> tx[q]],
         UNCHANGED <<rows, snaps>>
  PROVE  /\ RowSeen(p, x)' = RowSeen(p, x)
         /\ (SnapSeen(p, x).at)' = IF x = s /\ a.data THEN now ELSE SnapSeen(p, x).at
         /\ tx'[p].due = <<r, a>>
<1> DEFINE old == tx[p]
           snap == IF s \in DOMAIN old.snaps THEN old.snaps[s] ELSE snaps[s]
<1>1. tx'[p].rows = old.rows /\ tx'[p].due = <<r, a>>
  BY DEF TxAfter
<1>2. /\ DOMAIN tx'[p].snaps = {s} \cup DOMAIN old.snaps
      /\ x \in DOMAIN tx'[p].snaps =>
           tx'[p].snaps[x] = IF x = s THEN SnapAfter(snap, a) ELSE old.snaps[x]
  BY DEF TxAfter
<1>3. SnapAfter(snap, a).at = IF a.data THEN now ELSE snap.at
  BY DEF SnapAfter
<1>4. RowSeen(p, x)' = RowSeen(p, x)
  BY <1>1 DEF RowSeen
<1>5. (SnapSeen(p, x).at)' = IF x = s /\ a.data THEN now ELSE SnapSeen(p, x).at
  BY <1>2, <1>3 DEF SnapSeen
<1> QED BY <1>1, <1>4, <1>5

(* A fetch brings its snapshot the time of now, and its row the answer due. *)
LEMMA FetchFresh ==
  ASSUME TypeInv, FreshInv, NEW p \in Proc, NEW c \in Conn, Fetch(p, c)
  PROVE  SessionOK(p)'
<1> DEFINE r == Head(todo[p])
           s == SymbolOf[r]
<1>1. PICK a \in Answer : tx' = [tx EXCEPT ![p] = TxAfter(p, r, s, a)]
  BY FetchStep
<1>2. /\ pc[p] = "batch" /\ pc'[p] = "apply" /\ UNCHANGED <<rows, snaps, now>>
      /\ now \in Nat /\ tx = [q \in Proc |-> tx[q]] /\ SessionOK(p)
  BY DEF Fetch, dbVars, TypeInv, Shapes, FreshInv
<1> HIDE DEF r
<1>3. \A x : /\ RowSeen(p, x)' = RowSeen(p, x)
             /\ (SnapSeen(p, x).at)' = IF x = s /\ a.data THEN now ELSE SnapSeen(p, x).at
  <2> SUFFICES ASSUME NEW x
               PROVE  /\ RowSeen(p, x)' = RowSeen(p, x)
                      /\ (SnapSeen(p, x).at)'
                           = IF x = s /\ a.data THEN now ELSE SnapSeen(p, x).at
    OBVIOUS
  <2> HIDE DEF s
  <2> QED BY <1>1, <1>2, FetchTimes
<1>4. tx'[p].due = <<r, a>>
  BY <1>1, <1>2 DEF TxAfter
<1>5. ASSUME NEW x \in Row PROVE Ordered(RowSeen(p, x), SnapSeen(p, SymbolOf[x]))'
  <2>1. Ordered(RowSeen(p, x), SnapSeen(p, SymbolOf[x]))
    BY <1>2 DEF SessionOK
  <2> QED BY <1>2, <1>3, <2>1 DEF Ordered
<1>6. ASSUME NEW z \in Symbol
      PROVE  \/ \E x \in Row : SymbolOf[x] = z /\ (RowSeen(p, x).of)' = (SnapSeen(p, z).at)'
             \/ Due(p, z)'
  <2>1. CASE z = s /\ a.data
    BY <1>2, <1>4, <2>1 DEF Due
  <2>2. CASE ~(z = s /\ a.data)
    <3>1. PICK x \in Row : SymbolOf[x] = z /\ RowSeen(p, x).of = SnapSeen(p, z).at
      BY <1>2 DEF SessionOK, Due
    <3> QED BY <1>3, <2>2, <3>1
  <2> QED BY <2>1, <2>2
<1> QED BY <1>2, <1>5, <1>6 DEF SessionOK

(* Applying an answer with data scores its row with the newest snapshot. *)
LEMMA ApplyFresh ==
  ASSUME TypeInv, FreshInv, NEW p \in Proc, Apply(p)
  PROVE  SessionOK(p)'
<1> DEFINE t == tx[p]
           r == t.due[1]
           a == t.due[2]
           row == IF r \in DOMAIN t.rows THEN t.rows[r] ELSE rows[r]
           snap == t.snaps[SymbolOf[r]]
<1>1. /\ pc[p] = "apply" /\ r \in Row /\ a \in Answer /\ SymbolOf[r] \in DOMAIN t.snaps
      /\ tx'[p].due = None /\ tx'[p].snaps = t.snaps
      /\ tx'[p].rows = [x \in DOMAIN t.rows \cup {r} |->
                          IF x = r THEN RowAfter(row, a, snap) ELSE t.rows[x]]
      /\ pc' = [pc EXCEPT ![p] = IF t.limited THEN "limited"
                                 ELSE IF left[p] = 0 THEN "commit" ELSE "batch"]
      /\ UNCHANGED <<now, rows, snaps>>
  BY ApplyStep
<1>2. now \in Nat /\ SessionOK(p) /\ pc'[p] \in {"limited", "commit", "batch"}
  BY <1>1 DEF FreshInv, TypeInv, Shapes
<1>3. /\ row = RowSeen(p, r) /\ snap = SnapSeen(p, SymbolOf[r])
      /\ \A x : SnapSeen(p, x)' = SnapSeen(p, x)
      /\ \A x : RowSeen(p, x)' = IF x = r THEN RowAfter(row, a, snap) ELSE RowSeen(p, x)
  BY <1>1 DEF RowSeen, SnapSeen
<1> HIDE DEF t, r, a, row, snap
<1>4. /\ RowAfter(row, a, snap).of = IF a.data THEN snap.at ELSE row.of
      /\ RowAfter(row, a, snap).at = IF a.data THEN now ELSE row.at
  BY DEF RowAfter
<1>5. ASSUME NEW x \in Row PROVE Ordered(RowSeen(p, x), SnapSeen(p, SymbolOf[x]))'
  <2>1. Ordered(RowSeen(p, x), SnapSeen(p, SymbolOf[x]))
    BY <1>2 DEF SessionOK
  <2>2. CASE x = r
    BY <1>1, <1>2, <1>3, <1>4, <2>1, <2>2 DEF Ordered
  <2>3. CASE x # r
    BY <1>1, <1>3, <2>1, <2>3 DEF Ordered
  <2> QED BY <2>2, <2>3
<1>6. ASSUME NEW z \in Symbol
      PROVE  \E x \in Row : SymbolOf[x] = z /\ (RowSeen(p, x).of)' = (SnapSeen(p, z).at)'
  <2>1. CASE a.data /\ SymbolOf[r] = z
    BY <1>1, <1>3, <1>4, <2>1
  <2>2. CASE ~(a.data /\ SymbolOf[r] = z)
    <3>1. PICK x \in Row : SymbolOf[x] = z /\ RowSeen(p, x).of = SnapSeen(p, z).at
      BY <1>2, <2>2 DEF SessionOK, Due, t, r, a
    <3>2. x # r \/ ~a.data
      BY <2>2, <3>1
    <3> QED BY <1>3, <1>4, <3>1, <3>2
  <2> QED BY <2>1, <2>2
<1> QED BY <1>2, <1>5, <1>6 DEF SessionOK

(* While the lock excludes other runs, every step preserves FreshInv. *)
LEMMA NextFreshInv == LockInv /\ TypeInv /\ FreshInv /\ [Next]_vars => FreshInv'
<1> SUFFICES ASSUME LockInv, TypeInv, FreshInv, [Next]_vars PROVE FreshInv'
  OBVIOUS
<1> USE DEF FreshInv
<1>0. ASSUME NEW p \in Proc, StoredOK', NoWork(p)' PROVE SessionOK(p)'
  BY <1>0 DEF StoredOK, NoWork, SessionOK, RowSeen, SnapSeen
<1>1. ASSUME NEW p \in Proc, UNCHANGED <<rows, snaps, now>>,
             tx' = [tx EXCEPT ![p] = tx'[p]], NoWork(p)' \/ SessionOK(p)',
             \A q \in Proc \ {p} : pc'[q] = pc[q]
      PROVE  FreshInv'
  <2>1. StoredOK'
    BY <1>1 DEF StoredOK, Ordered
  <2>2. ASSUME NEW q \in Proc, q # p PROVE SessionOK(q)'
    BY <1>1, <2>2, SessionKept
  <2>3. SessionOK(p)'
    BY <1>0, <1>1, <2>1
  <2> QED BY <1>1, <2>1, <2>2, <2>3
<1>2. ASSUME NEW p \in Proc, NEW c \in Conn, BeginRun(p, c) PROVE FreshInv'
  <2>1. /\ tx' = [tx EXCEPT ![p] = [NoTx EXCEPT !.at = now]] /\ UNCHANGED <<rows, snaps, now>>
        /\ pc' = [pc EXCEPT ![p] = "batch"]
    BY <1>2 DEF BeginRun, dbVars
  <2>2. NoWork(p)'
    BY <2>1 DEF NoWork, NoTx
  <2> QED BY <1>1, <2>1, <2>2 DEF LockInv
<1>3. ASSUME NEW p \in Proc, NEW c \in Conn, Fetch(p, c) PROVE FreshInv'
  <2>1. PICK a \in Answer :
           tx' = [tx EXCEPT ![p] = TxAfter(p, Head(todo[p]), SymbolOf[Head(todo[p])], a)]
    BY <1>3, FetchStep
  <2>2. tx' = [tx EXCEPT ![p] = tx'[p]]
    BY <2>1
  <2>3. UNCHANGED <<rows, snaps, now>> /\ \A q \in Proc \ {p} : pc'[q] = pc[q]
    BY <1>3 DEF Fetch, dbVars, LockInv
  <2>4. SessionOK(p)'
    BY <1>3, FetchFresh
  <2> QED BY <1>1, <2>2, <2>3, <2>4
<1>8. ASSUME NEW p \in Proc, Apply(p) PROVE FreshInv'
  <2>1. /\ tx' = [tx EXCEPT ![p] = tx'[p]] /\ UNCHANGED <<rows, snaps, now>>
        /\ \A q \in Proc \ {p} : pc'[q] = pc[q]
    BY <1>8, ApplyStep DEF LockInv
  <2>2. SessionOK(p)'
    BY <1>8, ApplyFresh
  <2> QED BY <1>1, <2>1, <2>2
<1>4. ASSUME NEW p \in Proc, Commit(p) PROVE FreshInv'
  <2>1. /\ rows' = [r \in Row |-> IF r \in DOMAIN tx[p].rows THEN tx[p].rows[r] ELSE rows[r]]
        /\ snaps' = [s \in Symbol |-> IF s \in DOMAIN tx[p].snaps THEN tx[p].snaps[s]
                                      ELSE snaps[s]]
        /\ tx' = [tx EXCEPT ![p] = NoTx] /\ now' = now /\ pc[p] \in {"commit", "limited"}
        /\ \E to : pc' = [pc EXCEPT ![p] = to]
    BY <1>4 DEF Commit
  <2>2. StoredOK'
    <3>1. /\ \A r \in Row : rows'[r] = RowSeen(p, r)
          /\ \A s \in Symbol : snaps'[s] = SnapSeen(p, s)
      BY <2>1 DEF RowSeen, SnapSeen
    <3>2. \A r \in Row : SymbolOf[r] \in Symbol
      BY DEF Symbol
    <3>3. \A r \in Row : Ordered(rows[r], snaps[SymbolOf[r]])'
      BY <2>1, <3>1, <3>2 DEF SessionOK, Ordered
    <3>4. ASSUME NEW s \in Symbol
          PROVE  \E r \in Row : SymbolOf[r] = s /\ rows'[r].of = snaps'[s].at
      <4>1. ~Due(p, s)
        BY <2>1 DEF Due
      <4> QED BY <3>1, <4>1 DEF SessionOK
    <3> QED BY <3>3, <3>4 DEF StoredOK
  <2>3. ASSUME NEW q \in Proc PROVE NoWork(q)'
    <3>1. CASE q = p
      BY <2>1, <3>1 DEF NoWork, NoTx
    <3>2. CASE q # p
      <4>1. pc[q] = "idle" /\ tx'[q] = tx[q]
        BY <2>1, <3>2, PoolsDisjoint DEF LockInv, Strays, Active
      <4> QED BY <4>1 DEF SessionOK, NoWork
    <3> QED BY <3>1, <3>2
  <2> QED BY <1>0, <2>1, <2>2, <2>3
<1>5. ASSUME NEW p \in Proc, NEW c \in Conn, Unlock(p, c) PROVE FreshInv'
  <2>1. NoWork(p)' /\ tx' = tx /\ UNCHANGED <<rows, snaps, now>> /\ pc' = [pc EXCEPT ![p] = "idle"]
    BY <1>5 DEF Unlock, dbVars, SessionOK, NoWork
  <2> QED BY <1>1, <2>1 DEF LockInv
<1>6. ASSUME NEW p \in Proc, RunFails(p) \/ Crash(p) PROVE FreshInv'
  <2>1. /\ tx' = [tx EXCEPT ![p] = NoTx] /\ UNCHANGED <<rows, snaps, now>>
        /\ pc' = [pc EXCEPT ![p] = "idle"]
    BY <1>6 DEF RunFails, Crash, Abandon, dbVars
  <2>2. NoWork(p)'
    BY <2>1 DEF NoWork, NoTx
  <2> QED BY <1>1, <2>1, <2>2 DEF LockInv
<1>7. ASSUME \/ \E p \in Proc, c \in Conn : CloseIdle(p, c)
             \/ Tick \/ UNCHANGED vars
      PROVE  FreshInv'
  <2>1. UNCHANGED <<rows, snaps, tx, pc>> /\ now' \in {now, now + 1}
    BY <1>7 DEF CloseIdle, Tick, vars, dbVars, procVars
  <2>2. StoredOK'
    BY <2>1 DEF StoredOK, Ordered
  <2>3. \A p \in Proc : SessionOK(p)'
    BY <2>1, SessionKept
  <2> QED BY <2>1, <2>2, <2>3
<1> QED BY <1>2, <1>3, <1>4, <1>5, <1>6, <1>7, <1>8 DEF Next

(* No connection is ever closed before a step that keeps the number zero;  *)
(* the lock then excludes other runs.                                      *)
LEMMA StillExclusive ==
  ASSUME StrayInv, [Next]_vars, closed' = 0
  PROVE  closed = 0 /\ LockInv
<1>1. closed' \in {closed, closed + 1}
  <2>1. Tick \/ UNCHANGED vars => closed' = closed
    BY DEF Tick, vars
  <2>2. \A p \in Proc : Apply(p) \/ Commit(p) \/ RunFails(p) \/ Crash(p) => closed' = closed
    BY DEF Apply, Commit, RunFails, Crash
  <2>3. \A p \in Proc, c \in Conn :
          BeginRun(p, c) \/ Fetch(p, c) \/ Unlock(p, c) => closed' = closed
    BY DEF BeginRun, Fetch, Unlock
  <2>4. \A p \in Proc, c \in Conn : CloseIdle(p, c) => closed' = closed + 1
    BY DEF CloseIdle
  <2> QED BY <2>1, <2>2, <2>3, <2>4 DEF Next
<1>2. closed = 0
  BY <1>1 DEF StrayInv
<1>3. IsFiniteSet(Strays) /\ Cardinality(Strays) \in Nat
  BY FS_Subset, FS_CardinalityType DEF StrayInv, Strays
<1>4. Strays = {}
  BY <1>2, <1>3, FS_EmptySet DEF StrayInv
<1> QED BY <1>2, <1>4 DEF LockInv, StrayInv

(* What holds until the first connection is closed under a lock. *)
FreshUntilClosed == closed = 0 => FreshInv

(* Snapshots and candidate rows tell of the same fetches: runs exclude     *)
(* each other, a batch writes both or neither, and the row's clock is read *)
(* after the snapshot's.                                                   *)
THEOREM FreshnessTheorem == Spec => []RowsFollowSnapshots
<1>1. Init => FreshUntilClosed
  <2> SUFFICES ASSUME Init PROVE FreshInv
    BY DEF FreshUntilClosed
  <2>1. /\ now = 1 /\ tx = [p \in Proc |-> NoTx]
        /\ rows = [r \in Row |-> [status |-> "PENDING", at |-> 0, of |-> 0]]
        /\ snaps = [s \in Symbol |-> [status |-> "PENDING", at |-> 0]]
    BY DEF Init
  <2>2. \A r \in Row : Ordered(rows[r], snaps[SymbolOf[r]])
    BY <2>1 DEF Ordered, Symbol
  <2>3. \A s \in Symbol : \E r \in Row : SymbolOf[r] = s /\ rows[r].of = snaps[s].at
    BY <2>1 DEF Symbol
  <2>4. StoredOK
    BY <2>2, <2>3 DEF StoredOK
  <2>5. \A p \in Proc : NoWork(p)
    BY <2>1 DEF NoWork, NoTx
  <2> QED BY <2>1, <2>4, <2>5, IdleSession DEF FreshInv
<1>2. StrayInv /\ TypeInv /\ FreshUntilClosed /\ [Next]_vars => FreshUntilClosed'
  BY StillExclusive, NextFreshInv DEF FreshUntilClosed
<1>3. FreshUntilClosed => RowsFollowSnapshots
  BY DEF FreshUntilClosed, FreshInv, StoredOK, Ordered, RowsFollowSnapshots
<1> QED BY <1>1, <1>2, <1>3, InitTypes, NextTypes, InitStrayInv, NextStrayInv, PTL DEF Spec

-----------------------------------------------------------------------------
(* Sums over the processes, as numbers of pairs: the cells of f are the    *)
(* pairs of a process and a number up to f's value at it.                  *)
Counts == [Proc -> 0..MaxPerRun]
Cells(f) == {c \in Proc \X (1..MaxPerRun) : c[2] <= f[c[1]]}

(* A sum over finitely many processes is a number, at most MaxPerRun each. *)
LEMMA CellsFinite ==
  ASSUME NEW f \in Counts, NEW S, IsFiniteSet(S), S \subseteq Proc, \A p \in Proc \ S : f[p] = 0
  PROVE  /\ IsFiniteSet(Cells(f)) /\ Cardinality(Cells(f)) \in Nat
         /\ Cardinality(Cells(f)) <= Cardinality(S) * MaxPerRun
<1>1. Cells(f) \subseteq S \X (1..MaxPerRun)
  <2> SUFFICES ASSUME NEW c \in Cells(f) PROVE c \in S \X (1..MaxPerRun)
    OBVIOUS
  <2>1. c[1] \in Proc /\ c[2] \in 1..MaxPerRun /\ c[2] <= f[c[1]] /\ c = <<c[1], c[2]>>
    BY DEF Cells
  <2>2. c[1] \in S
    BY <2>1, ConstantsOK DEF Counts
  <2> QED BY <2>1, <2>2
<1>2. IsFiniteSet(1..MaxPerRun) /\ Cardinality(1..MaxPerRun) = MaxPerRun
  BY FS_Interval, ConstantsOK
<1>3. /\ IsFiniteSet(S \X (1..MaxPerRun))
      /\ Cardinality(S \X (1..MaxPerRun)) = Cardinality(S) * MaxPerRun
  BY <1>2, FS_Product
<1> QED BY <1>1, <1>3, FS_Subset, FS_CardinalityType

(* The sum is one process's value and the sum of the others'. *)
LEMMA CellsOfOne ==
  ASSUME NEW f \in Counts, NEW p \in Proc, IsFiniteSet(Cells(f))
  PROVE  LET O == {c \in Cells(f) : c[1] # p}
         IN  /\ Cardinality(O) \in Nat /\ IsFiniteSet(O)
             /\ Cardinality(Cells(f)) = Cardinality(O) + f[p]
<1> DEFINE O == {c \in Cells(f) : c[1] # p}
           R == {p} \X (1..f[p])
<1>1. f[p] \in Nat /\ f[p] <= MaxPerRun
  BY ConstantsOK DEF Counts
<1>2. IsFiniteSet(1..f[p]) /\ Cardinality(1..f[p]) = f[p]
  <2> DEFINE b == f[p]
  <2>1. b \in Nat
    BY <1>1
  <2> HIDE DEF b
  <2>2. IsFiniteSet(1..b) /\ Cardinality(1..b) = IF 1 > b THEN 0 ELSE b - 1 + 1
    BY <2>1, FS_Interval
  <2>3. Cardinality(1..b) = b
    BY <2>1, <2>2
  <2> QED BY <2>2, <2>3 DEF b
<1>3. IsFiniteSet(R) /\ Cardinality(R) = f[p]
  <2>1. IsFiniteSet({p}) /\ Cardinality({p}) = 1
    BY FS_Singleton
  <2>2. IsFiniteSet(R) /\ Cardinality(R) = Cardinality({p}) * Cardinality(1..f[p])
    BY <1>2, <2>1, FS_Product
  <2> QED BY <1>1, <1>2, <2>1, <2>2
<1>4. Cells(f) = O \cup R /\ O \cap R = {}
  <2>1. ASSUME NEW c \in Cells(f), c[1] = p PROVE c \in R
    <3>1. c[2] \in 1..f[p] /\ c = <<p, c[2]>>
      BY <1>1, <2>1, ConstantsOK DEF Cells
    <3> QED BY <3>1
  <2>2. ASSUME NEW c \in R PROVE c \in Cells(f) /\ c[1] = p
    <3>1. c = <<p, c[2]>> /\ c[1] = p /\ c[2] \in 1..f[p]
      OBVIOUS
    <3>2. c[2] \in 1..MaxPerRun /\ c[2] <= f[p]
      BY <1>1, <3>1, ConstantsOK
    <3> QED BY <3>1, <3>2 DEF Cells
  <2> QED BY <2>1, <2>2
<1>5. IsFiniteSet(O)
  BY FS_Subset
<1> HIDE DEF O, R
<1>6. Cardinality(Cells(f)) = Cardinality(O) + Cardinality(R) - 0
  BY <1>3, <1>4, <1>5, FS_Union, FS_EmptySet
<1>7. Cardinality(O) \in Nat
  BY <1>5, FS_CardinalityType
<1> QED BY <1>1, <1>3, <1>5, <1>6, <1>7 DEF O

(* The sum changes by what one process's value does. *)
LEMMA CellsMove ==
  ASSUME NEW f \in Counts, NEW g \in Counts, NEW p \in Proc,
         IsFiniteSet(Cells(f)), IsFiniteSet(Cells(g)), \A q \in Proc \ {p} : g[q] = f[q]
  PROVE  Cardinality(Cells(g)) + f[p] = Cardinality(Cells(f)) + g[p]
<1> DEFINE O(h) == {c \in Cells(h) : c[1] # p}
<1>1. O(f) = O(g)
  BY DEF Cells
<1>2. Cardinality(O(f)) \in Nat /\ Cardinality(Cells(f)) = Cardinality(O(f)) + f[p]
  BY CellsOfOne
<1>3. Cardinality(Cells(g)) = Cardinality(O(g)) + g[p]
  BY CellsOfOne
<1>4. f[p] \in Nat /\ g[p] \in Nat
  BY ConstantsOK DEF Counts
<1> HIDE DEF O
<1> QED BY <1>1, <1>2, <1>3, <1>4

(* A greater function has a greater sum. *)
LEMMA CellsMonotone ==
  ASSUME NEW f \in Counts, NEW g \in Counts, IsFiniteSet(Cells(g)), \A q \in Proc : f[q] <= g[q]
  PROVE  Cardinality(Cells(f)) <= Cardinality(Cells(g))
<1>1. Cells(f) \subseteq Cells(g)
  <2> SUFFICES ASSUME NEW c \in Cells(f) PROVE c[2] <= g[c[1]]
    BY DEF Cells
  <2>1. c[1] \in Proc /\ c[2] \in Nat /\ c[2] <= f[c[1]] /\ f[c[1]] \in Nat /\ g[c[1]] \in Nat
    BY ConstantsOK DEF Cells, Counts
  <2>2. f[c[1]] <= g[c[1]]
    BY <2>1
  <2> DEFINE a == f[c[1]]
             b == g[c[1]]
             n == c[2]
  <2>3. n \in Nat /\ a \in Nat /\ b \in Nat /\ n <= a /\ a <= b
    BY <2>1, <2>2
  <2> HIDE DEF a, b, n
  <2>4. n <= b
    BY <2>3
  <2> QED BY <2>4 DEF n, b
<1> QED BY <1>1, FS_Subset

-----------------------------------------------------------------------------
(* The books of the request budget                                         *)

(* The log rows p adds to day d when it commits, and those the rows of its *)
(* run may still add to it.                                                *)
Uncommitted(p, d) == IF DayOf(tx[p].at) = d THEN tx[p].n ELSE 0
Expected(p, d) ==
  Uncommitted(p, d)
    + IF d >= DayOf(now) \/ (conn[p] # None /\ DayOf(tx[p].at) = d) THEN Len(todo[p]) ELSE 0
AllUncommitted(d) == [p \in Proc |-> Uncommitted(p, d)]
AllExpected(d) == [p \in Proc |-> Expected(p, d)]

(* The books of a day: what is logged and still to come keeps within the   *)
(* day's budget and a run per lost lock, and what was asked is logged, not *)
(* yet committed, or lost with a batch.                                    *)
DayBooked(d) ==
  /\ used[d] + Cardinality(Cells(AllExpected(d))) <= MaxPerDay + closed * MaxPerRun
  /\ asked[d] <= used[d] + Cardinality(Cells(AllUncommitted(d))) + faults * BatchSize
BookInv == \A d \in Day : DayBooked(d)

(* What one process still adds to a day: at most a batch, at most a run. *)
LEMMA Amounts ==
  ASSUME TypeInv, NEW p \in Proc, NEW d \in Day
  PROVE  /\ Uncommitted(p, d) \in Nat /\ Uncommitted(p, d) <= BatchSize
         /\ Expected(p, d) \in 0..MaxPerRun /\ Uncommitted(p, d) <= Expected(p, d)
         /\ Uncommitted(p, d) \in 0..MaxPerRun
         /\ Len(todo[p]) \in Nat /\ tx[p].n \in Nat /\ tx[p].at \in Nat
         /\ pc[p] = "idle" => Expected(p, d) = 0
<1>1. todo[p] \in Seq(Row) /\ tx[p].n + Len(todo[p]) <= MaxPerRun /\ TxOK(tx[p])
  BY DEF TypeInv, ProcOK, RunOK
<1>2. Len(todo[p]) \in Nat /\ tx[p].n \in 0..BatchSize /\ tx[p].at \in Nat
  BY <1>1, TimeOfDay DEF TxOK
<1> DEFINE n == tx[p].n
           k == Len(todo[p])
<1>3. n \in Nat /\ k \in Nat /\ n <= BatchSize /\ n + k <= MaxPerRun
  BY <1>1, <1>2, ConstantsOK
<1>4. Uncommitted(p, d) \in {0, n} /\ \E m \in {0, k} : Expected(p, d) = Uncommitted(p, d) + m
  BY DEF Uncommitted, Expected
<1>5. pc[p] = "idle" => n = 0 /\ k = 0
  BY NoTxOK DEF TypeInv, RunOK
<1> HIDE DEF n, k
<1>6. Uncommitted(p, d) \in Nat /\ Uncommitted(p, d) <= BatchSize
  BY <1>3, <1>4, ConstantsOK
<1>7. /\ Expected(p, d) \in 0..MaxPerRun /\ Uncommitted(p, d) <= Expected(p, d)
      /\ Uncommitted(p, d) \in 0..MaxPerRun
  BY <1>3, <1>4, ConstantsOK
<1>8. pc[p] = "idle" => Expected(p, d) = 0
  BY <1>3, <1>4, <1>5
<1> QED BY <1>2, <1>3, <1>6, <1>7, <1>8 DEF n, k

(* The sums of a day are finite, and a run per process in a run bounds them. *)
SumsOK(d) ==
  /\ AllExpected(d) \in Counts /\ AllUncommitted(d) \in Counts
  /\ IsFiniteSet(Cells(AllExpected(d))) /\ IsFiniteSet(Cells(AllUncommitted(d)))
  /\ Cardinality(Cells(AllExpected(d))) \in Nat
  /\ Cardinality(Cells(AllUncommitted(d))) \in Nat
  /\ Cardinality(Cells(AllExpected(d))) <= Cardinality(Active) * MaxPerRun
  /\ Cardinality(Cells(AllUncommitted(d))) <= Cardinality(Cells(AllExpected(d)))

(* Only processes in a run add to a day, so the sums are finite. *)
LEMMA Sums == TypeInv /\ IsFiniteSet(Active) => \A d \in Day : SumsOK(d)
<1> SUFFICES ASSUME TypeInv, IsFiniteSet(Active), NEW d \in Day PROVE SumsOK(d)
  OBVIOUS
<1>1. AllExpected(d) \in Counts /\ AllUncommitted(d) \in Counts
  BY Amounts DEF AllExpected, AllUncommitted, Counts
<1>2. ASSUME NEW p \in Proc PROVE AllUncommitted(d)[p] <= AllExpected(d)[p]
  BY Amounts DEF AllExpected, AllUncommitted
<1>3. ASSUME NEW p \in Proc \ Active PROVE AllUncommitted(d)[p] = 0 /\ AllExpected(d)[p] = 0
  <2>1. pc[p] = "idle"
    BY DEF Active
  <2>2. Expected(p, d) = 0 /\ Uncommitted(p, d) \in Nat /\ Uncommitted(p, d) <= Expected(p, d)
    BY <2>1, Amounts
  <2> QED BY <2>2 DEF AllExpected, AllUncommitted
<1>4. Active \subseteq Proc
  BY DEF Active
<1>5. /\ IsFiniteSet(Cells(AllExpected(d))) /\ Cardinality(Cells(AllExpected(d))) \in Nat
      /\ Cardinality(Cells(AllExpected(d))) <= Cardinality(Active) * MaxPerRun
  BY <1>1, <1>3, <1>4, CellsFinite
<1>6. IsFiniteSet(Cells(AllUncommitted(d))) /\ Cardinality(Cells(AllUncommitted(d))) \in Nat
  BY <1>1, <1>3, <1>4, CellsFinite
<1> QED BY <1>1, <1>2, <1>5, <1>6, CellsMonotone DEF SumsOK

(* The same of the next state. *)
LEMMA SumsNext == TypeInv' /\ IsFiniteSet(Active)' => \A d \in Day : SumsOK(d)'
<1>1. (TypeInv /\ IsFiniteSet(Active) => \A d \in Day : SumsOK(d))'
  BY Sums, PTL
<1> QED BY <1>1

(* What the books ask of a step of p, once the others stay as they are. *)
LEMMA DayKept ==
  ASSUME TypeInv, TypeInv', IsFiniteSet(Active), IsFiniteSet(Active'), BookInv,
         NEW p \in Proc, now' = now, closed' = closed, \A q \in Proc \ {p} : Alone(q),
         NEW d \in Day, NEW lost \in Nat,
         used'[d] + Expected(p, d)' <= used[d] + Expected(p, d),
         asked'[d] + used[d] + Uncommitted(p, d) <= asked[d] + used'[d] + Uncommitted(p, d)' + lost,
         faults' * BatchSize = faults * BatchSize + lost
  PROVE  DayBooked(d)'
<1>1. SumsOK(d) /\ SumsOK(d)'
  BY Sums, SumsNext
<1> DEFINE f == AllExpected(d)
           g == AllUncommitted(d)
           f2 == AllExpected(d)'
           g2 == AllUncommitted(d)'
           e == Cardinality(Cells(f))
           u == Cardinality(Cells(g))
           e2 == Cardinality(Cells(f2))
           u2 == Cardinality(Cells(g2))
           ep == Expected(p, d)
           up == Uncommitted(p, d)
           ep2 == Expected(p, d)'
           up2 == Uncommitted(p, d)'
<1>2. /\ f \in Counts /\ g \in Counts /\ IsFiniteSet(Cells(f)) /\ IsFiniteSet(Cells(g))
      /\ f2 \in Counts /\ g2 \in Counts /\ IsFiniteSet(Cells(f2)) /\ IsFiniteSet(Cells(g2))
      /\ e \in Nat /\ u \in Nat /\ e2 \in Nat /\ u2 \in Nat
  BY <1>1 DEF SumsOK
<1>3. /\ f[p] = ep /\ g[p] = up /\ f2[p] = ep2 /\ g2[p] = up2
      /\ \A q \in Proc \ {p} : f2[q] = f[q] /\ g2[q] = g[q]
  BY DEF AllExpected, AllUncommitted, Expected, Uncommitted, Alone
<1>4. ep \in Nat /\ up \in Nat /\ ep2 \in Nat /\ up2 \in Nat
  BY <1>2, <1>3, ConstantsOK DEF Counts
<1>5. /\ used[d] + e <= MaxPerDay + closed * MaxPerRun
      /\ asked[d] <= used[d] + u + faults * BatchSize
  BY DEF BookInv, DayBooked
<1>6. /\ used[d] \in Nat /\ used'[d] \in Nat /\ asked[d] \in Nat /\ asked'[d] \in Nat
      /\ faults * BatchSize \in Nat /\ closed * MaxPerRun \in Nat
  BY ConstantsOK DEF TypeInv, StoreOK
<1>7. /\ used'[d] + ep2 <= used[d] + ep
      /\ asked'[d] + used[d] + up <= asked[d] + used'[d] + up2 + lost
  OBVIOUS
<1> HIDE DEF f, g, f2, g2
<1>8. e2 + ep = e + ep2 /\ u2 + up = u + up2
  BY <1>2, <1>3, CellsMove
<1> HIDE DEF e, u, e2, u2, ep, up, ep2, up2
<1>9. used'[d] + e2 <= MaxPerDay + closed * MaxPerRun
  BY <1>2, <1>4, <1>5, <1>6, <1>7, <1>8, ConstantsOK
<1>10. asked'[d] <= used'[d] + u2 + (faults * BatchSize + lost)
  BY <1>2, <1>4, <1>5, <1>6, <1>7, <1>8
<1> QED BY <1>9, <1>10 DEF DayBooked, e2, u2, f2, g2

(* A fetch moves one row of the run from those to come to the fetched ones. *)
LEMMA FetchBooks ==
  ASSUME TypeInv, TypeInv', NEW p \in Proc, NEW c \in Conn, Fetch(p, c), NEW d \in Day
  PROVE  /\ used'[d] + Expected(p, d)' <= used[d] + Expected(p, d)
         /\ asked'[d] + used[d] + Uncommitted(p, d) <= asked[d] + used'[d] + Uncommitted(p, d)'
<1> DEFINE r == Head(todo[p])
           s == SymbolOf[r]
<1>1. /\ pc[p] = "batch" /\ conn'[p] = c /\ todo'[p] = Tail(todo[p]) /\ now' = now /\ used' = used
  BY DEF Fetch, dbVars, TypeInv, Shapes
<1>2. PICK a \in Answer :
        /\ tx' = [tx EXCEPT ![p] = TxAfter(p, r, s, a)]
        /\ asked' = [asked EXCEPT ![DayOf(TxAfter(p, r, s, a).at)] = @ + 1]
  BY FetchStep
<1> DEFINE t == TxAfter(p, r, s, a)
           n == tx[p].n
           k == Len(todo[p])
           e == DayOf(t.at)
           today == DayOf(now)
           more == d >= today \/ (conn[p] # None /\ DayOf(tx[p].at) = d)
<1>3. /\ todo[p] \in Seq(Row) /\ left[p] \in Nat /\ left[p] >= 1 /\ left[p] <= Len(todo[p])
  BY <1>1, ConstantsOK DEF TypeInv, ProcOK, RunOK
<1>4. r \in Row /\ k \in Nat /\ Len(Tail(todo[p])) = k - 1 /\ k >= 1
  BY <1>3, NextRow
<1> HIDE DEF r, s
<1>5. TxOK(t) /\ t.n = n + 1 /\ t.at = IF conn[p] = None THEN now ELSE tx[p].at
  BY <1>1, <1>4, FetchTx DEF s
<1>6. conn[p] = None => n = 0
  BY NoTxOK DEF TypeInv, RunOK
<1>7. n \in Nat
  BY Amounts
<1>8. tx'[p] = t /\ asked'[d] = IF d = e THEN asked[d] + 1 ELSE asked[d]
  BY <1>2 DEF TypeInv, Shapes, StoreOK
<1>9. /\ Uncommitted(p, d) = IF DayOf(tx[p].at) = d THEN n ELSE 0
      /\ Expected(p, d) = Uncommitted(p, d) + IF more THEN k ELSE 0
  BY DEF Uncommitted, Expected
<1>10. /\ Uncommitted(p, d)' = IF e = d THEN n + 1 ELSE 0
       /\ Expected(p, d)' = Uncommitted(p, d)' + IF d >= today \/ e = d THEN k - 1 ELSE 0
  BY <1>1, <1>4, <1>5, <1>8, ConnIsNotNone DEF Uncommitted, Expected
<1> HIDE DEF t
<1>11. used[d] \in Nat /\ asked[d] \in Nat /\ d \in Int /\ today \in Int
  <2>1. today \in Day
    BY TimeOfDay DEF TypeInv, StoreOK
  <2> QED BY <2>1 DEF TypeInv, StoreOK, Day
<1>12. CASE conn[p] = None
  <2>1. e = today /\ n = 0
    BY <1>5, <1>6, <1>12
  <2>2. Uncommitted(p, d) = 0 /\ Expected(p, d) = IF d >= today THEN k ELSE 0
    BY <1>4, <1>9, <1>12, <2>1
  <2> HIDE DEF e, n, k, today
  <2> QED BY <1>1, <1>4, <1>8, <1>10, <1>11, <2>1, <2>2
<1>13. CASE conn[p] # None
  <2>1. e = DayOf(tx[p].at) /\ more = (d >= today \/ e = d)
    BY <1>5, <1>13
  <2>2. /\ Uncommitted(p, d) = IF e = d THEN n ELSE 0
        /\ Expected(p, d) = Uncommitted(p, d) + IF d >= today \/ e = d THEN k ELSE 0
    BY <1>9, <2>1
  <2> HIDE DEF e, n, k, today, more
  <2>3. CASE e = d
    <3>1. Uncommitted(p, d) = n /\ Expected(p, d) = n + k
      BY <2>2, <2>3
    <3>2. Uncommitted(p, d)' = n + 1 /\ Expected(p, d)' = n + 1 + (k - 1)
      BY <1>10, <2>3
    <3>3. used'[d] = used[d] /\ asked'[d] = asked[d] + 1
      BY <1>1, <1>8, <2>3
    <3> QED BY <1>4, <1>7, <1>11, <3>1, <3>2, <3>3
  <2>4. CASE e # d
    <3>1. Uncommitted(p, d) = 0 /\ Expected(p, d) = IF d >= today THEN k ELSE 0
      BY <1>4, <2>2, <2>4
    <3>2. Uncommitted(p, d)' = 0 /\ Expected(p, d)' = IF d >= today THEN k - 1 ELSE 0
      BY <1>4, <1>10, <2>4
    <3>3. used'[d] = used[d] /\ asked'[d] = asked[d]
      BY <1>1, <1>8, <2>4
    <3> QED BY <1>4, <1>11, <3>1, <3>2, <3>3
  <2> QED BY <2>3, <2>4
<1> QED BY <1>12, <1>13

(* A commit moves the fetched rows to the log. *)
LEMMA CommitBooks ==
  ASSUME TypeInv, TypeInv', NEW p \in Proc, Commit(p), NEW d \in Day
  PROVE  /\ used'[d] + Expected(p, d)' <= used[d] + Expected(p, d)
         /\ asked'[d] + used[d] + Uncommitted(p, d) <= asked[d] + used'[d] + Uncommitted(p, d)'
<1> DEFINE n == tx[p].n
           e == DayOf(tx[p].at)
           k == Len(todo[p])
           k2 == Len(todo'[p])
           today == DayOf(now)
<1>1. /\ used' = [used EXCEPT ![e] = @ + n] /\ tx'[p] = NoTx /\ conn'[p] = None
      /\ now' = now /\ asked' = asked /\ todo'[p] \in {<<>>, todo[p]}
  BY DEF Commit, TypeInv, Shapes
<1>2. n \in Nat /\ k \in Nat /\ k2 \in Nat /\ k2 <= k
  <2>1. n \in Nat /\ k \in Nat
    BY Amounts
  <2> QED BY <1>1, <2>1
<1>3. used[d] \in Nat /\ asked[d] \in Nat /\ used'[d] = IF d = e THEN used[d] + n ELSE used[d]
  BY <1>1 DEF TypeInv, StoreOK
<1>4. /\ Uncommitted(p, d) = IF e = d THEN n ELSE 0
      /\ Expected(p, d)
           = Uncommitted(p, d) + IF d >= today \/ (conn[p] # None /\ e = d) THEN k ELSE 0
  BY DEF Uncommitted, Expected
<1>5. Uncommitted(p, d)' = 0 /\ Expected(p, d)' = IF d >= today THEN k2 ELSE 0
  BY <1>1, <1>2, NoTxOK DEF Uncommitted, Expected
<1> HIDE DEF n, e, k, k2, today
<1> QED BY <1>1, <1>2, <1>3, <1>4, <1>5

(* An abandoned run loses what its transaction held, at most a batch. *)
LEMMA AbandonBooks ==
  ASSUME TypeInv, TypeInv', NEW p \in Proc, Abandon(p), UNCHANGED <<used, asked>>, NEW d \in Day
  PROVE  /\ used'[d] + Expected(p, d)' <= used[d] + Expected(p, d)
         /\ asked'[d] + used[d] + Uncommitted(p, d)
              <= asked[d] + used'[d] + Uncommitted(p, d)' + BatchSize
<1>1. tx'[p] = NoTx /\ todo'[p] = <<>>
  BY DEF Abandon, TypeInv, Shapes
<1>2. Uncommitted(p, d)' = 0 /\ Expected(p, d)' = 0
  BY <1>1, NoTxOK DEF Uncommitted, Expected
<1>3. Uncommitted(p, d) \in Nat /\ Uncommitted(p, d) <= BatchSize /\ Expected(p, d) \in Nat
  BY Amounts, ConstantsOK
<1>4. used[d] \in Nat /\ asked[d] \in Nat
  BY DEF TypeInv, StoreOK
<1> QED BY <1>2, <1>3, <1>4, ConstantsOK

(* A run that begins finds the rows of the others within a run per lost    *)
(* lock, and takes no more than the day's remaining budget.                *)
LEMMA BeginBooks ==
  ASSUME TypeInv, TypeInv', StrayInv, IsFiniteSet(Active'), BookInv,
         NEW p \in Proc, NEW c \in Conn, BeginRun(p, c), NEW d \in Day
  PROVE  DayBooked(d)'
<1>1. /\ pc[p] = "idle" /\ c \in Pool(p) /\ lock.conn \in {None, c} /\ Remaining > 0
      /\ Pending # {} /\ conn'[p] = c /\ todo'[p] = Selected
      /\ tx'[p] = [NoTx EXCEPT !.at = now]
      /\ UNCHANGED <<now, used, asked, faults, closed>>
      /\ \A q \in Proc \ {p} : Alone(q)
  BY DEF BeginRun, dbVars, TypeInv, Shapes, Alone, MayRun, TakeLock, Acquired
<1>2. Active \subseteq Strays
  <2> SUFFICES ASSUME NEW q \in Active PROVE q \in Strays
    OBVIOUS
  <2>1. q \in Proc /\ q # p
    BY <1>1 DEF Active
  <2>2. lock.conn \notin Pool(q)
    BY <1>1, <2>1, PoolsDisjoint, ConnIsNotNone DEF Pool
  <2> QED BY <2>2 DEF Strays
<1>3. Cardinality(Active) \in Nat /\ Cardinality(Active) <= closed /\ closed \in Nat
  <2>1. IsFiniteSet(Strays) /\ Cardinality(Strays) \in Nat /\ Cardinality(Strays) <= closed
    BY FS_Subset, FS_CardinalityType DEF StrayInv, Strays
  <2>2. Cardinality(Active) <= Cardinality(Strays) /\ Cardinality(Active) \in Nat
    BY <1>2, <2>1, FS_Subset, FS_CardinalityType
  <2> QED BY <2>1, <2>2 DEF StrayInv
<1> DEFINE f == AllExpected(d)
           g == AllUncommitted(d)
           f2 == AllExpected(d)'
           g2 == AllUncommitted(d)'
           e == Cardinality(Cells(f))
           u == Cardinality(Cells(g))
           e2 == Cardinality(Cells(f2))
           u2 == Cardinality(Cells(g2))
           k == Len(Selected)
<1>4. SumsOK(d) /\ SumsOK(d)'
  BY Sums, SumsNext DEF StrayInv
<1>5. /\ f \in Counts /\ g \in Counts /\ IsFiniteSet(Cells(f)) /\ IsFiniteSet(Cells(g))
      /\ f2 \in Counts /\ g2 \in Counts /\ IsFiniteSet(Cells(f2)) /\ IsFiniteSet(Cells(g2))
      /\ e \in Nat /\ u \in Nat /\ e2 \in Nat /\ u2 \in Nat
      /\ e <= Cardinality(Active) * MaxPerRun
  BY <1>4 DEF SumsOK
<1>6. Remaining \in Int /\ used[d] \in Nat /\ asked[d] \in Nat
      /\ d \in Nat /\ DayOf(now) \in Nat /\ used[DayOf(now)] \in Nat
  <2>1. DayOf(now) \in Day /\ Day \subseteq Nat
    BY TimeOfDay DEF TypeInv, StoreOK, Day
  <2>2. used[d] \in Nat /\ asked[d] \in Nat /\ used[DayOf(now)] \in Nat
    BY <2>1 DEF TypeInv, StoreOK
  <2>3. Remaining \in Int
    BY <2>2, ConstantsOK DEF Remaining
  <2> QED BY <2>1, <2>2, <2>3
<1>7. k \in Nat /\ k <= Remaining
  BY <1>1, <1>6, SelectedRows
<1>8. Expected(p, d) = 0 /\ Uncommitted(p, d) = 0
  BY <1>1, Amounts
<1>9. Uncommitted(p, d)' = 0 /\ Expected(p, d)' = IF d >= DayOf(now) THEN k ELSE 0
  <2>1. tx'[p].n = 0 /\ tx'[p].at = now
    BY <1>1 DEF NoTx
  <2>2. Uncommitted(p, d)' = 0
    BY <2>1 DEF Uncommitted
  <2>3. Expected(p, d)' = IF d >= DayOf(now) \/ (c # None /\ DayOf(now) = d) THEN k ELSE 0
    BY <1>1, <1>7, <2>1, <2>2 DEF Expected
  <2> QED BY <1>6, <2>2, <2>3
<1>10. \A q \in Proc \ {p} : f2[q] = f[q] /\ g2[q] = g[q]
  BY <1>1 DEF AllExpected, AllUncommitted, Expected, Uncommitted, Alone
<1>11. f[p] = 0 /\ g[p] = 0 /\ g2[p] = 0 /\ f2[p] = IF d >= DayOf(now) THEN k ELSE 0
  BY <1>8, <1>9 DEF AllExpected, AllUncommitted
<1> HIDE DEF f, g, f2, g2, k
<1>12. e2 + f[p] = e + f2[p] /\ u2 + g[p] = u + g2[p]
  BY <1>5, <1>10, CellsMove
<1>13. e2 = e + f2[p] /\ u2 = u
  BY <1>5, <1>7, <1>11, <1>12
<1>14. d >= DayOf(now) => used[d] + k <= MaxPerDay
  <2>1. d > DayOf(now) => used[d] = 0
    BY DEF TypeInv, StoreOK
  <2> QED BY <1>6, <1>7, <2>1, ConstantsOK DEF Remaining
<1>15. e <= closed * MaxPerRun
  <2>1. Cardinality(Active) * MaxPerRun <= closed * MaxPerRun
    BY <1>3, ConstantsOK
  <2>2. Cardinality(Active) * MaxPerRun \in Nat /\ closed * MaxPerRun \in Nat
    BY <1>3, ConstantsOK
  <2> QED BY <1>5, <2>1, <2>2
<1>16. used[d] + e <= MaxPerDay + closed * MaxPerRun /\ asked[d] <= used[d] + u + faults * BatchSize
  BY DEF BookInv, DayBooked, f, g
<1> HIDE DEF e, u, e2, u2
<1>17. closed * MaxPerRun \in Nat
  BY <1>3, ConstantsOK
<1>18. used[d] + e2 <= MaxPerDay + closed * MaxPerRun
  BY <1>5, <1>6, <1>7, <1>11, <1>13, <1>14, <1>15, <1>16, <1>17, ConstantsOK DEF e, e2
<1> QED BY <1>1, <1>13, <1>16, <1>18 DEF DayBooked, e2, u2, f2, g2

(* The uncommitted rows of the next state are a number, too. *)
LEMMA UncommittedNext == TypeInv' => \A d \in Day, p \in Proc : Uncommitted(p, d)' \in Nat
<1>1. TypeInv => \A d \in Day, p \in Proc : Uncommitted(p, d) \in Nat
  BY Amounts
<1>2. (TypeInv => \A d \in Day, p \in Proc : Uncommitted(p, d) \in Nat)'
  BY <1>1, PTL
<1> QED BY <1>2

(* A step that keeps the log and every session, and brings nothing to come. *)
LEMMA LooserBooks ==
  ASSUME TypeInv, TypeInv', IsFiniteSet(Active), IsFiniteSet(Active'), BookInv, NEW d \in Day,
         UNCHANGED <<used, asked, faults, tx>>, closed' \in Nat, closed' >= closed,
         \A p \in Proc : Expected(p, d)' <= Expected(p, d)
  PROVE  DayBooked(d)'
<1> DEFINE f == AllExpected(d)
           f2 == AllExpected(d)'
           e == Cardinality(Cells(f))
           e2 == Cardinality(Cells(f2))
           u == Cardinality(Cells(AllUncommitted(d)))
<1>1. SumsOK(d) /\ SumsOK(d)'
  BY Sums, SumsNext
<1>2. f \in Counts /\ f2 \in Counts /\ IsFiniteSet(Cells(f)) /\ e \in Nat /\ e2 \in Nat /\ u \in Nat
  BY <1>1 DEF SumsOK
<1>3. \A p \in Proc : f2[p] <= f[p]
  BY DEF AllExpected
<1>4. AllUncommitted(d)' = AllUncommitted(d)
  BY DEF AllUncommitted, Uncommitted
<1> HIDE DEF f, f2
<1>5. e2 <= e
  BY <1>2, <1>3, CellsMonotone
<1>6. /\ used[d] + e <= MaxPerDay + closed * MaxPerRun
      /\ asked[d] <= used[d] + u + faults * BatchSize
  BY DEF BookInv, DayBooked, f
<1>7. /\ closed \in Nat /\ used[d] \in Nat /\ closed * MaxPerRun \in Nat
      /\ closed' * MaxPerRun \in Nat /\ closed * MaxPerRun <= closed' * MaxPerRun
  <2>1. closed \in Nat /\ used[d] \in Nat
    BY ConstantsOK DEF TypeInv, StoreOK
  <2> QED BY <2>1, ProductGrows, ConstantsOK
<1> HIDE DEF e, e2, u
<1>8. used[d] + e2 <= MaxPerDay + closed' * MaxPerRun
  BY <1>2, <1>5, <1>6, <1>7, ConstantsOK
<1> QED BY <1>4, <1>6, <1>8 DEF DayBooked, e2, u, f2

(* Every step keeps the books. *)
LEMMA NextBooks ==
  ASSUME TypeInv, TypeInv', StrayInv, StrayInv', BookInv, [Next]_vars
  PROVE  BookInv'
<1> SUFFICES ASSUME NEW d \in Day PROVE DayBooked(d)'
  BY DEF BookInv
<1>0. IsFiniteSet(Active) /\ IsFiniteSet(Active') /\ closed \in Nat /\ faults \in Nat
  BY ConstantsOK DEF StrayInv, TypeInv, StoreOK
<1>5. /\ used[d] \in Nat /\ used'[d] \in Nat /\ asked[d] \in Nat /\ asked'[d] \in Nat
      /\ \A p \in Proc : Uncommitted(p, d) \in Nat /\ Uncommitted(p, d)' \in Nat
  <2>1. \A p \in Proc : Uncommitted(p, d) \in Nat
    BY Amounts
  <2>2. \A p \in Proc : Uncommitted(p, d)' \in Nat
    BY UncommittedNext
  <2> QED BY <2>1, <2>2 DEF TypeInv, StoreOK
<1>1. ASSUME NEW p \in Proc, NEW c \in Conn, BeginRun(p, c) PROVE DayBooked(d)'
  BY <1>0, <1>1, BeginBooks
<1>2. ASSUME NEW p \in Proc, NEW c \in Conn, Fetch(p, c) PROVE DayBooked(d)'
  <2>1. now' = now /\ closed' = closed /\ faults' = faults
    BY <1>2 DEF Fetch
  <2>2. \A q \in Proc \ {p} : Alone(q)
    <3>1. \A q \in Proc \ {p} : cache'[q] = cache[q]
      <4>1. PICK a : cache' = cache \/ cache' = [cache EXCEPT ![p][SymbolOf[Head(todo[p])]] = now]
        BY <1>2, FetchStep
      <4> QED BY <4>1 DEF TypeInv, Shapes
    <3> QED BY <1>2, <3>1 DEF Fetch, TypeInv, Shapes, Alone
  <2>3. /\ used'[d] + Expected(p, d)' <= used[d] + Expected(p, d)
        /\ asked'[d] + used[d] + Uncommitted(p, d) <= asked[d] + used'[d] + Uncommitted(p, d)'
    BY <1>2, FetchBooks
  <2>4. /\ used[d] \in Nat /\ used'[d] \in Nat /\ asked[d] \in Nat /\ asked'[d] \in Nat
        /\ Uncommitted(p, d) \in Nat /\ Uncommitted(p, d)' \in Nat
    BY <1>5
  <2>5. /\ asked'[d] + used[d] + Uncommitted(p, d)
            <= asked[d] + used'[d] + Uncommitted(p, d)' + 0
        /\ faults' * BatchSize = faults * BatchSize + 0
    BY <1>0, <2>1, <2>3, <2>4, ConstantsOK
  <2> QED BY <1>0, <2>1, <2>2, <2>3, <2>5, DayKept
<1>3. ASSUME NEW p \in Proc, Commit(p) PROVE DayBooked(d)'
  <2>1. now' = now /\ closed' = closed /\ faults' = faults /\ \A q \in Proc \ {p} : Alone(q)
    BY <1>3 DEF Commit, TypeInv, Shapes, Alone
  <2>2. /\ used'[d] + Expected(p, d)' <= used[d] + Expected(p, d)
        /\ asked'[d] + used[d] + Uncommitted(p, d) <= asked[d] + used'[d] + Uncommitted(p, d)'
    BY <1>3, CommitBooks
  <2>3. /\ used[d] \in Nat /\ used'[d] \in Nat /\ asked[d] \in Nat /\ asked'[d] \in Nat
        /\ Uncommitted(p, d) \in Nat /\ Uncommitted(p, d)' \in Nat
    BY <1>5
  <2>4. /\ asked'[d] + used[d] + Uncommitted(p, d)
            <= asked[d] + used'[d] + Uncommitted(p, d)' + 0
        /\ faults' * BatchSize = faults * BatchSize + 0
    BY <1>0, <2>1, <2>2, <2>3, ConstantsOK
  <2> QED BY <1>0, <2>1, <2>2, <2>4, DayKept
<1>4. ASSUME NEW p \in Proc, RunFails(p) \/ Crash(p) PROVE DayBooked(d)'
  <2>1. /\ now' = now /\ closed' = closed /\ faults' = faults + 1
        /\ Abandon(p) /\ UNCHANGED <<used, asked>>
    BY <1>4 DEF RunFails, Crash, dbVars
  <2>2. \A q \in Proc \ {p} : cache'[q] = cache[q]
    BY <1>4 DEF RunFails, Crash, TypeInv, Shapes
  <2>3. \A q \in Proc \ {p} : Alone(q)
    BY <2>1, <2>2 DEF Abandon, TypeInv, Shapes, Alone
  <2>4. /\ used'[d] + Expected(p, d)' <= used[d] + Expected(p, d)
        /\ asked'[d] + used[d] + Uncommitted(p, d)
             <= asked[d] + used'[d] + Uncommitted(p, d)' + BatchSize
    BY <2>1, AbandonBooks
  <2>5. faults' * BatchSize = faults * BatchSize + BatchSize /\ BatchSize \in Nat
    BY <1>0, <2>1, ConstantsOK
  <2> QED BY <1>0, <2>1, <2>3, <2>4, <2>5, DayKept
<1>6. ASSUME \/ \E p \in Proc, c \in Conn : Unlock(p, c) \/ CloseIdle(p, c)
             \/ Tick \/ UNCHANGED vars
      PROVE  DayBooked(d)'
  <2>1. /\ UNCHANGED <<used, asked, faults, tx, todo, conn>>
        /\ closed' \in {closed, closed + 1} /\ now' \in {now, now + 1}
    <3>1. Tick \/ UNCHANGED vars => <2>1!1 /\ <2>1!2
      BY <1>0 DEF Tick, vars, dbVars, procVars
    <3>2. ASSUME NEW p \in Proc, NEW c \in Conn, Unlock(p, c) PROVE <2>1!1 /\ <2>1!2
      BY <3>2 DEF Unlock, dbVars
    <3>3. ASSUME NEW p \in Proc, NEW c \in Conn, CloseIdle(p, c) PROVE <2>1!1 /\ <2>1!2
      BY <3>3 DEF CloseIdle, dbVars, procVars
    <3> QED BY <1>6, <3>1, <3>2, <3>3
  <2>2. DayOf(now) \in Nat /\ DayOf(now') \in Nat /\ DayOf(now) <= DayOf(now') /\ d \in Nat
    <3>1. now \in Nat
      BY TimeOfDay DEF TypeInv, StoreOK
    <3>2. now' \in Nat /\ now <= now'
      BY <2>1, <3>1
    <3> QED BY <3>1, <3>2, DayMonotone DEF Day
  <2>3. ASSUME NEW p \in Proc PROVE Expected(p, d)' <= Expected(p, d)
    <3>1. Uncommitted(p, d)' = Uncommitted(p, d)
      BY <2>1 DEF Uncommitted
    <3>2. Uncommitted(p, d) \in Nat /\ Len(todo[p]) \in Nat
      BY Amounts
    <3>3. /\ Expected(p, d) = Uncommitted(p, d)
                 + IF d >= DayOf(now) \/ (conn[p] # None /\ DayOf(tx[p].at) = d)
                   THEN Len(todo[p]) ELSE 0
          /\ Expected(p, d)' = Uncommitted(p, d)
                 + IF d >= DayOf(now') \/ (conn[p] # None /\ DayOf(tx[p].at) = d)
                   THEN Len(todo[p]) ELSE 0
      BY <2>1, <3>1 DEF Expected
    <3> QED BY <2>2, <3>2, <3>3
  <2>4. closed' \in Nat /\ closed' >= closed
    BY <1>0, <2>1
  <2> QED BY <1>0, <2>1, <2>3, <2>4, LooserBooks
<1>7. ASSUME NEW p \in Proc, Apply(p) PROVE DayBooked(d)'
  <2>1. /\ UNCHANGED <<used, asked, faults, todo, conn, now, closed>>
        /\ tx' = [tx EXCEPT ![p] = tx'[p]] /\ tx'[p].at = tx[p].at /\ tx'[p].n = tx[p].n
        /\ tx = [q \in Proc |-> tx[q]]
    BY <1>7, ApplyStep DEF TypeInv, Shapes
  <2>2. \A q \in Proc : tx'[q].at = tx[q].at /\ tx'[q].n = tx[q].n
    BY <2>1
  <2>3. \A q \in Proc : Uncommitted(q, d)' = Uncommitted(q, d) /\ Expected(q, d)' = Expected(q, d)
    BY <2>1, <2>2 DEF Uncommitted, Expected
  <2>4. AllUncommitted(d)' = AllUncommitted(d) /\ AllExpected(d)' = AllExpected(d)
    BY <2>3 DEF AllUncommitted, AllExpected
  <2> QED BY <2>1, <2>4 DEF BookInv, DayBooked
<1> QED BY <1>1, <1>2, <1>3, <1>4, <1>6, <1>7 DEF Next

(* The providers are asked at most fundamental_max_requests_per_day times  *)
(* a day, but for a batch per crash and a run per lost lock: the budget is *)
(* read once, when a run begins, and the run's rows keep within it on this *)
(* day and on every later one the run may last into.                       *)
THEOREM RequestsTheorem == Spec => []RequestsBounded
<1>1. Init => BookInv
  <2> SUFFICES ASSUME Init, NEW d \in Day PROVE DayBooked(d)
    BY DEF BookInv
  <2>1. TypeInv
    BY InitTypes
  <2>2. Active = {} /\ IsFiniteSet(Active) /\ Cardinality(Active) = 0
    BY FS_EmptySet DEF Init, Active
  <2>3. SumsOK(d)
    BY <2>1, <2>2, Sums
  <2> DEFINE e == Cardinality(Cells(AllExpected(d)))
             u == Cardinality(Cells(AllUncommitted(d)))
  <2>4. e \in Nat /\ u \in Nat /\ e <= 0 * MaxPerRun
    BY <2>2, <2>3 DEF SumsOK
  <2>5. used[d] = 0 /\ asked[d] = 0 /\ closed = 0 /\ faults = 0
    BY DEF Init
  <2> HIDE DEF e, u
  <2>6. used[d] + e <= MaxPerDay + closed * MaxPerRun
    BY <2>4, <2>5, ConstantsOK
  <2>7. asked[d] <= used[d] + u + faults * BatchSize
    BY <2>4, <2>5, ConstantsOK
  <2> QED BY <2>6, <2>7 DEF DayBooked, e, u
<1>2. TypeInv /\ StrayInv /\ BookInv => RequestsBounded
  <2> SUFFICES ASSUME TypeInv, StrayInv, BookInv, NEW d \in Day
               PROVE  asked[d] <= MaxPerDay + faults * BatchSize + closed * MaxPerRun
    BY DEF RequestsBounded
  <2> DEFINE e == Cardinality(Cells(AllExpected(d)))
             u == Cardinality(Cells(AllUncommitted(d)))
  <2>1. e \in Nat /\ u \in Nat /\ u <= e
    BY Sums DEF StrayInv, SumsOK
  <2>2. /\ used[d] + e <= MaxPerDay + closed * MaxPerRun
        /\ asked[d] <= used[d] + u + faults * BatchSize
    BY DEF BookInv, DayBooked
  <2>3. /\ used[d] \in Nat /\ asked[d] \in Nat /\ closed * MaxPerRun \in Nat
        /\ faults * BatchSize \in Nat
    BY ConstantsOK DEF TypeInv, StoreOK
  <2> HIDE DEF e, u
  <2> QED BY <2>1, <2>2, <2>3, ConstantsOK
<1>3. TypeInv /\ StrayInv /\ BookInv /\ TypeInv' /\ StrayInv' /\ [Next]_vars => BookInv'
  BY NextBooks
<1> QED BY <1>1, <1>2, <1>3, InitTypes, NextTypes, InitStrayInv, NextStrayInv, PTL DEF Spec

-----------------------------------------------------------------------------
(* The escalating wait                                                     *)

(* The powers of the multiplier satisfy their recursion, so none is zero. *)
Powers(n) == {g \in [0..n -> Nat] : g[0] = 1 /\ \A i \in 1..n : g[i] = Multiplier * g[i - 1]}

(* There are partial powers of every length: a shortest one without is none. *)
LEMMA PowersExist == \A n \in Nat : Powers(n) # {}
<1> DEFINE T == {n \in Nat : Powers(n) = {}}
<1> SUFFICES ASSUME T # {} PROVE FALSE
  OBVIOUS
<1>1. PICK n \in T : \A m \in T : n <= m
  <2>1. T \in SUBSET Nat
    OBVIOUS
  <2> HIDE DEF T
  <2> QED BY <2>1, Least
<1>2. CASE n = 0
  <2>1. [i \in 0..0 |-> 1] \in Powers(0)
    BY DEF Powers
  <2> QED BY <1>1, <1>2, <2>1
<1>3. CASE n # 0
  <2>1. n - 1 \in Nat /\ n - 1 \notin T
    BY <1>1, <1>3
  <2>2. PICK g \in [0..n - 1 -> Nat] : g[0] = 1 /\ \A i \in 1..n - 1 : g[i] = Multiplier * g[i - 1]
    BY <2>1 DEF Powers
  <2> DEFINE h == [i \in 0..n |-> IF i = n THEN Multiplier * g[n - 1] ELSE g[i]]
  <2>3. h \in [0..n -> Nat]
    BY <1>1, <1>3, <2>2, ConstantsOK
  <2>4. h[0] = 1 /\ \A i \in 1..n : h[i] = Multiplier * h[i - 1]
    BY <1>1, <1>3, <2>2, ConstantsOK
  <2> QED BY <1>1, <2>3, <2>4 DEF Powers
<1> QED BY <1>2, <1>3

(* Two partial powers agree wherever both are defined. *)
LEMMA PowersAgree ==
  ASSUME NEW n \in Nat, NEW m \in Nat, NEW g \in Powers(n), NEW h \in Powers(m)
  PROVE  \A i \in (0..n) \cap (0..m) : g[i] = h[i]
<1> DEFINE T == {i \in (0..n) \cap (0..m) : g[i] # h[i]}
<1> SUFFICES ASSUME T # {} PROVE FALSE
  OBVIOUS
<1>1. PICK i \in T : \A j \in T : i <= j
  <2>1. T \in SUBSET Nat
    OBVIOUS
  <2> HIDE DEF T
  <2> QED BY <2>1, Least
<1>2. i # 0
  BY <1>1 DEF Powers
<1>3. i - 1 \in (0..n) \cap (0..m) /\ i - 1 \notin T
  BY <1>1, <1>2
<1>4. g[i - 1] = h[i - 1] /\ i \in 1..n /\ i \in 1..m
  BY <1>1, <1>2, <1>3
<1>5. g[i] = Multiplier * g[i - 1] /\ h[i] = Multiplier * h[i - 1]
  BY <1>4 DEF Powers
<1> QED BY <1>1, <1>4, <1>5

(* So the function of all powers satisfies the recursion that defines it. *)
LEMMA PowerRecursion ==
  Power = [n \in Nat |-> IF n = 0 THEN 1 ELSE Multiplier * Power[n - 1]]
<1> DEFINE G(n) == CHOOSE g : g \in Powers(n)
           F == [n \in Nat |-> G(n)[n]]
<1>1. \A n \in Nat : G(n) \in Powers(n)
  BY PowersExist
<1>2. F[0] = 1
  BY <1>1 DEF Powers
<1>3. ASSUME NEW n \in Nat, n # 0 PROVE F[n] = Multiplier * F[n - 1]
  <2>1. n - 1 \in Nat /\ G(n) \in Powers(n) /\ G(n - 1) \in Powers(n - 1)
    BY <1>1, <1>3
  <2>2. G(n)[n - 1] = G(n - 1)[n - 1]
    <3> HIDE DEF G
    <3>1. n - 1 \in (0..n) \cap (0..n - 1)
      BY <2>1
    <3> QED BY <2>1, <3>1, PowersAgree
  <2>3. G(n)[n] = Multiplier * G(n)[n - 1]
    <3> HIDE DEF G
    <3> QED BY <2>1, <1>3 DEF Powers
  <2> QED BY <2>1, <2>2, <2>3
<1>4. F = [n \in Nat |-> IF n = 0 THEN 1 ELSE Multiplier * F[n - 1]]
  <2>1. F = [n \in Nat |-> F[n]]
    OBVIOUS
  <2> HIDE DEF F
  <2> QED BY <1>2, <1>3, <2>1
<1> HIDE DEF F
<1> QED BY <1>4 DEF Power

(* No power of a positive multiplier is zero. *)
LEMMA PowerPositive == \A n \in Nat : Power[n] \in Nat \ {0}
<1> DEFINE T == {n \in Nat : Power[n] \notin Nat \ {0}}
<1> SUFFICES ASSUME T # {} PROVE FALSE
  OBVIOUS
<1>1. PICK n \in T : \A m \in T : n <= m
  <2>1. T \in SUBSET Nat
    OBVIOUS
  <2> HIDE DEF T
  <2> QED BY <2>1, Least
<1>2. n # 0 /\ Power[n] = Multiplier * Power[n - 1]
  BY <1>1, PowerRecursion
<1>3. n - 1 \in Nat /\ n - 1 \notin T
  BY <1>1, <1>2
<1>4. Power[n - 1] \in Nat \ {0}
  BY <1>3
<1> HIDE DEF T
<1>5. Multiplier * Power[n - 1] \in Nat \ {0}
  BY <1>4, ConstantsOK
<1> QED BY <1>1, <1>2, <1>5 DEF T

(* A wait of zero is zero for every number of rate limits. *)
LEMMA WaitLemma ==
  ASSUME NEW n \in Nat
  PROVE  Wait(n) \in Nat /\ (Wait(n) = 0 => Wait(0) = 0)
<1> DEFINE k == IF n = 0 THEN 0 ELSE n - 1
<1>1. k \in Nat
  OBVIOUS
<1>2. Power[k] \in Nat \ {0} /\ Power[0] = 1
  BY <1>1, PowerPositive, PowerRecursion
<1>3. Cooldown * Power[k] \in Nat /\ (Cooldown * Power[k] = 0 => Cooldown = 0)
  BY <1>2, ConstantsOK
<1>4. Wait(n) = Min({Cooldown * Power[k], MaxCooldown}) /\ Wait(0) = Min({Cooldown, MaxCooldown})
  <2>1. Cooldown * Power[0] = Cooldown
    BY <1>2, ConstantsOK
  <2>2. Wait(n) = Min({Cooldown * Power[k], MaxCooldown})
    BY Zenon DEF Wait
  <2>3. Wait(0) = Min({Cooldown * Power[0], MaxCooldown})
    BY DEF Wait
  <2> QED BY <2>1, <2>2, <2>3
<1> DEFINE x == Cooldown * Power[k]
<1>5. x \in Nat /\ (x = 0 => Cooldown = 0) /\ Wait(n) = Min({x, MaxCooldown})
  BY <1>3, <1>4
<1> HIDE DEF k, x
<1>6. Wait(n) = IF x <= MaxCooldown THEN x ELSE MaxCooldown
  BY <1>5, MinOfTwo, ConstantsOK
<1>7. Wait(0) = IF Cooldown <= MaxCooldown THEN Cooldown ELSE MaxCooldown
  BY <1>4, MinOfTwo, ConstantsOK
<1> QED BY <1>5, <1>6, <1>7, ConstantsOK

-----------------------------------------------------------------------------
(* The pause after a rate limit                                            *)

(* The time the log rows of p's next fetch bear. *)
Start(p) == IF conn[p] = None THEN now ELSE tx[p].at

(* A run that may still ask a provider began its transaction after the     *)
(* pause the log asks for.                                                 *)
PauseOK(p) ==
  /\ pc[p] \in {"idle", "unlock"} => conn[p] = None
  /\ conn[p] # None => limitedAt <= tx[p].at /\ okAt <= tx[p].at
  /\ pc[p] \in {"batch", "apply", "commit"} => ~(RateLimited /\ Start(p) < limitedAt + Wait(since))
PauseInv == limitedAt <= now /\ okAt <= now /\ \A p \in Proc : PauseOK(p)

(* A process a step leaves alone keeps its pause, if the log is kept. *)
LEMMA PauseStays ==
  ASSUME NEW q \in Proc, PauseOK(q), Alone(q), UNCHANGED <<now, limitedAt, okAt, since>>
  PROVE  PauseOK(q)'
<1>1. RateLimited' = RateLimited /\ Start(q)' = Start(q)
  BY DEF RateLimited, Start, Alone
<1>2. Wait(since)' = Wait(since)
  BY DEF Wait
<1> QED BY <1>1, <1>2 DEF PauseOK, Alone

(* While the lock excludes other runs, no other process is in a run. *)
LEMMA NobodyElse ==
  ASSUME LockInv, NEW p \in Proc, NEW q \in Proc, q # p, pc[p] # "idle"
  PROVE  pc[q] = "idle"
BY PoolsDisjoint DEF LockInv, Strays, Active

(* While the lock excludes other runs, every step preserves PauseInv. *)
LEMMA NextPauseInv ==
  ASSUME LockInv, TypeInv, PauseInv, [Next]_vars
  PROVE  PauseInv'
<1>0. /\ now \in Nat /\ limitedAt \in Nat /\ okAt \in Nat /\ since \in Nat
      /\ limitedAt <= now /\ okAt <= now /\ Wait(since) \in Nat
  BY TimeOfDay, WaitLemma DEF TypeInv, StoreOK, PauseInv
<1>1. ASSUME NEW p \in Proc, PauseOK(p)', UNCHANGED <<now, limitedAt, okAt, since>>,
             \A q \in Proc \ {p} : Alone(q)
      PROVE  PauseInv'
  BY <1>0, <1>1, PauseStays DEF PauseInv
<1>2. ASSUME NEW p \in Proc, NEW c \in Conn, BeginRun(p, c) PROVE PauseInv'
  <2>1. /\ pc'[p] = "batch" /\ conn'[p] = c /\ tx'[p].at = now /\ ~Paused
        /\ UNCHANGED <<now, limitedAt, okAt, since>> /\ \A q \in Proc \ {p} : Alone(q)
    BY <1>2 DEF BeginRun, MayRun, dbVars, TypeInv, Shapes, Alone, NoTx
  <2>2. Start(p)' = now /\ RateLimited' = RateLimited /\ Wait(since)' = Wait(since)
    BY <2>1 DEF Start, RateLimited, Wait
  <2>3. PauseOK(p)'
    BY <1>0, <2>1, <2>2, ConnIsNotNone DEF PauseOK, Paused
  <2> QED BY <1>1, <2>1, <2>3
<1>3. ASSUME NEW p \in Proc, NEW c \in Conn, Fetch(p, c) PROVE PauseInv'
  <2> DEFINE r == Head(todo[p])
  <2>1. /\ pc[p] = "batch" /\ conn'[p] = c /\ UNCHANGED <<now, limitedAt, okAt, since>>
        /\ todo[p] \in Seq(Row) /\ left[p] \in Nat /\ left[p] >= 1 /\ left[p] <= Len(todo[p])
    BY <1>3, ConstantsOK DEF Fetch, dbVars, TypeInv, Shapes, ProcOK, RunOK
  <2>2. r \in Row
    BY <2>1, NextRow
  <2>3. PICK a \in Answer :
          /\ tx' = [tx EXCEPT ![p] = TxAfter(p, r, SymbolOf[r], a)]
          /\ cache' = cache \/ cache' = [cache EXCEPT ![p][SymbolOf[r]] = now]
    BY <1>3, FetchStep
  <2>4. \A q \in Proc \ {p} : Alone(q)
    BY <1>3, <2>3 DEF Fetch, TypeInv, Shapes, Alone
  <2>5. tx'[p].at = Start(p) /\ pc'[p] = "apply"
    <3>2. pc'[p] = "apply"
      BY <1>3 DEF Fetch, TypeInv, Shapes
    <3> HIDE DEF r
    <3>1. TxAfter(p, r, SymbolOf[r], a).at = IF conn[p] = None THEN now ELSE tx[p].at
      BY <2>1, <2>2, FetchTx
    <3> QED BY <2>3, <3>1, <3>2 DEF Start, TypeInv, Shapes
  <2>6. Start(p)' = Start(p) /\ RateLimited' = RateLimited /\ Wait(since)' = Wait(since)
    BY <2>1, <2>5, ConnIsNotNone DEF Start, RateLimited, Wait
  <2>7. limitedAt <= Start(p) /\ okAt <= Start(p)
    BY <1>0 DEF PauseInv, PauseOK, Start
  <2>8. ~(RateLimited /\ Start(p) < limitedAt + Wait(since))
    BY <2>1 DEF PauseInv, PauseOK
  <2>9. PauseOK(p)'
    BY <2>1, <2>5, <2>6, <2>7, <2>8 DEF PauseOK
  <2> QED BY <1>1, <2>1, <2>4, <2>9
<1>4. ASSUME NEW p \in Proc, Commit(p) PROVE PauseInv'
  <2> DEFINE t == tx[p]
  <2>1. /\ pc[p] \in {"commit", "limited"} /\ conn'[p] = None /\ now' = now
        /\ okAt' = IF t.ok THEN t.at ELSE okAt
        /\ limitedAt' = IF t.limited THEN t.at ELSE limitedAt
        /\ since' = IF t.ok THEN 0 ELSE IF t.limited THEN since + 1 ELSE since
        /\ pc[p] = "limited" => pc'[p] = "unlock"
        /\ pc'[p] # "idle"
    BY <1>4 DEF Commit, TypeInv, Shapes
  <2>2. t.at \in Nat /\ t.at <= now
    BY TimeOfDay DEF TypeInv, ProcOK, RunOK, TxOK
  <2>3. limitedAt' <= now' /\ okAt' <= now'
    BY <1>0, <2>1, <2>2
  <2>4. ASSUME NEW q \in Proc, q # p PROVE PauseOK(q)'
    <3>1. pc[q] = "idle" /\ pc'[q] = "idle" /\ conn'[q] = conn[q]
      BY <1>4, <2>1, <2>4, NobodyElse DEF Commit, TypeInv, Shapes
    <3>2. conn'[q] = None
      BY <3>1 DEF PauseInv, PauseOK
    <3> QED BY <3>1, <3>2 DEF PauseOK
  <2>5. ASSUME pc[p] = "commit", RateLimited', now < limitedAt' + Wait(since)' PROVE FALSE
    <3>1. ~t.limited /\ limitedAt' = limitedAt /\ limitedAt # 0 /\ okAt' <= limitedAt
      BY <2>1, <2>5 DEF TypeInv, RunOK, RateLimited
    <3>2. ~(RateLimited /\ Start(p) < limitedAt + Wait(since))
      BY <2>5 DEF PauseInv, PauseOK
    <3>3. Start(p) \in Nat /\ Start(p) <= now
      BY <1>0, <2>2 DEF Start
    <3>4. CASE ~t.ok
      <4>1. RateLimited /\ since' = since
        BY <2>1, <3>1, <3>4 DEF RateLimited
      <4>2. now < limitedAt + Wait(since)
        BY <2>5, <3>1, <4>1 DEF Wait
      <4> QED BY <1>0, <3>2, <3>3, <4>1, <4>2
    <3>5. CASE t.ok
      <4>1. conn[p] # None
        BY <3>5 DEF TypeInv, RunOK, NoTx
      <4>2. limitedAt <= t.at /\ okAt <= t.at /\ Start(p) = t.at
        BY <4>1 DEF PauseInv, PauseOK, Start
      <4>3. t.at = limitedAt /\ since' = 0
        BY <1>0, <2>1, <2>2, <3>1, <3>5, <4>2
      <4>4. RateLimited
        BY <3>1, <4>2, <4>3 DEF RateLimited
      <4>5. Wait(since) = 0
        BY <1>0, <3>2, <4>2, <4>3, <4>4
      <4>6. Wait(0) = 0
        BY <1>0, <4>5, WaitLemma
      <4>7. Wait(since)' = Wait(0)
        BY <4>3 DEF Wait
      <4> QED BY <1>0, <2>5, <3>1, <4>6, <4>7
    <3> QED BY <3>4, <3>5
  <2>6. Start(p)' = now
    BY <2>1 DEF Start
  <2>7. PauseOK(p)'
    BY <2>1, <2>5, <2>6 DEF PauseOK
  <2> QED BY <2>3, <2>4, <2>7 DEF PauseInv
<1>5. ASSUME NEW p \in Proc, NEW c \in Conn, Unlock(p, c) PROVE PauseInv'
  <2>1. /\ UNCHANGED <<now, limitedAt, okAt, since>> /\ \A q \in Proc \ {p} : Alone(q)
        /\ pc[p] = "unlock" /\ pc'[p] = "idle" /\ conn'[p] = conn[p]
    BY <1>5 DEF Unlock, dbVars, TypeInv, Shapes, Alone
  <2>2. PauseOK(p)'
    BY <2>1 DEF PauseInv, PauseOK
  <2> QED BY <1>1, <2>1, <2>2
<1>6. ASSUME NEW p \in Proc, RunFails(p) \/ Crash(p) PROVE PauseInv'
  <2>1. Abandon(p) /\ UNCHANGED <<now, limitedAt, okAt, since>>
    BY <1>6 DEF RunFails, Crash, dbVars
  <2>2. \A q \in Proc \ {p} : cache'[q] = cache[q]
    BY <1>6 DEF RunFails, Crash, TypeInv, Shapes
  <2>3. \A q \in Proc \ {p} : Alone(q)
    BY <2>1, <2>2 DEF Abandon, TypeInv, Shapes, Alone
  <2>4. pc'[p] = "idle" /\ conn'[p] = None
    BY <2>1 DEF Abandon, TypeInv, Shapes
  <2>5. PauseOK(p)'
    BY <2>4 DEF PauseOK
  <2> QED BY <1>1, <2>1, <2>3, <2>5
<1>7. ASSUME \/ \E p \in Proc, c \in Conn : CloseIdle(p, c)
             \/ Tick \/ UNCHANGED vars
      PROVE  PauseInv'
  <2>1. UNCHANGED <<limitedAt, okAt, since, pc, conn, tx>> /\ now' \in {now, now + 1}
    BY <1>7 DEF CloseIdle, Tick, vars, dbVars, procVars
  <2>2. RateLimited' = RateLimited /\ Wait(since)' = Wait(since)
    BY <2>1 DEF RateLimited, Wait
  <2>3. ASSUME NEW p \in Proc PROVE PauseOK(p)'
    <3>1. PauseOK(p) /\ tx[p].at \in Nat
      BY TimeOfDay DEF PauseInv, TypeInv, ProcOK, TxOK
    <3>2. Start(p) \in Nat /\ Start(p)' \in Nat /\ Start(p) <= Start(p)'
      BY <1>0, <2>1, <3>1 DEF Start
    <3>3. ~(RateLimited /\ Start(p) < limitedAt + Wait(since))
            => ~(RateLimited /\ Start(p)' < limitedAt + Wait(since))
      BY <1>0, <3>2
    <3> QED BY <2>1, <2>2, <3>1, <3>3 DEF PauseOK
  <2> QED BY <1>0, <2>1, <2>3 DEF PauseInv
<1>8. ASSUME NEW p \in Proc, Apply(p) PROVE PauseInv'
  <2>1. /\ UNCHANGED <<now, limitedAt, okAt, since, conn, todo, left, cache>>
        /\ tx' = [tx EXCEPT ![p] = tx'[p]] /\ tx'[p].at = tx[p].at /\ pc[p] = "apply"
        /\ \E to \in {"limited", "commit", "batch"} : pc' = [pc EXCEPT ![p] = to]
    BY <1>8, ApplyStep
  <2>2. \A q \in Proc \ {p} : Alone(q)
    BY <2>1 DEF TypeInv, Shapes, Alone
  <2>3. Start(p)' = Start(p) /\ RateLimited' = RateLimited /\ Wait(since)' = Wait(since)
    BY <2>1 DEF Start, RateLimited, Wait
  <2>4. pc'[p] \notin {"idle", "unlock"}
    BY <2>1 DEF TypeInv, Shapes
  <2>5. PauseOK(p)'
    BY <2>1, <2>3, <2>4 DEF PauseInv, PauseOK
  <2> QED BY <1>1, <2>1, <2>2, <2>5
<1> QED BY <1>2, <1>3, <1>4, <1>5, <1>6, <1>7, <1>8 DEF Next

(* What holds until the first connection is closed under a lock. *)
PauseUntilClosed == closed = 0 => PauseInv

(* While the log asks for a pause no process asks a provider, unless a     *)
(* lock was lost: a run looks at the log once, when it begins, but every   *)
(* rate limit ends the only run there is.                                  *)
THEOREM PauseTheorem == Spec => NoFetchWhilePaused
<1>1. Init => PauseUntilClosed
  <2> SUFFICES ASSUME Init PROVE PauseInv
    BY DEF PauseUntilClosed
  <2>1. now = 1 /\ limitedAt = 0 /\ okAt = 0
    BY DEF Init
  <2>2. \A p \in Proc : pc[p] = "idle" /\ conn[p] = None
    BY DEF Init
  <2> QED BY <2>1, <2>2 DEF PauseInv, PauseOK
<1>2. StrayInv /\ TypeInv /\ PauseUntilClosed /\ [Next]_vars => PauseUntilClosed'
  BY StillExclusive, NextPauseInv DEF PauseUntilClosed
<1>3. TypeInv /\ PauseUntilClosed /\ [Next]_vars
        => [asked' # asked => ~Paused \/ closed > 0]_vars
  <2> SUFFICES ASSUME TypeInv, PauseUntilClosed, Next, asked' # asked, closed = 0, Paused
               PROVE  FALSE
    BY DEF TypeInv, StoreOK
  <2>1. PICK p \in Proc, c \in Conn : Fetch(p, c)
    <3>1. ~Tick
      BY DEF Tick
    <3>2. \A p \in Proc : ~Apply(p) /\ ~Commit(p) /\ ~RunFails(p) /\ ~Crash(p)
      BY DEF Apply, Commit, RunFails, Crash
    <3>3. \A p \in Proc, c \in Conn : ~BeginRun(p, c) /\ ~Unlock(p, c) /\ ~CloseIdle(p, c)
      BY DEF BeginRun, Unlock, CloseIdle
    <3> QED BY <3>1, <3>2, <3>3 DEF Next
  <2>2. ~(RateLimited /\ Start(p) < limitedAt + Wait(since))
    BY <2>1 DEF Fetch, PauseUntilClosed, PauseInv, PauseOK
  <2>3. Start(p) \in Nat /\ Start(p) <= now /\ now \in Nat
    <3>1. now \in Nat /\ tx[p].at \in Nat /\ tx[p].at <= now
      BY TimeOfDay DEF TypeInv, StoreOK, ProcOK, RunOK, TxOK
    <3> QED BY <3>1 DEF Start
  <2>4. limitedAt + Wait(since) \in Nat
    BY TimeOfDay, WaitLemma DEF TypeInv, StoreOK
  <2> QED BY <2>2, <2>3, <2>4 DEF Paused
<1> QED BY <1>1, <1>2, <1>3, InitTypes, NextTypes, InitStrayInv, NextStrayInv, PTL
       DEF Spec, NoFetchWhilePaused
=============================================================================
