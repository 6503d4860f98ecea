----------------------- MODULE MomentumPipelineProofs ------------------------
(***************************************************************************)
(* Proofs about the momentum job.  Of its states (MomentumPipeline), for   *)
(* every set of symbols and scores and every threshold and bound: the      *)
(* heart is EdgeLemma, that what evaluate_transition proposes is an entry  *)
(* state or an allowed edge.  And of the scores it reads (SignalFusion),   *)
(* for any stored data and contracts.  The two share no variable.          *)
(***************************************************************************)
EXTENDS MomentumPipeline, SignalFusion, ScoringProofs, TLAPS

(* Where a state stands in a symbol's life; every allowed edge goes up. *)
Rank(st) ==
  CASE st = "SETUP" -> 1
    [] st = "WATCH" -> 2
    [] st = "ACTIVATING" -> 3
    [] st = "TRIGGERED" -> 4
    [] st = "CONFIRMED" -> 5
    [] st = "EXHAUSTED" -> 6
    [] st = "INVALIDATED" -> 7
    [] OTHER -> 0

(* evaluate_transition proposes nothing, an entry state for a symbol       *)
(* without a state, or one of ALLOWED_TRANSITIONS.                         *)
LEMMA EdgeLemma ==
  ASSUME NEW current \in States, NEW score \in Int
  PROVE  \/ EvaluateTransition(current, score) = "HOLD"
         \/ /\ current = "NONE"
            /\ EvaluateTransition(current, score) \in Lifecycle!EntryStates
         \/ <<current, EvaluateTransition(current, score)>> \in Lifecycle!ALLOWED_TRANSITIONS
<1>0. Threshold \in Nat /\ Threshold # 0
  BY ScoresOK
<1>a. BandIndex(score) \in 0..3
  BY <1>0 DEF BandIndex
<1>b. /\ Ladder[0] = "SETUP" /\ Ladder[1] = "WATCH"
      /\ Ladder[2] = "ACTIVATING" /\ Ladder[3] = "TRIGGERED"
  BY DEF Ladder
<1>1. CASE current = "NONE"
  <2>1. EvaluateTransition(current, score) = Ladder[BandIndex(score)]
    BY <1>1 DEF EvaluateTransition, Terminal, AlertWorthy
  <2>2. Ladder[BandIndex(score)] \in Lifecycle!EntryStates
    BY <1>a, <1>b DEF Lifecycle!EntryStates
  <2> QED BY <1>1, <2>1, <2>2
<1>2. CASE current \in Terminal
  BY <1>2 DEF EvaluateTransition, Terminal, AlertWorthy
<1>3. CASE current \in AlertWorthy
  <2>1. EvaluateTransition(current, score) = AfterTrigger(current, score)
    BY <1>3 DEF EvaluateTransition, Terminal, AlertWorthy
  <2>2. \/ AfterTrigger(current, score) \in {"EXHAUSTED", "HOLD"}
        \/ current = "TRIGGERED" /\ AfterTrigger(current, score) = "CONFIRMED"
    BY <1>0, <1>3 DEF AfterTrigger, AlertWorthy
  <2> QED BY <1>3, <2>1, <2>2 DEF AlertWorthy, Lifecycle!ALLOWED_TRANSITIONS
<1>4. CASE current \in {"SETUP", "WATCH", "ACTIVATING"}
  <2>1. EvaluateTransition(current, score) = BeforeTrigger(current, score)
    BY <1>4 DEF EvaluateTransition, Terminal, AlertWorthy
  <2>2. LadderIndex[current] \in 0..2 /\ Ladder[LadderIndex[current]] = current
    BY <1>4, <1>b DEF LadderIndex
  <2>3. BeforeTrigger(current, score) \in {"INVALIDATED", "HOLD", Ladder[LadderIndex[current] + 1]}
    BY <1>0, <1>a, <2>2 DEF BeforeTrigger
  <2>4. <<current, Ladder[LadderIndex[current] + 1]>> \in Lifecycle!ALLOWED_TRANSITIONS
    BY <1>4, <1>b DEF LadderIndex, Lifecycle!ALLOWED_TRANSITIONS
  <2> QED BY <1>4, <2>1, <2>3, <2>4 DEF Lifecycle!ALLOWED_TRANSITIONS
<1> QED
  BY <1>1, <1>2, <1>3, <1>4 DEF States, MomentumState, Lifecycle!MomentumState,
                                Terminal, AlertWorthy

(* Every allowed edge goes up in rank. *)
LEMMA RankLemma ==
  ASSUME NEW from \in States, NEW to,
         \/ from = "NONE" /\ to \in Lifecycle!EntryStates
         \/ <<from, to>> \in Lifecycle!ALLOWED_TRANSITIONS
  PROVE  to \in MomentumState /\ Rank(from) < Rank(to)
<1>1. CASE from = "NONE" /\ to \in Lifecycle!EntryStates
  BY <1>1 DEF Lifecycle!EntryStates, MomentumState, Lifecycle!MomentumState, Rank
<1>2. CASE <<from, to>> \in Lifecycle!ALLOWED_TRANSITIONS
  BY <1>2 DEF Lifecycle!ALLOWED_TRANSITIONS, MomentumState, Lifecycle!MomentumState, Rank
<1> QED BY <1>1, <1>2

(* Length and elements of a sequence with one element more. *)
LEMMA AppendRow ==
  ASSUME NEW S, NEW q \in Seq(S), NEW e \in S
  PROVE  /\ Append(q, e) \in Seq(S)
         /\ Len(q) \in Nat /\ Len(Append(q, e)) = Len(q) + 1
         /\ \A i \in 1..Len(q) : Append(q, e)[i] = q[i]
         /\ Append(q, e)[Len(q) + 1] = e
OBVIOUS

-----------------------------------------------------------------------------
(* Type correctness                                                        *)

Row == [from : States, to : MomentumState, run : 1..MaxRuns]

(* The job is between BeginRun and its end only after a first run began,   *)
(* and works on a symbol while it alerts and observes.                     *)
JobOK ==
  /\ pc # "idle" => run >= 1
  /\ pc \in {"alert", "observe"} => cur \in Symbol

TypeInv == TypeOK /\ JobOK

(* What a transition appends and where the symbol goes. *)
LEMMA TransitionLemma ==
  ASSUME TypeInv, NEW s \in Symbol, NEW score \in Score, Transition(s, score)
  PROVE  \E next \in MomentumState :
           /\ \/ state[s] = "NONE" /\ next \in Lifecycle!EntryStates
              \/ <<state[s], next>> \in Lifecycle!ALLOWED_TRANSITIONS
           /\ Rank(state[s]) < Rank(next)
           /\ [from |-> state[s], to |-> next, run |-> run] \in Row
           /\ state' = [state EXCEPT ![s] = next]
           /\ log' = [log EXCEPT ![s] =
                        Append(log[s], [from |-> state[s], to |-> next, run |-> run])]
           /\ \/ /\ next \in AlertWorthy /\ pc' = "alert" /\ cur' = s
                 /\ verdict' = verdict
              \/ /\ pc' = pc /\ cur' = cur
                 /\ verdict' = [verdict EXCEPT ![s] = Decide(next)]
<1> DEFINE next == EvaluateTransition(state[s], score)
<1>1. state[s] \in States /\ score \in Int
  BY ScoresOK DEF TypeInv, TypeOK
<1>2. next # "HOLD"
  BY DEF Transition
<1>3. \/ state[s] = "NONE" /\ next \in Lifecycle!EntryStates
      \/ <<state[s], next>> \in Lifecycle!ALLOWED_TRANSITIONS
  BY <1>1, <1>2, EdgeLemma
<1>4. next \in MomentumState /\ Rank(state[s]) < Rank(next)
  BY <1>1, <1>3, RankLemma
<1>5. run \in 1..MaxRuns
  BY BoundsOK DEF TypeInv, TypeOK, JobOK, Transition, Move
<1>6. [from |-> state[s], to |-> next, run |-> run] \in Row
  BY <1>1, <1>4, <1>5 DEF Row
<1>7. /\ state' = [state EXCEPT ![s] = next]
      /\ log' = [log EXCEPT ![s] =
                   Append(log[s], [from |-> state[s], to |-> next, run |-> run])]
  BY DEF Transition, Move, WriteMove
<1>8. \/ /\ next \in AlertWorthy /\ pc' = "alert" /\ cur' = s
         /\ verdict' = verdict
      \/ /\ pc' = pc /\ cur' = cur
         /\ verdict' = [verdict EXCEPT ![s] = Decide(next)]
  BY DEF Transition, Move, AfterCommit
<1> HIDE DEF next
<1> QED BY <1>3, <1>4, <1>6, <1>7, <1>8

(* A decision is always one of the four verdicts. *)
LEMMA DecideLemma ==
  ASSUME NEW st \in States
  PROVE  Decide(st) \in Verdict
BY DEF Decide, States, MomentumState, Lifecycle!MomentumState, AlertWorthy, Terminal, Verdict

(* The initial state satisfies the type invariant. *)
LEMMA InitTypeInv == Init => TypeInv
<1> SUFFICES ASSUME Init PROVE TypeInv
  OBVIOUS
<1>1. log \in [Symbol -> Seq(Row)]
  BY DEF Init
<1>2. TypeOK
  BY <1>1, BoundsOK DEF Init, TypeOK, States, Row
<1> QED BY <1>2 DEF Init, TypeInv, JobOK

(* Every step preserves the type invariant. *)
LEMMA NextTypeInv == TypeInv /\ [Next]_vars => TypeInv'
<1> SUFFICES ASSUME TypeInv, [Next]_vars PROVE TypeInv'
  OBVIOUS
<1> USE BoundsOK
<1>1. CASE BeginRun
  <2>1. run' \in 0..MaxRuns /\ run' >= 1 /\ todo' \subseteq Symbol
    BY <1>1 DEF TypeInv, TypeOK, BeginRun
  <2>2. UNCHANGED <<state, log, alerted, observed, cur, verdict, crashes>> /\ pc' = "loop"
    BY <1>1 DEF BeginRun
  <2> QED BY <2>1, <2>2 DEF TypeInv, TypeOK, JobOK
<1>2. CASE RaiseAlert
  <2>1. Len(log[cur]) \in Nat
    BY <1>2 DEF TypeInv, TypeOK, JobOK, RaiseAlert
  <2>2. alerted' \in [Symbol -> SUBSET Nat]
    BY <1>2, <2>1 DEF TypeInv, TypeOK, JobOK, RaiseAlert
  <2> QED BY <1>2, <2>2 DEF TypeInv, TypeOK, JobOK, RaiseAlert
<1>3. CASE RecordObservation
  <2>1. Len(log[cur]) \in Nat /\ state[cur] \in States /\ cur \in Symbol
    BY <1>3 DEF TypeInv, TypeOK, JobOK, RecordObservation
  <2>2. observed' \in [Symbol -> SUBSET Nat]
    BY <1>3, <2>1 DEF TypeInv, TypeOK, RecordObservation
  <2>3. verdict' \in [Symbol -> Verdict \cup {"NONE"}]
    BY <1>3, <2>1, DecideLemma DEF TypeInv, TypeOK, RecordObservation
  <2> QED BY <1>3, <2>2, <2>3 DEF TypeInv, TypeOK, JobOK, RecordObservation
<1>4. CASE LaterStepFails
  BY <1>4 DEF TypeInv, TypeOK, JobOK, LaterStepFails
<1>5. CASE EndRun
  BY <1>5 DEF TypeInv, TypeOK, JobOK, EndRun
<1>6. CASE Crash
  <2>1. crashes' \in 0..MaxCrashes
    BY <1>6 DEF TypeInv, TypeOK, Crash
  <2>2. /\ UNCHANGED <<state, log, alerted, observed, run>>
        /\ pc' = "idle" /\ todo' = {} /\ cur' = "none"
        /\ verdict' = [s \in Symbol |-> "NONE"]
    BY <1>6 DEF Crash
  <2> QED BY <2>1, <2>2 DEF TypeInv, TypeOK, JobOK
<1>7. ASSUME NEW s \in Symbol, Reject(s) PROVE TypeInv'
  BY <1>7 DEF TypeInv, TypeOK, JobOK, Reject, Verdict
<1>8. ASSUME NEW s \in Symbol, EvaluateFails(s) PROVE TypeInv'
  BY <1>8 DEF TypeInv, TypeOK, JobOK, EvaluateFails
<1>9. ASSUME NEW s \in Symbol, NEW score \in Score, Hold(s, score) PROVE TypeInv'
  <2>1. Decide(state[s]) \in Verdict
    BY DecideLemma DEF TypeInv, TypeOK
  <2> QED BY <1>9, <2>1 DEF TypeInv, TypeOK, JobOK, Hold
<1>10. ASSUME NEW s \in Symbol, NEW score \in Score, Transition(s, score) PROVE TypeInv'
  <2>1. PICK next \in MomentumState :
           /\ [from |-> state[s], to |-> next, run |-> run] \in Row
           /\ state' = [state EXCEPT ![s] = next]
           /\ log' = [log EXCEPT ![s] =
                        Append(log[s], [from |-> state[s], to |-> next, run |-> run])]
           /\ \/ /\ next \in AlertWorthy /\ pc' = "alert" /\ cur' = s
                 /\ verdict' = verdict
              \/ /\ pc' = pc /\ cur' = cur
                 /\ verdict' = [verdict EXCEPT ![s] = Decide(next)]
    BY <1>10, TransitionLemma
  <2>2. log' \in [Symbol -> Seq(Row)]
    <3>1. log \in [Symbol -> Seq(Row)]
      BY DEF TypeInv, TypeOK, Row
    <3>2. Append(log[s], [from |-> state[s], to |-> next, run |-> run]) \in Seq(Row)
      BY <2>1, <3>1, AppendRow
    <3> QED BY <2>1, <3>1, <3>2
  <2>3. state' \in [Symbol -> States]
    BY <2>1 DEF TypeInv, TypeOK, States
  <2>4. verdict' \in [Symbol -> Verdict \cup {"NONE"}]
    <3>1. Decide(next) \in Verdict
      BY DecideLemma DEF States
    <3> QED BY <2>1, <3>1 DEF TypeInv, TypeOK
  <2>5. pc' \in {"idle", "loop", "alert", "observe"} /\ cur' \in Symbol \cup {"none"} /\ JobOK'
    BY <1>10, <2>1 DEF TypeInv, TypeOK, JobOK, Transition, Move
  <2>6. UNCHANGED <<alerted, observed, run, crashes>> /\ todo' \subseteq Symbol
    BY <1>10 DEF Transition, Move, TypeInv, TypeOK
  <2> QED BY <2>2, <2>3, <2>4, <2>5, <2>6 DEF TypeInv, TypeOK, Row
<1>11. CASE UNCHANGED vars
  BY <1>11 DEF TypeInv, TypeOK, JobOK, vars
<1> QED
  BY <1>1, <1>2, <1>3, <1>4, <1>5, <1>6, <1>7, <1>8, <1>9, <1>10, <1>11
     DEF Next, EvaluateOne

(* The type invariant holds in every reachable state. *)
LEMMA TypeInvHolds == Spec => []TypeInv
BY InitTypeInv, NextTypeInv, PTL DEF Spec

(* Type correctness of the momentum pipeline, for any symbols, scores and  *)
(* threshold.                                                              *)
THEOREM TypeCorrect == Spec => []TypeOK
<1>1. TypeInv => TypeOK
  BY DEF TypeInv
<1> QED BY <1>1, TypeInvHolds, PTL

(* evaluate_transition never proposes an edge apply_transition refuses:    *)
(* its ValueError is unreachable, for any score and threshold.             *)
THEOREM IllegalEdgeTheorem == Spec => []NeverProposesIllegalEdge
<1>1. TypeInv => NeverProposesIllegalEdge
  <2> SUFFICES ASSUME TypeInv, NEW s \in Symbol, NEW score \in Score,
                      EvaluateTransition(state[s], score) # "HOLD"
               PROVE  IsValidTransition(state[s], EvaluateTransition(state[s], score))
    BY DEF NeverProposesIllegalEdge
  <2>1. state[s] \in States /\ score \in Int
    BY ScoresOK DEF TypeInv, TypeOK
  <2> QED BY <2>1, EdgeLemma DEF IsValidTransition
<1> QED BY <1>1, TypeInvHolds, PTL

-----------------------------------------------------------------------------
(* The pipeline implements the lifecycle                                   *)

(* Seen through state alone, every step is a lifecycle step or stutters:   *)
(* the refinement of the abstract specification.                           *)
THEOREM Refinement == Spec => ImplementsLifecycle
<1>1. Init => Lifecycle!Init
  BY DEF Init, Lifecycle!Init
<1>2. TypeInv /\ [Next]_vars => [Lifecycle!Next]_state
  <2> SUFFICES ASSUME TypeInv, Next PROVE Lifecycle!Next \/ state' = state
    BY DEF vars
  <2>1. ASSUME NEW s \in Symbol, NEW score \in Score, Transition(s, score)
        PROVE  Lifecycle!Next
    <3>1. PICK next \in MomentumState :
            /\ \/ state[s] = "NONE" /\ next \in Lifecycle!EntryStates
               \/ <<state[s], next>> \in Lifecycle!ALLOWED_TRANSITIONS
            /\ state' = [state EXCEPT ![s] = next]
      BY <2>1, TransitionLemma
    <3>2. Lifecycle!Enter(s) \/ Lifecycle!Move(s)
      BY <3>1 DEF Lifecycle!Enter, Lifecycle!Move, MomentumState
    <3> QED BY <3>2 DEF Lifecycle!Next
  <2>2. ASSUME NEW s \in Symbol, NEW score \in Score, Hold(s, score) PROVE state' = state
    BY <2>2 DEF Hold
  <2>3. ASSUME NEW s \in Symbol, Reject(s) \/ EvaluateFails(s) PROVE state' = state
    BY <2>3 DEF Reject, EvaluateFails
  <2>4. ASSUME BeginRun \/ RaiseAlert \/ RecordObservation \/ LaterStepFails \/ EndRun \/ Crash
        PROVE  state' = state
    BY <2>4 DEF BeginRun, RaiseAlert, RecordObservation, LaterStepFails, EndRun, Crash
  <2> QED BY <2>1, <2>2, <2>3, <2>4 DEF Next, EvaluateOne
<1> QED BY <1>1, <1>2, TypeInvHolds, PTL DEF Spec, ImplementsLifecycle, Lifecycle!Spec

-----------------------------------------------------------------------------
(* The transition log                                                      *)

(* Rows are ranked: later rows reach strictly higher states. *)
RanksRise ==
  \A s \in Symbol : \A i, j \in 1..Len(log[s]) :
    i < j => Rank(log[s][i].to) < Rank(log[s][j].to)

(* A symbol still to be evaluated has no row of the current run. *)
RunsOK ==
  \A s \in Symbol : \A i \in 1..Len(log[s]) :
    log[s][i].run <= run /\ (s \in todo => log[s][i].run < run)

LogInv == LogMatchesPointer /\ RanksRise /\ RunsOK /\ OneStagePerRun

(* The log without rows satisfies LogInv. *)
LEMMA InitLogInv == Init => LogInv
BY DEF Init, LogInv, LogMatchesPointer, RanksRise, RunsOK, OneStagePerRun

(* Appending one row keeps the log a chain, ranked and one row per run. *)
LEMMA TransitionLogInv ==
  ASSUME TypeInv, LogInv, NEW s \in Symbol, NEW score \in Score, Transition(s, score)
  PROVE  LogInv'
<1>1. PICK next \in MomentumState :
        /\ Rank(state[s]) < Rank(next)
        /\ \/ state[s] = "NONE" /\ next \in Lifecycle!EntryStates
           \/ <<state[s], next>> \in Lifecycle!ALLOWED_TRANSITIONS
        /\ [from |-> state[s], to |-> next, run |-> run] \in Row
        /\ state' = [state EXCEPT ![s] = next]
        /\ log' = [log EXCEPT ![s] =
                     Append(log[s], [from |-> state[s], to |-> next, run |-> run])]
  BY TransitionLemma
<1> DEFINE r == [from |-> state[s], to |-> next, run |-> run]
           n == Len(log[s])
<1>2. log \in [Symbol -> Seq(Row)] /\ state \in [Symbol -> States] /\ run \in Nat
  <2>1. log \in [Symbol -> Seq(Row)] /\ state \in [Symbol -> States]
    BY DEF TypeInv, TypeOK, Row
  <2>2. run \in Nat
    BY BoundsOK DEF TypeInv, TypeOK
  <2> QED BY <2>1, <2>2
<1>3. /\ n \in Nat /\ Len(log'[s]) = n + 1
      /\ \A i \in 1..n : log'[s][i] = log[s][i]
      /\ log'[s][n + 1] = r
  BY <1>1, <1>2, AppendRow
<1>4. r.from = state[s] /\ r.to = next /\ r.run = run
  OBVIOUS
<1>5. \A t \in Symbol : t # s => log'[t] = log[t] /\ state'[t] = state[t]
  BY <1>1, <1>2
<1>6. state'[s] = next /\ run' = run /\ todo' = todo \ {s} /\ s \in todo
  BY <1>1, <1>2 DEF Transition, Move
<1>7. \A i \in 1..n : Rank(log[s][i].to) < Rank(next)
  <2> SUFFICES ASSUME NEW i \in 1..n PROVE Rank(log[s][i].to) < Rank(next)
    OBVIOUS
  <2>1. n >= 1 /\ log[s] # <<>> /\ log[s][n].to = state[s]
    BY <1>2, <1>3 DEF LogInv, LogMatchesPointer
  <2>2. CASE i = n
    BY <1>1, <2>1, <2>2
  <2>3. CASE i < n
    <3>1. Rank(log[s][i].to) < Rank(log[s][n].to)
      BY <1>3, <2>1, <2>3 DEF LogInv, RanksRise
    <3>2. Rank(log[s][i].to) \in Int /\ Rank(state[s]) \in Int /\ Rank(next) \in Int
      BY DEF Rank
    <3> QED BY <1>1, <2>1, <3>1, <3>2
  <2> QED BY <1>3, <2>2, <2>3
<1> HIDE DEF r
<1>8. LogMatchesPointer'
  <2> SUFFICES ASSUME NEW t \in Symbol
               PROVE  /\ log'[t] = <<>> => state'[t] = "NONE"
                      /\ log'[t] # <<>> => /\ log'[t][1].from = "NONE"
                                           /\ log'[t][Len(log'[t])].to = state'[t]
                      /\ \A i \in 1..(Len(log'[t]) - 1) : log'[t][i].to = log'[t][i + 1].from
    BY DEF LogMatchesPointer
  <2>1. CASE t # s
    BY <1>5, <2>1 DEF LogInv, LogMatchesPointer
  <2>2. CASE t = s
    <3>1. log'[s] # <<>> /\ log'[s][Len(log'[s])].to = state'[s]
      BY <1>3, <1>4, <1>6
    <3>2. log'[s][1].from = "NONE"
      <4>1. CASE n = 0
        <5>1. log[s] = <<>>
          BY <1>2, <4>1
        <5>2. state[s] = "NONE"
          BY <5>1 DEF LogInv, LogMatchesPointer
        <5> QED BY <1>3, <1>4, <4>1, <5>2
      <4>2. CASE n # 0
        <5>1. log[s] # <<>> /\ 1 \in 1..n
          BY <1>2, <1>3, <4>2
        <5> QED BY <1>3, <5>1 DEF LogInv, LogMatchesPointer
      <4> QED BY <4>1, <4>2
    <3>3. ASSUME NEW i \in 1..(Len(log'[s]) - 1) PROVE log'[s][i].to = log'[s][i + 1].from
      <4>1. i \in 1..n /\ log[s] # <<>>
        BY <1>2, <1>3
      <4>2. CASE i = n
        BY <1>3, <1>4, <4>1, <4>2 DEF LogInv, LogMatchesPointer
      <4>3. CASE i < n
        <5>1. i \in 1..(n - 1) /\ i + 1 \in 1..n
          BY <1>3, <4>1, <4>3
        <5> QED BY <1>3, <4>1, <5>1 DEF LogInv, LogMatchesPointer
      <4> QED BY <1>3, <4>1, <4>2, <4>3
    <3> QED BY <2>2, <3>1, <3>2, <3>3
  <2> QED BY <2>1, <2>2
<1>9. RanksRise'
  <2> SUFFICES ASSUME NEW t \in Symbol,
                      NEW i \in 1..Len(log'[t]), NEW j \in 1..Len(log'[t]), i < j
               PROVE  Rank(log'[t][i].to) < Rank(log'[t][j].to)
    BY DEF RanksRise
  <2>1. CASE t # s
    BY <1>5, <2>1 DEF LogInv, RanksRise
  <2>2. CASE t = s /\ j = n + 1
    BY <1>3, <1>4, <1>7, <2>2
  <2>3. CASE t = s /\ j # n + 1
    BY <1>3, <2>3, SMTT(30) DEF LogInv, RanksRise
  <2> QED BY <2>1, <2>2, <2>3
<1>10. RunsOK' /\ OneStagePerRun'
  <2>1. ASSUME NEW t \in Symbol, NEW i \in 1..Len(log'[t])
        PROVE  log'[t][i].run <= run /\ (t \in todo' => log'[t][i].run < run)
    <3>1. CASE t # s
      BY <1>5, <1>6, <2>1, <3>1 DEF LogInv, RunsOK
    <3>2. CASE t = s /\ i = n + 1
      BY <1>2, <1>3, <1>4, <1>6, <3>2
    <3>3. CASE t = s /\ i # n + 1
      <4>1. i \in 1..n
        BY <1>3, <3>3
      <4> QED BY <1>3, <1>6, <3>3, <4>1 DEF LogInv, RunsOK
    <3> QED BY <3>1, <3>2, <3>3
  <2>2. ASSUME NEW t \in Symbol,
               NEW i \in 1..Len(log'[t]), NEW j \in 1..Len(log'[t]), i < j
        PROVE  log'[t][i].run < log'[t][j].run
    <3>1. CASE t # s
      BY <1>5, <2>2, <3>1 DEF LogInv, OneStagePerRun
    <3>2. CASE t = s /\ j = n + 1
      <4>1. i \in 1..n
        BY <1>3, <2>2, <3>2
      <4>2. log'[s][i] = log[s][i] /\ log'[s][n + 1].run = run
        BY <1>3, <1>4, <4>1
      <4>3. log[s][i].run < run
        BY <1>6, <4>1 DEF LogInv, RunsOK
      <4> QED BY <3>2, <4>2, <4>3
    <3>3. CASE t = s /\ j # n + 1
      <4>1. i \in 1..n /\ j \in 1..n
        BY <1>3, <2>2, <3>3
      <4>2. log'[s][i] = log[s][i] /\ log'[s][j] = log[s][j]
        BY <1>3, <4>1
      <4>3. log[s][i].run < log[s][j].run
        BY <2>2, <4>1 DEF LogInv, OneStagePerRun
      <4> QED BY <3>3, <4>2, <4>3
    <3> QED BY <3>1, <3>2, <3>3
  <2> QED BY <1>6, <2>1, <2>2 DEF RunsOK, OneStagePerRun
<1> QED BY <1>8, <1>9, <1>10 DEF LogInv

(* Every step preserves LogInv: only Transition writes rows, only BeginRun *)
(* refills todo, and it starts a new run.                                  *)
LEMMA NextLogInv == TypeInv /\ LogInv /\ [Next]_vars => LogInv'
<1> SUFFICES ASSUME TypeInv, LogInv, [Next]_vars PROVE LogInv'
  OBVIOUS
<1>1. CASE BeginRun
  <2>1. UNCHANGED <<state, log>> /\ run' = run + 1
    BY <1>1 DEF BeginRun
  <2>2. /\ run \in Int
        /\ \A s \in Symbol : \A i \in 1..Len(log[s]) : log[s][i].run \in Int
    <3>1. run \in Int
      BY BoundsOK DEF TypeInv, TypeOK
    <3>2. log \in [Symbol -> Seq(Row)]
      BY DEF TypeInv, TypeOK, Row
    <3>3. ASSUME NEW s \in Symbol, NEW i \in 1..Len(log[s]) PROVE log[s][i].run \in Int
      <4>1. log[s][i] \in Row
        BY <3>2
      <4> QED BY <4>1, BoundsOK DEF Row
    <3> QED BY <3>1, <3>3
  <2>3. RunsOK'
    BY <2>1, <2>2 DEF LogInv, RunsOK
  <2> QED BY <2>1, <2>3 DEF LogInv, LogMatchesPointer, RanksRise, OneStagePerRun
<1>2. ASSUME UNCHANGED <<state, log, run>>, todo' \subseteq todo PROVE LogInv'
  <2>1. RunsOK'
    BY <1>2 DEF LogInv, RunsOK
  <2> QED BY <1>2, <2>1 DEF LogInv, LogMatchesPointer, RanksRise, OneStagePerRun
<1>3. ASSUME RaiseAlert \/ RecordObservation \/ LaterStepFails \/ EndRun \/ Crash
      PROVE  LogInv'
  BY <1>2, <1>3 DEF RaiseAlert, RecordObservation, LaterStepFails, EndRun, Crash
<1>4. ASSUME NEW s \in Symbol, Reject(s) \/ EvaluateFails(s) PROVE LogInv'
  BY <1>2, <1>4 DEF Reject, EvaluateFails
<1>5. ASSUME NEW s \in Symbol, NEW score \in Score, Hold(s, score) PROVE LogInv'
  BY <1>2, <1>5 DEF Hold
<1>6. ASSUME NEW s \in Symbol, NEW score \in Score, Transition(s, score) PROVE LogInv'
  BY <1>6, TransitionLogInv
<1>7. CASE UNCHANGED vars
  BY <1>2, <1>7 DEF vars
<1> QED BY <1>1, <1>3, <1>4, <1>5, <1>6, <1>7 DEF Next, EvaluateOne

(* LogInv holds in every reachable state. *)
LEMMA LogInvHolds == Spec => []LogInv
BY InitLogInv, NextLogInv, TypeInvHolds, PTL DEF Spec

(* The log of every symbol is one chain that ends at the state pointer,    *)
(* after any crash or failure.                                             *)
THEOREM LogTheorem == Spec => []LogMatchesPointer
<1>1. LogInv => LogMatchesPointer
  BY DEF LogInv
<1> QED BY <1>1, LogInvHolds, PTL

(* A symbol moves at most one stage per run of the job. *)
THEOREM StageTheorem == Spec => []OneStagePerRun
<1>1. LogInv => OneStagePerRun
  BY DEF LogInv
<1> QED BY <1>1, LogInvHolds, PTL

(* A symbol enters every state at most once in its life. *)
THEOREM OnceTheorem == Spec => []NoStateTwice
<1>1. LogInv /\ TypeInv => NoStateTwice
  <2> SUFFICES ASSUME LogInv, TypeInv, NEW s \in Symbol,
                      NEW i \in 1..Len(log[s]), NEW j \in 1..Len(log[s]),
                      log[s][i].to = log[s][j].to
               PROVE  i = j
    BY DEF NoStateTwice
  <2>1. Len(log[s]) \in Nat
    BY DEF TypeInv, TypeOK
  <2>2. Rank(log[s][i].to) \in Int /\ Rank(log[s][j].to) \in Int
    BY DEF Rank
  <2>3. ~(i < j) /\ ~(j < i)
    BY <2>2 DEF LogInv, RanksRise
  <2> QED BY <2>1, <2>3
<1> QED BY <1>1, LogInvHolds, TypeInvHolds, PTL

-----------------------------------------------------------------------------
(* Alerts, observations and verdicts                                       *)

(* Between the commit and process() the last row is alert-worthy, and      *)
(* before the observation it has its alert.                                *)
StepsOK ==
  /\ pc \in {"alert", "observe"} =>
       /\ Len(log[cur]) \in 1..Len(log[cur])
       /\ log[cur][Len(log[cur])].to \in AlertWorthy
  /\ pc = "observe" => Len(log[cur]) \in alerted[cur]

AlertInv == AlertsHaveTransitions /\ StepsOK

(* Every step preserves AlertInv. *)
LEMMA NextAlertInv == TypeInv /\ AlertInv /\ [Next]_vars => AlertInv'
<1> SUFFICES ASSUME TypeInv, AlertInv, [Next]_vars PROVE AlertInv'
  OBVIOUS
<1>0. /\ log \in [Symbol -> Seq(Row)]
      /\ alerted \in [Symbol -> SUBSET Nat] /\ observed \in [Symbol -> SUBSET Nat]
  BY DEF TypeInv, TypeOK, Row
<1>1. ASSUME UNCHANGED <<log, alerted, observed>>,
             UNCHANGED <<pc, cur>> \/ pc' \in {"idle", "loop"}
      PROVE  AlertInv'
  BY <1>1 DEF AlertInv, AlertsHaveTransitions, StepsOK
<1>2. CASE RaiseAlert
  <2>1. cur \in Symbol
    BY <1>2 DEF RaiseAlert, TypeInv, JobOK
  <2>2. /\ alerted' = [alerted EXCEPT ![cur] = alerted[cur] \cup {Len(log[cur])}]
        /\ UNCHANGED <<log, observed, cur>> /\ pc = "alert" /\ pc' = "observe"
    BY <1>2 DEF RaiseAlert
  <2>3. AlertsHaveTransitions'
    BY <1>0, <2>1, <2>2 DEF AlertInv, AlertsHaveTransitions, StepsOK
  <2>4. StepsOK'
    BY <1>0, <2>1, <2>2 DEF AlertInv, StepsOK
  <2> QED BY <2>3, <2>4 DEF AlertInv
<1>3. CASE RecordObservation
  <2>1. cur \in Symbol
    BY <1>3 DEF RecordObservation, TypeInv, JobOK
  <2>2. /\ observed' = [observed EXCEPT ![cur] = observed[cur] \cup {Len(log[cur])}]
        /\ UNCHANGED <<log, alerted>> /\ pc = "observe" /\ pc' = "loop"
    BY <1>3 DEF RecordObservation
  <2> QED BY <1>0, <2>1, <2>2 DEF AlertInv, AlertsHaveTransitions, StepsOK
<1>4. ASSUME BeginRun \/ LaterStepFails \/ EndRun \/ Crash PROVE AlertInv'
  BY <1>1, <1>4 DEF BeginRun, LaterStepFails, EndRun, Crash
<1>5. ASSUME NEW s \in Symbol, Reject(s) \/ EvaluateFails(s) PROVE AlertInv'
  BY <1>1, <1>5 DEF Reject, EvaluateFails
<1>6. ASSUME NEW s \in Symbol, NEW score \in Score, Hold(s, score) PROVE AlertInv'
  BY <1>1, <1>6 DEF Hold
<1>7. ASSUME NEW s \in Symbol, NEW score \in Score, Transition(s, score) PROVE AlertInv'
  <2>1. PICK next \in MomentumState :
          /\ [from |-> state[s], to |-> next, run |-> run] \in Row
          /\ log' = [log EXCEPT ![s] =
                       Append(log[s], [from |-> state[s], to |-> next, run |-> run])]
          /\ \/ next \in AlertWorthy /\ pc' = "alert" /\ cur' = s
             \/ pc' = pc /\ cur' = cur
    BY <1>7, TransitionLemma
  <2> DEFINE r == [from |-> state[s], to |-> next, run |-> run]
             n == Len(log[s])
  <2>2. /\ n \in Nat /\ Len(log'[s]) = n + 1
        /\ \A i \in 1..n : log'[s][i] = log[s][i]
        /\ log'[s][n + 1] = r
    BY <1>0, <2>1, AppendRow
  <2>3. r.to = next
    OBVIOUS
  <2>4. \A t \in Symbol : t # s => log'[t] = log[t]
    BY <1>0, <2>1
  <2>5. UNCHANGED <<alerted, observed>> /\ pc = "loop"
    BY <1>7 DEF Transition, Move
  <2> HIDE DEF r
  <2>6. AlertsHaveTransitions'
    <3> SUFFICES ASSUME NEW t \in Symbol
                 PROVE  /\ observed[t] \subseteq alerted[t]
                        /\ \A i \in alerted[t] :
                             i \in 1..Len(log'[t]) /\ log'[t][i].to \in AlertWorthy
      BY <2>5 DEF AlertsHaveTransitions
    <3>1. /\ observed[t] \subseteq alerted[t]
          /\ \A i \in alerted[t] : i \in 1..Len(log[t]) /\ log[t][i].to \in AlertWorthy
      BY DEF AlertInv, AlertsHaveTransitions
    <3> QED BY <2>2, <2>4, <3>1
  <2>7. StepsOK'
    <3>1. CASE next \in AlertWorthy /\ pc' = "alert" /\ cur' = s
      BY <2>2, <2>3, <3>1 DEF StepsOK
    <3>2. CASE pc' = pc /\ cur' = cur
      BY <2>5, <3>2 DEF StepsOK
    <3> QED BY <2>1, <3>1, <3>2
  <2> QED BY <2>6, <2>7 DEF AlertInv
<1>8. CASE UNCHANGED vars
  BY <1>1, <1>8 DEF vars
<1> QED BY <1>2, <1>3, <1>4, <1>5, <1>6, <1>7, <1>8 DEF Next, EvaluateOne

(* Every alert and observation belongs to an alert-worthy row of the log,  *)
(* whichever later step failed or crashed.                                 *)
THEOREM AlertTheorem == Spec => []AlertsHaveTransitions
<1>1. Init => AlertInv
  BY DEF Init, AlertInv, AlertsHaveTransitions, StepsOK
<1>2. AlertInv => AlertsHaveTransitions
  BY DEF AlertInv
<1> QED BY <1>1, <1>2, NextAlertInv, TypeInvHolds, PTL DEF Spec
(* A symbol still to evaluate, and the one between its commit and its      *)
(* decision, have no verdict yet: only such symbols change state.          *)
UndecidedOK ==
  /\ pc = "idle" => \A s \in Symbol : verdict[s] = "NONE"
  /\ \A s \in todo : verdict[s] = "NONE"
  /\ pc \in {"alert", "observe"} => cur \notin todo /\ verdict[cur] = "NONE"

VerdictInv == VerdictReflectsState /\ UndecidedOK

(* Every step preserves VerdictInv. *)
LEMMA NextVerdictInv == TypeInv /\ VerdictInv /\ [Next]_vars => VerdictInv'
<1> SUFFICES ASSUME TypeInv, VerdictInv, [Next]_vars PROVE VerdictInv'
  OBVIOUS
<1>0. /\ state \in [Symbol -> States] /\ verdict \in [Symbol -> Verdict \cup {"NONE"}]
      /\ todo \subseteq Symbol
      /\ pc \in {"alert", "observe"} => cur \in Symbol
  BY DEF TypeInv, TypeOK, JobOK
<1>1. CASE BeginRun
  <2>1. UNCHANGED <<state, verdict>> /\ pc = "idle" /\ pc' = "loop" /\ todo' \subseteq Symbol
    BY <1>1 DEF BeginRun
  <2> QED BY <2>1 DEF VerdictInv, VerdictReflectsState, UndecidedOK
<1>2. CASE RaiseAlert
  BY <1>2 DEF RaiseAlert, VerdictInv, VerdictReflectsState, UndecidedOK
<1>3. CASE RecordObservation
  <2>1. /\ UNCHANGED <<state, todo>> /\ pc = "observe" /\ pc' = "loop"
        /\ verdict' = [verdict EXCEPT ![cur] = Decide(state[cur])]
    BY <1>3 DEF RecordObservation
  <2>2. VerdictReflectsState'
    BY <1>0, <2>1 DEF VerdictInv, VerdictReflectsState
  <2>3. UndecidedOK'
    BY <1>0, <2>1 DEF VerdictInv, UndecidedOK
  <2> QED BY <2>2, <2>3 DEF VerdictInv
<1>4. CASE LaterStepFails
  BY <1>4 DEF LaterStepFails, VerdictInv, VerdictReflectsState, UndecidedOK
<1>5. ASSUME EndRun \/ Crash PROVE VerdictInv'
  <2>1. /\ pc' = "idle" /\ todo' \in {todo, {}}
        /\ verdict' = [s \in Symbol |-> "NONE"]
    BY <1>5 DEF EndRun, Crash
  <2> QED BY <1>0, <2>1 DEF VerdictInv, VerdictReflectsState, UndecidedOK
<1>6. ASSUME NEW s \in Symbol, Reject(s) PROVE VerdictInv'
  <2>1. /\ UNCHANGED <<state, cur, pc>> /\ pc = "loop" /\ todo' = todo \ {s}
        /\ verdict' = [verdict EXCEPT ![s] = "UNSCORED"]
    BY <1>6 DEF Reject
  <2> QED BY <1>0, <2>1 DEF VerdictInv, VerdictReflectsState, UndecidedOK
<1>7. ASSUME NEW s \in Symbol, EvaluateFails(s) PROVE VerdictInv'
  BY <1>7 DEF EvaluateFails, VerdictInv, VerdictReflectsState, UndecidedOK
<1>8. ASSUME NEW s \in Symbol, NEW score \in Score, Hold(s, score) PROVE VerdictInv'
  <2>1. /\ UNCHANGED <<state, cur, pc>> /\ pc = "loop" /\ todo' = todo \ {s}
        /\ verdict' = [verdict EXCEPT ![s] = Decide(state[s])]
    BY <1>8 DEF Hold
  <2> QED BY <1>0, <2>1 DEF VerdictInv, VerdictReflectsState, UndecidedOK
<1>9. ASSUME NEW s \in Symbol, NEW score \in Score, Transition(s, score) PROVE VerdictInv'
  <2>1. PICK next \in MomentumState :
          /\ state' = [state EXCEPT ![s] = next]
          /\ \/ pc' = "alert" /\ cur' = s /\ verdict' = verdict
             \/ /\ pc' = pc /\ cur' = cur
                /\ verdict' = [verdict EXCEPT ![s] = Decide(next)]
    BY <1>9, TransitionLemma
  <2>2. pc = "loop" /\ s \in todo /\ todo' = todo \ {s} /\ verdict[s] = "NONE"
    BY <1>9 DEF Transition, Move, VerdictInv, UndecidedOK
  <2>3. VerdictReflectsState'
    BY <1>0, <2>1, <2>2 DEF VerdictInv, VerdictReflectsState
  <2>4. UndecidedOK'
    BY <1>0, <2>1, <2>2 DEF VerdictInv, UndecidedOK
  <2> QED BY <2>3, <2>4 DEF VerdictInv
<1>10. CASE UNCHANGED vars
  BY <1>10 DEF vars, VerdictInv, VerdictReflectsState, UndecidedOK
<1> QED
  BY <1>1, <1>2, <1>3, <1>4, <1>5, <1>6, <1>7, <1>8, <1>9, <1>10 DEF Next, EvaluateOne

(* Every verdict a run hands out is the one its symbol's standing state    *)
(* calls for, whichever other symbols failed on the way.                   *)
THEOREM VerdictTheorem == Spec => []VerdictReflectsState
<1>1. Init => VerdictInv
  BY DEF Init, VerdictInv, VerdictReflectsState, UndecidedOK
<1>2. VerdictInv => VerdictReflectsState
  BY DEF VerdictInv
<1> QED BY <1>1, <1>2, NextVerdictInv, TypeInvHolds, PTL DEF Spec
-----------------------------------------------------------------------------
(* The composite scores the job asks for (SignalFusion)                    *)

(* The regime is handed from the start of a run to all its evaluations. *)
RegimeInv == \A r \in results : r.parts.market_regime = ScoreMarketRegime(regime)

LEMMA NextRegimeInv == RegimeInv /\ [FusionNext]_fusionVars => RegimeInv'
<1> SUFFICES ASSUME RegimeInv, [FusionNext]_fusionVars PROVE RegimeInv'
  OBVIOUS
<1>1. ASSUME NEW s, NEW row, NEW injected, NEW fails, Evaluate(s, row, injected, fails)
      PROVE  RegimeInv'
  <2> DEFINE c == Components(s, RegimeOf(regime), row, injected, fails)
             new == [symbol |-> s, at |-> now, parts |-> c, overall |-> OverallScore(c),
                     confidence |-> Confidence(c), verdict |-> IF Scored(c) THEN "SCORED" ELSE "REJECT"]
  <2>1. results' = results \cup {new} /\ regime' = regime
    BY <1>1 DEF Evaluate
  <2>2. new.parts.market_regime = ScoreMarketRegime(regime)
    BY DEF Components, RegimeOf
  <2> HIDE DEF new
  <2> QED BY <2>1, <2>2 DEF RegimeInv, ScoreMarketRegime
<1>2. ASSUME NEW fails \in BOOLEAN, BeginJob(fails) PROVE RegimeInv'
  BY <1>2 DEF BeginJob, RegimeInv
<1>3. CASE EndJob
  BY <1>3 DEF EndJob, RegimeInv
<1>4. CASE UNCHANGED <<regime, results>>
  BY <1>4 DEF RegimeInv, ScoreMarketRegime
<1>5. ASSUME NEW s \in Instrument, NEW p \in Prices, StoreBar(s, p) PROVE RegimeInv'
  BY <1>4, <1>5 DEF StoreBar
<1>5s. ASSUME NEW s \in Stock, NEW v \in Vwaps, StoreSession(s, v) PROVE RegimeInv'
  BY <1>4, <1>5s DEF StoreSession
<1>6. ASSUME NEW s \in Instrument, NEW f \in Features, NEW r \in Readings, StoreFeatures(s, f, r)
      PROVE  RegimeInv'
  BY <1>4, <1>6 DEF StoreFeatures
<1>7. ASSUME NEW chain \in Chains, FetchChain(chain) PROVE RegimeInv'
  BY <1>4, <1>7 DEF FetchChain
<1>8. ASSUME NEW history \in Histories, FetchFutures(history) PROVE RegimeInv'
  BY <1>4, <1>8 DEF FetchFutures
<1>9. CASE Tick \/ CommitReadings \/ EngineFails \/ Restart \/ UNCHANGED fusionVars
  BY <1>4, <1>9 DEF Tick, CommitReadings, EngineFails, Restart, fusionVars
<1> QED BY <1>1, <1>2, <1>3, <1>5, <1>5s, <1>6, <1>7, <1>8, <1>9 DEF FusionNext

(* Bars and features stored while the job walks its symbols never give two *)
(* symbols of one run different market regimes.                            *)
THEOREM RegimeTheorem == FusionSpec => []OneRegimePerRun
<1>1. FusionInit => RegimeInv
  BY DEF FusionInit, RegimeInv
<1>2. RegimeInv => OneRegimePerRun
  BY DEF RegimeInv, OneRegimePerRun
<1> QED BY <1>1, <1>2, NextRegimeInv, PTL DEF FusionSpec

(* The cached records are the list of some earlier moment. *)
RecordsInv ==
  /\ now \in Nat
  /\ records # None => \E t \in 0..now : records = Listed(t)
  /\ ReadsNearestContract

(* NearestContract picks an open contract with the soonest expiry. *)
LEMMA NearestLemma ==
  ASSUME NEW S \in SUBSET Contracts, NEW t \in Nat,
         NearestContract(S, "FUT", t) # None
  PROVE  LET c == NearestContract(S, "FUT", t)
         IN  /\ c \in S /\ c.type = "FUT" /\ c.expiry >= t
             /\ \A d \in S : d.type = "FUT" /\ d.expiry >= t => c.expiry <= d.expiry
<1> DEFINE candidates == {c \in Open(S, t) : c.type = "FUT"}
<1>1. /\ candidates # {}
      /\ NearestContract(S, "FUT", t)
           = CHOOSE c \in candidates : \A d \in candidates : c.expiry <= d.expiry
  BY DEF NearestContract
<1>2. \E c \in candidates : \A d \in candidates : c.expiry <= d.expiry
  <2> DEFINE T == {c.expiry : c \in candidates}
  <2>1. T \in SUBSET Nat /\ T # {}
    BY <1>1, ContractsOK DEF Open
  <2>2. PICK x \in T : \A y \in T : x <= y
    <3> HIDE DEF T
    <3> QED BY <2>1, Least
  <2>3. PICK c \in candidates : c.expiry = x
    OBVIOUS
  <2> QED BY <2>2, <2>3
<1>3. /\ NearestContract(S, "FUT", t) \in candidates
      /\ \A d \in candidates : NearestContract(S, "FUT", t).expiry <= d.expiry
  <2> HIDE DEF candidates
  <2> QED BY <1>1, <1>2
<1> QED BY <1>3 DEF Open

(* A list may have grown since it was cached, but only by later contracts. *)
LEMMA CachedIsNearest ==
  ASSUME NEW t \in Nat, NEW u \in Nat, t <= u, NearestContract(Listed(t), "FUT", u) # None
  PROVE  \A c \in Open(Listed(u), u) :
           c.type = "FUT" => NearestContract(Listed(t), "FUT", u).expiry \in u..c.expiry
<1> DEFINE e == NearestContract(Listed(t), "FUT", u)
<1>1. /\ e \in Listed(t) /\ e.type = "FUT" /\ e.expiry >= u
      /\ \A d \in Listed(t) : d.type = "FUT" /\ d.expiry >= u => e.expiry <= d.expiry
  <2>1. Listed(t) \in SUBSET Contracts
    BY DEF Listed
  <2> QED BY <2>1, NearestLemma
<1> HIDE DEF e
<1> SUFFICES ASSUME NEW c \in Open(Listed(u), u), c.type = "FUT" PROVE e.expiry \in u..c.expiry
  BY DEF e
<1>2. /\ c \in Contracts /\ c.expiry >= u /\ c.expiry \in Nat /\ c.listed \in Nat
      /\ e \in Contracts /\ e.listed <= t /\ e.expiry \in Nat /\ e.listed \in Nat
  BY <1>1, ContractsOK DEF Open, Listed
<1>3. CASE c.listed <= t
  BY <1>1, <1>2, <1>3 DEF Listed
<1>4. CASE c.listed > t
  <2>1. e.listed < c.listed
    BY <1>2, <1>4
  <2>2. e.expiry <= c.expiry
    BY <1>1, <1>2, <2>1, ContractsOK
  <2> QED BY <1>1, <1>2, <2>2
<1> QED BY <1>2, <1>3, <1>4

LEMMA NextRecordsInv == RecordsInv /\ [FusionNext]_fusionVars => RecordsInv'
<1> SUFFICES ASSUME RecordsInv, [FusionNext]_fusionVars PROVE RecordsInv'
  OBVIOUS
<1>0. now \in Nat /\ ReadsNearestContract
  BY DEF RecordsInv
<1>1. PICK t \in 0..now : AllFnoRecords = Listed(t)
  BY DEF RecordsInv, AllFnoRecords
<1>2. CASE UNCHANGED <<now, records, engine>>
  BY <1>2 DEF RecordsInv, ReadsNearestContract
<1>3. CASE Tick
  <2>1. now' = now + 1 /\ UNCHANGED <<records, engine>>
    BY <1>3 DEF Tick, derivatives
  <2> QED BY <2>1 DEF RecordsInv, ReadsNearestContract
<1>4. ASSUME now' = now, records' \in {None, records, AllFnoRecords}, engine'.contract = None
      PROVE  RecordsInv'
  BY <1>0, <1>1, <1>4 DEF RecordsInv, ReadsNearestContract
<1>5. ASSUME NEW chain \in Chains, FetchChain(chain) PROVE RecordsInv'
  <2>1. now' = now /\ records' = AllFnoRecords /\ engine'.contract = None
    BY <1>5 DEF FetchChain, Idle
  <2> QED BY <1>4, <2>1
<1>6. ASSUME NEW history \in Histories, FetchFutures(history) PROVE RecordsInv'
  <2>1. now' = now /\ records' = AllFnoRecords
    BY <1>6 DEF FetchFutures
  <2>2. engine'.contract = NearestContract(Listed(t), "FUT", now) /\ engine'.asked = now
    BY <1>1, <1>6 DEF FetchFutures
  <2>3. ReadsNearestContract'
    BY <1>0, <2>2, CachedIsNearest DEF ReadsNearestContract
  <2> QED BY <1>0, <1>1, <2>1, <2>3 DEF RecordsInv
<1>7. CASE CommitReadings \/ EngineFails
  <2>1. UNCHANGED <<now, records>> /\ engine' = Idle
    BY <1>7 DEF CommitReadings, EngineFails
  <2> QED BY <1>4, <2>1 DEF Idle
<1>8. CASE Restart
  BY <1>0, <1>8 DEF Restart, RecordsInv, ReadsNearestContract
<1>9. ASSUME NEW s, NEW row, NEW injected, NEW fails, Evaluate(s, row, injected, fails)
      PROVE  RecordsInv'
  BY <1>2, <1>9 DEF Evaluate, derivatives
<1>10. ASSUME NEW fails \in BOOLEAN, BeginJob(fails) PROVE RecordsInv'
  BY <1>2, <1>10 DEF BeginJob, derivatives
<1>11. ASSUME NEW s \in Instrument, NEW p \in Prices, StoreBar(s, p) PROVE RecordsInv'
  BY <1>2, <1>11 DEF StoreBar, derivatives
<1>11s. ASSUME NEW s \in Stock, NEW v \in Vwaps, StoreSession(s, v) PROVE RecordsInv'
  BY <1>2, <1>11s DEF StoreSession, derivatives
<1>12. ASSUME NEW s \in Instrument, NEW f \in Features, NEW r \in Readings, StoreFeatures(s, f, r)
       PROVE  RecordsInv'
  BY <1>2, <1>12 DEF StoreFeatures, derivatives
<1>13. CASE EndJob \/ UNCHANGED fusionVars
  BY <1>2, <1>13 DEF EndJob, fusionVars, derivatives
<1> QED BY <1>3, <1>5, <1>6, <1>7, <1>8, <1>9, <1>10, <1>11, <1>11s,
           <1>12, <1>13 DEF FusionNext

(* However old the cached contract list is, the futures contract a run     *)
(* reads is the nearest of those the exchange lists by then.               *)
THEOREM ContractTheorem == FusionSpec => []ReadsNearestContract
<1>1. FusionInit => RecordsInv
  BY DEF FusionInit, RecordsInv, ReadsNearestContract, Idle
<1>2. RecordsInv => ReadsNearestContract
  BY DEF RecordsInv
<1> QED BY <1>1, <1>2, NextRecordsInv, PTL DEF FusionSpec
-----------------------------------------------------------------------------
(* What the evidence of a score is made of.                                *)

(* What is stored keeps the types StoresOK gives it at the start. *)
StoresInv ==
  /\ DOMAIN bar = Instrument /\ DOMAIN feats = Instrument /\ DOMAIN rrg = Instrument
  /\ \A s \in Instrument : BarRow(bar[s]) /\ FeatureRow(feats[s]) /\ ReadingRow(rrg[s])
(* A reading is stamped with a time that has passed, so that one of any      *)
(* futures readings is the newest.                                           *)
StampedOK(r) == {"type", "at"} \subseteq DOMAIN r /\ r.at \in 0..now
ReadingsOK == \A r \in oi \cup engine.readings : StampedOK(r)
(* A result is judged by what it was computed from; readings are only added. *)
BetweenOK(r) ==
  LET known == {r.parts[n] : n \in Known(r.parts)}
  IN  r.overall # None => r.overall \in Min(known)..Max(known)
NewsOK(r) ==
  r.parts.news # None =>
    \E a \in Articles : a.token = r.symbol /\ Parsed(a) /\ a.published >= r.at - StaleWindow
FuturesOK(r) == r.parts.oi # None => r.symbol = Underlying /\ \E q \in oi : q.type = "FUT"
EvidenceInv ==
  /\ now \in Nat /\ StoresInv /\ ReadingsOK
  /\ regime # None => regime.score \in Unknown
  /\ \A r \in results : BetweenOK(r) /\ NewsOK(r) /\ FuturesOK(r)

(* Parts of scores are whole numbers or None. *)
LEMMA TwoNumbers ==
  ASSUME NEW x \in Int, NEW y \in Int
  PROVE  /\ Min({x, y}) = IF x <= y THEN x ELSE y
         /\ Max({x, y}) = IF x >= y THEN x ELSE y
<1>1. \E m \in {x, y} : \A n \in {x, y} : m <= n
  OBVIOUS
<1>2. \E m \in {x, y} : \A n \in {x, y} : m >= n
  OBVIOUS
<1>3. Min({x, y}) \in {x, y} /\ \A n \in {x, y} : Min({x, y}) <= n
  BY <1>1 DEF Min
<1>4. Max({x, y}) \in {x, y} /\ \A n \in {x, y} : Max({x, y}) >= n
  BY <1>2 DEF Max
<1> QED BY <1>3, <1>4
LEMMA ClampedIsInt ==
  ASSUME NEW low \in Int, NEW x \in Int, NEW high \in Int, low <= high
  PROVE  Clamped(low, x, high) \in low..high
<1> DEFINE m == Min({x, high})
<1>1. m = IF x <= high THEN x ELSE high
  BY TwoNumbers
<1> HIDE DEF m
<1>2. Max({low, m}) = IF low >= m THEN low ELSE m
  BY <1>1, TwoNumbers
<1> QED BY <1>1, <1>2 DEF Clamped, m
LEMMA PctIsKnown ==
  ASSUME NEW n \in Int, NEW d \in Int PROVE Pct(n, d) \in Unknown
  BY DEF Pct, Unknown
LEMMA CountIsNat ==
  ASSUME NEW S \in SUBSET Instrument PROVE IsFiniteSet(S) /\ Cardinality(S) \in Nat
  BY StoresOK, FS_Subset, FS_CardinalityType

LEMMA BreadthLemma ==
  ASSUME StoresInv
  PROVE  LET b == Breadth(bar, feats)
         IN  /\ b.advance_decline \in Unknown /\ b.up_down_volume \in Unknown
             /\ b.new_highs_lows \in Unknown
             /\ DOMAIN b.ema = {"ema20", "ema50", "ema200"}
             /\ \A f \in DOMAIN b.ema : b.ema[f] \in Unknown
<1> DEFINE
       today == {s \in DOMAIN bar : bar[s].last # None}
       both  == {s \in today : bar[s].prior # None}
       up    == {s \in both : bar[s].last.close > bar[s].prior.close}
       down  == {s \in both : bar[s].last.close < bar[s].prior.close}
       highs == {s \in today : bar[s].last.high >= bar[s].high}
       lows  == {s \in today : bar[s].last.low <= bar[s].low}
       ud    == up \cup down
<1>1. today \in SUBSET Instrument /\ \A s \in today : bar[s].last.volume \in Int
  BY DEF StoresInv, BarRow
<1>2. /\ up \in SUBSET today /\ ud \in SUBSET today
      /\ highs \in SUBSET today /\ lows \in SUBSET today
  OBVIOUS
<1>3. Breadth(bar, feats) =
        [advance_decline |-> Pct(Cardinality(up), Cardinality(ud)),
         up_down_volume |-> Pct(Volume(bar, up), Volume(bar, ud)),
         ema |-> [f \in {"ema20", "ema50", "ema200"} |-> PctAboveEma(bar, feats, f)],
         new_highs_lows |->
           IF today = {} THEN None
           ELSE 50 + (50 * (Cardinality(highs) - Cardinality(lows))) \div Cardinality(today)]
  BY DEF Breadth
<1>4. ASSUME NEW f PROVE PctAboveEma(bar, feats, f) \in Unknown
  <2> DEFINE with == {s \in DOMAIN bar : bar[s].last # None /\ feats[s] # None /\ feats[s][f] # None}
             above == {s \in with : bar[s].last.close > feats[s][f]}
  <2>1. with \in SUBSET Instrument /\ above \in SUBSET Instrument
    BY DEF StoresInv
  <2>2. PctAboveEma(bar, feats, f) = Pct(Cardinality(above), Cardinality(with))
    BY DEF PctAboveEma
  <2> HIDE DEF with, above
  <2> QED BY <2>1, <2>2, CountIsNat, PctIsKnown
<1> HIDE DEF today, up, ud, highs, lows
<1>5. /\ Cardinality(up) \in Nat /\ Cardinality(ud) \in Nat
      /\ Cardinality(highs) \in Nat /\ Cardinality(lows) \in Nat /\ Cardinality(today) \in Nat
  BY <1>1, <1>2, CountIsNat
<1>6. ASSUME NEW S \in SUBSET today PROVE Volume(bar, S) \in Int
  <2> DEFINE v == [s \in S |-> bar[s].last.volume]
  <2>1. IsFiniteSet(S) /\ \A s \in S : v[s] \in Int
    BY <1>1, CountIsNat
  <2> HIDE DEF v
  <2>2. Total(S, v) \in Int
    BY <2>1, TotalIsInt
  <2> QED BY <2>2 DEF Volume, v
<1>7. Pct(Cardinality(up), Cardinality(ud)) \in Unknown
  BY <1>5, PctIsKnown
<1>8. Pct(Volume(bar, up), Volume(bar, ud)) \in Unknown
  BY <1>2, <1>6, PctIsKnown
<1>9. today # {} =>
        50 + (50 * (Cardinality(highs) - Cardinality(lows))) \div Cardinality(today) \in Int
  <2>1. today # {} => Cardinality(today) # 0
    BY <1>1, CountIsNat, FS_EmptySet
  <2> DEFINE h == Cardinality(highs)
             l == Cardinality(lows)
             n == Cardinality(today)
  <2>2. h \in Nat /\ l \in Nat /\ n \in Nat
    BY <1>5
  <2> HIDE DEF h, l, n
  <2>3. n # 0 => 50 + (50 * (h - l)) \div n \in Int
    BY <2>2
  <2> QED BY <2>1, <2>3 DEF h, l, n
<1> QED BY <1>3, <1>4, <1>7, <1>8, <1>9 DEF Unknown

(* The regime's score is known or None, however the bars and features fell. *)
LEMMA RegimeLemma ==
  ASSUME StoresInv PROVE CurrentRegime.score \in Unknown
<1> DEFINE P == RegimeParts(bar, rrg, feats, Sectors, Benchmark)
           names == <<"advance_decline", "up_down_volume", "pct_above_ma", "new_highs_lows",
                      "index_trend", "volatility", "sector_participation">>
           b == Breadth(bar, feats)
           evidence == SectorRotation(bar, rrg, feats, Sectors, Benchmark)
<1>1. /\ DOMAIN P = {names[i] : i \in 1..7} /\ DOMAIN names = 1..7
      /\ DOMAIN RegimeWeight = {names[i] : i \in 1..7}
  BY DEF RegimeParts, RegimeWeight
<1>2. IsFiniteSet(DOMAIN P)
  <2> DEFINE n == 7
  <2>1. n \in Nat /\ DOMAIN names = 1..n /\ DOMAIN P = {names[i] : i \in 1..n}
    BY <1>1
  <2> HIDE DEF P, names, n
  <2> QED BY <2>1, ListedIsFinite
<1>3. /\ b.advance_decline \in Unknown /\ b.up_down_volume \in Unknown /\ b.new_highs_lows \in Unknown
      /\ DOMAIN b.ema = {"ema20", "ema50", "ema200"} /\ \A f \in DOMAIN b.ema : b.ema[f] \in Unknown
  BY BreadthLemma
<1> DEFINE index == IF Benchmark \in DOMAIN feats THEN feats[Benchmark] ELSE None
<1>4. /\ P.advance_decline = b.advance_decline /\ P.up_down_volume = b.up_down_volume
      /\ P.pct_above_ma = AverageMaPct(b.ema) /\ P.new_highs_lows = b.new_highs_lows
      /\ P.index_trend =
           IF index = None THEN None ELSE IndexTrendScore(index.trend_direction, index.trend_strength)
      /\ P.volatility = IF index = None THEN None ELSE VolatilityScore(index.width_z)
      /\ P.sector_participation = SectorParticipation(evidence)
  BY DEF RegimeParts
<1>5. index # None =>
        /\ index.trend_direction \in {"up", "sideways", "down", None}
        /\ index.trend_strength \in Unknown /\ index.width_z \in Unknown
  BY DEF StoresInv, FeatureRow
<1> HIDE DEF b, index, P
<1>6. AverageMaPct(b.ema) \in Unknown
  <2> DEFINE e == b.ema
             K == Known(e)
             names3 == <<"ema20", "ema50", "ema200">>
             n == 3
  <2>1. n \in Nat /\ DOMAIN names3 = 1..n /\ DOMAIN e = {names3[i] : i \in 1..n}
    BY <1>3
  <2>2. IsFiniteSet(DOMAIN e)
    <3> HIDE DEF e, names3, n
    <3> QED BY <2>1, ListedIsFinite
  <2>3. IsFiniteSet(K) /\ \A f \in K : e[f] \in Int
    BY <1>3, <2>2, FS_Subset DEF Known, Unknown
  <2>4. AverageMaPct(e) = IF K = {} THEN None ELSE Total(K, e) \div Cardinality(K)
    BY DEF AverageMaPct
  <2> HIDE DEF e, K
  <2>5. Total(K, e) \in Int /\ Cardinality(K) \in Nat /\ (K # {} => Cardinality(K) # 0)
    BY <2>3, TotalIsInt, FS_CardinalityType, FS_EmptySet
  <2>6. AverageMaPct(e) \in Unknown
    BY <2>4, <2>5 DEF Unknown
  <2> QED BY <2>6 DEF e
<1>7. P.index_trend \in Unknown
  <2>1. ASSUME NEW v \in Unknown PROVE v # None => Percent(v) \in Int
    <3> DEFINE low == 0
               high == 100
    <3>1. v # None => v \in Int /\ low \in Int /\ high \in Int /\ low <= high
      BY <2>1 DEF Unknown
    <3>2. v # None => Percent(v) = Clamped(low, v, high)
      BY DEF Percent
    <3> HIDE DEF low, high
    <3> QED BY <3>1, <3>2, ClampedIsInt
  <2>2. ASSUME NEW d \in {"up", "sideways", "down", None}, NEW v \in Unknown
        PROVE  IndexTrendScore(d, v) \in Unknown
    BY <2>1, <2>2 DEF IndexTrendScore, Unknown
  <2> QED BY <1>4, <1>5, <2>2 DEF Unknown
<1>8. P.volatility \in Unknown
  <2>1. ASSUME NEW z \in Unknown PROVE VolatilityScore(z) \in Unknown
    <3>1. CASE z = None
      BY <3>1 DEF VolatilityScore, Unknown
    <3>2. CASE z # None
      <4> DEFINE low == -3
                 high == 3
                 y == -z
                 k == Clamped(low, y, high)
                 table == <<0, 2, 16, 50, 84, 98, 100>>
      <4>1. y \in Int /\ low \in Int /\ high \in Int /\ low <= high
        BY <2>1, <3>2 DEF Unknown
      <4>2. k \in low..high
        <5> HIDE DEF low, high, y
        <5> QED BY <4>1, ClampedIsInt
      <4>3. y = None \/ ToProbability(y) = table[k + 4]
        BY <4>2 DEF ToProbability
      <4>4. k + 4 \in 1..7
        BY <4>2
      <4> HIDE DEF k, y
      <4>5. table[k + 4] \in Int
        BY <4>4
      <4>6. ToProbability(y) \in Unknown
        BY <4>3, <4>5 DEF ToProbability, Unknown
      <4> QED BY <3>2, <4>6 DEF VolatilityScore, y
    <3> QED BY <3>1, <3>2
  <2> QED BY <1>4, <1>5, <2>1 DEF Unknown
<1>9. P.sector_participation \in Unknown
  <2> DEFINE e == [s \in Sectors |-> SectorEvidence(bar, rrg, feats, s, Benchmark)]
             strong == {x \in evidence : x.state \in {"LEADING", "STRENGTHENING"}}
  <2>1. IsFiniteSet(Sectors)
    BY CountIsNat DEF Instrument
  <2>2. IsFiniteSet({e[s] : s \in Sectors})
    <3> HIDE DEF e
    <3> QED BY <2>1, ImageIsFinite
  <2>3. evidence \in SUBSET {e[s] : s \in Sectors} /\ strong \in SUBSET {e[s] : s \in Sectors}
    BY DEF SectorRotation
  <2>4. Cardinality(strong) \in Int /\ Cardinality(evidence) \in Int
    <3> HIDE DEF e, strong, evidence
    <3> QED BY <2>2, <2>3, FS_Subset, FS_CardinalityType
  <2>5. P.sector_participation = Pct(Cardinality(strong), Cardinality(evidence))
    BY <1>4 DEF SectorParticipation
  <2> HIDE DEF strong, evidence
  <2> QED BY <2>4, <2>5, PctIsKnown
<1>10. \A p \in DOMAIN P : P[p] \in Unknown
  BY <1>1, <1>3, <1>4, <1>6, <1>7, <1>8, <1>9
<1>11. \A p \in DOMAIN P : RegimeWeight[p] \in Nat
  BY <1>1 DEF RegimeWeight
<1>12. Mean(P, RegimeWeight) \in Unknown
  BY <1>2, <1>10, <1>11, MeanIsInt DEF Unknown
<1> QED BY <1>12 DEF CurrentRegime, MarketRegime, P

(* A news score comes from an article about the symbol inside the window. *)
LEMMA NewsLemma ==
  ASSUME now \in Nat, NEW s, NEW fails, ScoreNews(GetNews(Articles, s, fails), now) # None
  PROVE  /\ ScoreNews(GetNews(Articles, s, fails), now) \in Int
         /\ \E a \in Articles : a.token = s /\ Parsed(a) /\ a.published >= now - StaleWindow
<1> DEFINE
       news == GetNews(Articles, s, fails)
       active == {a \in news : Normalize(a, now).freshness # "STALE"}
       weight == [a \in active |-> MaterialityWeight[Normalize(a, now).materiality]]
       value  == [a \in active |-> SentimentValue[Normalize(a, now).sentiment]]
<1>1. /\ active # {}
      /\ ScoreNews(news, now) = 50 + (50 * WeightedSum(active, value, weight)) \div Total(active, weight)
  BY DEF ScoreNews
<1>2. \A a \in news : a \in Articles /\ a.token = s /\ Parsed(a) /\ a.published \in Int
  BY ArticlesOK DEF GetNews, Matched, Parsed, Unknown
<1>3. \A a \in active : weight[a] \in Nat \ {0} /\ value[a] \in -1..1
  <2>1. \A a \in active : ScoreMateriality(ClassifyEventType(a)) \in {"HIGH", "MEDIUM", "LOW"}
    BY DEF ScoreMateriality
  <2>2. \A a \in active : ClassifySentiment(a) \in {"POSITIVE", "NEGATIVE", "NEUTRAL"}
    BY DEF ClassifySentiment
  <2>3. \A a \in active : Normalize(a, now).materiality \in {"HIGH", "MEDIUM", "LOW"}
                          /\ Normalize(a, now).sentiment \in {"POSITIVE", "NEGATIVE", "NEUTRAL"}
    BY <2>1, <2>2 DEF Normalize
  <2> HIDE DEF active
  <2> QED BY <2>3 DEF MaterialityWeight, SentimentValue
<1>4. IsFiniteSet(active)
  <2>1. active \in SUBSET Articles
    BY <1>2
  <2> QED BY <2>1, ArticlesOK, FS_Subset
<1>5. \A a \in active : a.published >= now - StaleWindow
  <2> SUFFICES ASSUME NEW a \in active PROVE a.published >= now - StaleWindow
    OBVIOUS
  <2> DEFINE age == Max({0, now - a.published})
             zero == 0
             since == now - a.published
  <2>1. a.published \in Int /\ zero \in Int /\ since \in Int
    BY <1>2
  <2>2. ClassifyFreshness(a.published, now) # "STALE"
    BY DEF Normalize
  <2>3. age = IF 0 >= since THEN 0 ELSE since
    <3>1. Max({zero, since}) = IF zero >= since THEN zero ELSE since
      <4> HIDE DEF zero, since
      <4> QED BY <2>1, TwoNumbers
    <3> QED BY <3>1
  <2>4. age = 0 \/ age <= StaleWindow
    BY <2>2 DEF ClassifyFreshness
  <2> HIDE DEF age
  <2> QED BY <2>1, <2>3, <2>4 DEF StaleWindow
<1> HIDE DEF active, weight, value
<1>6. Total(active, weight) \in Nat \ {0}
  BY <1>1, <1>3, <1>4, TotalIsPositive
<1>7. WeightedSum(active, value, weight) \in Int
  <2> DEFINE low == -1
             high == 1
  <2>1. low \in Int /\ high \in Int /\ \A a \in active : value[a] \in low..high /\ weight[a] \in Nat
    BY <1>3
  <2> HIDE DEF low, high
  <2> QED BY <1>4, <2>1, WeightedSums
<1>8. ScoreNews(news, now) \in Int
  BY <1>1, <1>6, <1>7
<1>9. PICK a \in active : TRUE
  BY <1>1
<1>10. a \in news
  BY DEF active
<1> QED BY <1>2, <1>5, <1>8, <1>10

(* Every component is known or None. *)
LEMMA ComponentsLemma ==
  ASSUME now \in Nat, StoresInv, regime # None => regime.score \in Unknown,
         NEW s \in Stock, NEW row, NEW injected, NEW fails
  PROVE  LET c == Components(s, regime, row, injected, fails)
         IN  \A n \in DOMAIN c : c[n] \in Unknown
<1>1. s \in Instrument /\ BarRow(bar[s]) /\ FeatureRow(feats[s]) /\ ReadingRow(rrg[s])
      /\ DOMAIN bar = Instrument
  BY DEF StoresInv, Instrument
<1>2. ScoreTechnical(s) \in Unknown
  <2>1. CASE feats[s] = None \/ bar[s].last = None
    BY <2>1 DEF ScoreTechnical, Unknown
  <2>2. CASE feats[s] # None /\ bar[s].last # None
    <3>1. feats[s].trend_direction \in Direction
      BY <1>1, <2>2 DEF FeatureRow, Direction
    <3>2. TechnicalScore(TechnicalFactors(bar[s].last.close, feats[s], vwap[s])) \in FullScore
      BY <3>1, TechnicalLemma
    <3>3. FullScore \subseteq Unknown
      BY DEF FullScore, Unknown
    <3> QED BY <2>2, <3>2, <3>3 DEF ScoreTechnical
  <2> QED BY <2>1, <2>2
<1>3. ScoreRelativeVolume(s) \in Unknown
  <2>1. CASE feats[s] = None \/ feats[s].relative_volume = None
    BY <2>1 DEF ScoreRelativeVolume, Unknown
  <2>2. CASE feats[s] # None /\ feats[s].relative_volume # None
    <3> DEFINE v == 5 * feats[s].relative_volume
               full == 100
               m == Min({v, full})
    <3>1. v \in Int /\ full \in Int
      BY <1>1, <2>2 DEF FeatureRow, Unknown
    <3>2. m \in Int
      <4> HIDE DEF v, full
      <4> QED BY <3>1, TwoNumbers
    <3>3. ScoreRelativeVolume(s) = 100 * m
      BY <2>2 DEF ScoreRelativeVolume
    <3> HIDE DEF m
    <3> QED BY <3>2, <3>3 DEF Unknown
  <2> QED BY <2>1, <2>2
<1>4. ScoreOi(row) \in Unknown
  BY DEF ScoreOi, Unknown
<1>5. ScoreSectorRrg(s) \in Unknown
  <2> DEFINE point == RrgPoint(bar, rrg, s, Benchmark)
  <2>1. CASE ClassifyQuadrant(point) = None
    BY <2>1 DEF ScoreSectorRrg, Unknown
  <2>2. CASE ClassifyQuadrant(point) # None
    <3>1. point # None /\ point.ratio # None /\ point.momentum # None
      BY <2>2 DEF ClassifyQuadrant
    <3>2. point = rrg[s]
      BY <3>1 DEF RrgPoint
    <3> HIDE DEF point
    <3>3. point.ratio \in Int /\ point.momentum \in Int
      BY <1>1, <3>1, <3>2 DEF ReadingRow, Unknown
    <3> DEFINE low == 0
               v == 50 + 10 * (point.ratio + point.momentum)
               high == 100
               k == Clamped(low, v, high)
    <3>4. low \in Int /\ v \in Int /\ high \in Int /\ low <= high
      BY <3>3
    <3>5. k \in Int
      <4>1. k \in low..high
        <5> HIDE DEF low, v, high
        <5> QED BY <3>4, ClampedIsInt
      <4> HIDE DEF k, v
      <4> QED BY <4>1
    <3>6. ScoreSectorRrg(s) = 100 * k
      BY <2>2 DEF ScoreSectorRrg, point
    <3> HIDE DEF k
    <3> QED BY <3>5, <3>6 DEF Unknown
  <2> QED BY <2>1, <2>2
<1>6. ScoreMarketRegime(regime) \in Unknown
  BY DEF ScoreMarketRegime, Unknown
<1>7. ScoreCatalysts(s, injected, fails) \in Unknown
  <2> DEFINE score == ScoreNews(GetNews(Articles, s, fails), now)
  <2>1. score = None \/ score \in Int
    BY NewsLemma
  <2>2. ScoreCatalysts(s, injected, fails) = IF ~injected \/ score = None THEN None ELSE 100 * score
    BY DEF ScoreCatalysts
  <2> HIDE DEF score
  <2> QED BY <2>1, <2>2 DEF Unknown
<1>8. ScoreFundamentals(s) \in Unknown
  <2>1. ScoreFundamentals(s) = None \/ ScoreFundamentals(s) \in FullScore
    BY FundamentalLemma DEF ScoreFundamentals
  <2>2. FullScore \subseteq Unknown /\ None \in Unknown
    BY DEF FullScore, Unknown
  <2> QED BY <2>1, <2>2
<1> DEFINE c == Components(s, regime, row, injected, fails)
<1>9. /\ DOMAIN c = {"technical", "volume", "oi", "sector_rrg", "market_regime", "news", "fundamentals"}
      /\ c.technical = ScoreTechnical(s) /\ c.volume = ScoreRelativeVolume(s) /\ c.oi = ScoreOi(row)
      /\ c.sector_rrg = ScoreSectorRrg(s) /\ c.market_regime = ScoreMarketRegime(regime)
      /\ c.news = ScoreCatalysts(s, injected, fails) /\ c.fundamentals = ScoreFundamentals(s)
  BY DEF Components
<1> HIDE DEF c
<1>10. \A n \in DOMAIN c : c[n] \in Unknown
  BY <1>2, <1>3, <1>4, <1>5, <1>6, <1>7, <1>8, <1>9
<1> QED BY <1>10 DEF c

(* A result is made of evidence. *)
LEMMA EvaluateLemma ==
  ASSUME EvidenceInv, NEW s \in Stock, NEW row, NEW injected, NEW fails,
         Evaluate(s, row, injected, fails)
  PROVE  EvidenceInv'
<1> DEFINE c == Components(s, regime, row, injected, fails)
           new == [symbol |-> s, at |-> now, parts |-> c, overall |-> OverallScore(c),
                   confidence |-> Confidence(c), verdict |-> IF Scored(c) THEN "SCORED" ELSE "REJECT"]
<1>1. /\ results' = results \cup {new}
      /\ row \in IF s = Underlying THEN FuturesSeen(oi, ReadBack) ELSE {None}
      /\ UNCHANGED <<now, bar, feats, rrg, engine, oi, regime>>
  BY DEF Evaluate, RegimeOf, stores, derivatives
<1>2. /\ DOMAIN c = {"technical", "volume", "oi", "sector_rrg", "market_regime", "news", "fundamentals"}
      /\ c.oi = ScoreOi(row) /\ c.news = ScoreCatalysts(s, injected, fails)
  BY DEF Components
<1>3. \A n \in DOMAIN c : c[n] \in Unknown
  BY ComponentsLemma DEF EvidenceInv
<1>4. new.symbol = s /\ new.at = now /\ new.parts = c /\ new.overall = OverallScore(c)
  OBVIOUS
<1> HIDE DEF c, new
<1>5. BetweenOK(new)
  <2>1. CASE Known(c) = {}
    BY <1>4, <2>1 DEF BetweenOK, OverallScore
  <2>2. CASE Known(c) # {}
    <3> DEFINE names == <<"technical", "volume", "oi", "sector_rrg", "market_regime", "news",
                          "fundamentals">>
               k == 7
               V == {c[n] : n \in Known(c)}
    <3>1. k \in Nat /\ DOMAIN names = 1..k /\ DOMAIN c = {names[i] : i \in 1..k}
      BY <1>2
    <3>2. IsFiniteSet(DOMAIN c)
      <4> HIDE DEF names, k
      <4> QED BY <3>1, ListedIsFinite
    <3>3. \A n \in DOMAIN c : Weight[n] \in Nat \ {0}
      BY <1>2 DEF Weight
    <3>4. \A n \in DOMAIN c : c[n] = None \/ c[n] \in Int
      BY <1>3 DEF Unknown
    <3>5. Rounded(WeightedSum(Known(c), c, Weight), Total(Known(c), Weight)) \in Min(V)..Max(V)
      BY <2>2, <3>2, <3>3, <3>4, MeanOfKnown
    <3>6. OverallScore(c) = Rounded(WeightedSum(Known(c), c, Weight), Total(Known(c), Weight))
      BY <2>2 DEF OverallScore
    <3> QED BY <1>4, <3>5, <3>6 DEF BetweenOK
  <2> QED BY <2>1, <2>2
<1>6. NewsOK(new)
  <2> SUFFICES ASSUME c.news # None
               PROVE  \E a \in Articles : a.token = s /\ Parsed(a) /\ a.published >= now - StaleWindow
    BY <1>4 DEF NewsOK
  <2>1. ScoreNews(GetNews(Articles, s, fails), now) # None
    BY <1>2 DEF ScoreCatalysts
  <2> QED BY <2>1, NewsLemma DEF EvidenceInv
<1>7. FuturesOK(new)
  <2> SUFFICES ASSUME c.oi # None PROVE s = Underlying /\ \E q \in oi : q.type = "FUT"
    BY <1>4 DEF FuturesOK
  <2>1. row # None
    BY <1>2 DEF ScoreOi
  <2>2. s = Underlying /\ row \in FuturesSeen(oi, ReadBack)
    BY <1>1, <2>1
  <2>3. PICK S \in NewestRows(oi, ReadBack) :
          row \in IF NewestFutures(S) = {} THEN {None} ELSE NewestFutures(S)
    BY <2>2 DEF FuturesSeen
  <2>4. row \in NewestFutures(S)
    BY <2>1, <2>3
  <2>5. S \subseteq oi
    <3>1. NewestRows(oi, ReadBack) \subseteq {oi} \cup kSubset(ReadBack, oi)
      BY DEF NewestRows
    <3>2. kSubset(ReadBack, oi) \subseteq SUBSET oi
      BY DEF kSubset
    <3> QED BY <3>1, <3>2
  <2> QED BY <2>2, <2>4, <2>5 DEF NewestFutures
<1>8. \A r \in results' : BetweenOK(r) /\ NewsOK(r) /\ FuturesOK(r)
  BY <1>1, <1>5, <1>6, <1>7 DEF EvidenceInv
<1>9. \A r \in results' : FuturesOK(r)'
  BY <1>1, <1>8 DEF FuturesOK
<1> QED BY <1>1, <1>8, <1>9 DEF EvidenceInv, StoresInv, ReadingsOK, StampedOK

(* What the engine stores carries a time that has passed. *)
LEMMA StampsLemma ==
  ASSUME now \in Nat
  PROVE  /\ \A chain, expiry : \A r \in ReadingsFromChain(chain, expiry, now) : StampedOK(r)
         /\ \A bars, contract :
              bars # << >> => StampedOK(ReadingFromBars(bars, contract, StartOfDay(now)))
<1>1. ASSUME NEW chain, NEW expiry, NEW r \in ReadingsFromChain(chain, expiry, now)
      PROVE  StampedOK(r)
  <2>1. \E row \in chain : \E leg \in ParsedLegs(row) :
          r = [type |-> leg.type, strike |-> row.strike, expiry |-> expiry, at |-> now,
               class |-> Classify(leg.price - leg.close, leg.oi - leg.prev_oi),
               oi_change_pct |-> PercentChange(leg.oi, leg.prev_oi)]
    BY <1>1 DEF ReadingsFromChain
  <2> QED BY <2>1 DEF StampedOK
<1>2. StartOfDay(now) \in 0..now
  BY DEF StartOfDay, Day
<1>3. ASSUME NEW bars, NEW contract, bars # << >>
      PROVE  StampedOK(ReadingFromBars(bars, contract, StartOfDay(now)))
  <2> DEFINE r == ReadingFromBars(bars, contract, StartOfDay(now))
  <2>1. {"type", "at"} \subseteq DOMAIN r /\ r.at = StartOfDay(now)
    BY <1>3 DEF ReadingFromBars
  <2> HIDE DEF r
  <2>2. StampedOK(r)
    BY <1>2, <2>1 DEF StampedOK
  <2> QED BY <2>2 DEF r
<1> QED BY <1>1, <1>3

LEMMA NextEvidenceInv == EvidenceInv /\ [FusionNext]_fusionVars => EvidenceInv'
<1> SUFFICES ASSUME EvidenceInv, [FusionNext]_fusionVars PROVE EvidenceInv'
  OBVIOUS
<1>0. /\ now \in Nat /\ StoresInv /\ ReadingsOK
      /\ regime # None => regime.score \in Unknown
      /\ \A r \in results : BetweenOK(r) /\ NewsOK(r) /\ FuturesOK(r)
  BY DEF EvidenceInv
\* What an action leaves alone keeps its part.
<1>a. ASSUME UNCHANGED <<bar, feats, rrg>> PROVE StoresInv'
  BY <1>0, <1>a DEF StoresInv
<1>b. ASSUME UNCHANGED <<now, engine, oi>> PROVE now' \in Nat /\ ReadingsOK'
  BY <1>0, <1>b DEF ReadingsOK, StampedOK
<1>c. ASSUME UNCHANGED <<regime, results>>, oi \subseteq oi'
      PROVE  /\ regime' # None => regime'.score \in Unknown
             /\ \A r \in results' : BetweenOK(r) /\ NewsOK(r) /\ FuturesOK(r)'
  <2>1. \A r \in results : FuturesOK(r)'
    BY <1>0, <1>c DEF FuturesOK
  <2> QED BY <1>0, <1>c, <2>1
<1>1. CASE Tick
  <2>1. now' = now + 1 /\ UNCHANGED <<bar, feats, rrg, engine, oi, regime, results>>
    BY <1>1 DEF Tick, stores, derivatives
  <2>2. now' \in Nat /\ ReadingsOK'
    BY <1>0, <2>1 DEF ReadingsOK, StampedOK
  <2> QED BY <1>a, <1>c, <2>1, <2>2 DEF EvidenceInv
<1>2. ASSUME NEW s \in Instrument, NEW p \in Prices, StoreBar(s, p) PROVE EvidenceInv'
  <2> DEFINE new == [date |-> Day(now), close |-> p.close, high |-> p.high, low |-> p.low,
                     volume |-> p.volume]
             b == Merged(Ranked(bar[s], new), Extremes(bar[s], new))
  <2>1. bar' = [bar EXCEPT ![s] = b]
        /\ UNCHANGED <<now, feats, rrg, engine, oi, regime, results>>
    BY <1>2 DEF StoreBar, derivatives
  <2>2. b.last = new
    BY DEF Merged, Ranked, Extremes
  <2>3. BarRow(b)
    <3>1. new.volume \in Int
      BY StoresOK
    <3> HIDE DEF b, new
    <3> QED BY <2>2, <3>1 DEF BarRow
  <2> HIDE DEF b
  <2>4. StoresInv'
    BY <1>0, <2>1, <2>3 DEF StoresInv
  <2> QED BY <1>b, <1>c, <2>1, <2>4 DEF EvidenceInv
<1>2s. ASSUME NEW s \in Stock, NEW v \in Vwaps, StoreSession(s, v) PROVE EvidenceInv'
  <2>1. UNCHANGED <<now, bar, feats, rrg, engine, oi, regime, results>>
    BY <1>2s DEF StoreSession, derivatives
  <2>2. StoresInv'
    BY <1>0, <2>1 DEF StoresInv
  <2> QED BY <1>b, <1>c, <2>1, <2>2 DEF EvidenceInv
<1>3. ASSUME NEW s \in Instrument, NEW f \in Features, NEW r \in Readings, StoreFeatures(s, f, r)
      PROVE  EvidenceInv'
  <2>1. /\ feats' = [feats EXCEPT ![s] = f] /\ rrg' = [rrg EXCEPT ![s] = r]
        /\ UNCHANGED <<now, bar, engine, oi, regime, results>>
    BY <1>3 DEF StoreFeatures, derivatives
  <2>2. FeatureRow(f) /\ ReadingRow(r)
    BY StoresOK
  <2>3. StoresInv'
    BY <1>0, <2>1, <2>2 DEF StoresInv
  <2> QED BY <1>b, <1>c, <2>1, <2>3 DEF EvidenceInv
\* Steps of the open-interest engine.
<1>4. ASSUME UNCHANGED <<now, bar, feats, rrg, regime, results>>, oi \subseteq oi',
             \A r \in oi' \cup engine'.readings : StampedOK(r)
      PROVE  EvidenceInv'
  <2>1. now' \in Nat /\ ReadingsOK'
    BY <1>0, <1>4 DEF ReadingsOK, StampedOK
  <2> QED BY <1>a, <1>c, <1>4, <2>1 DEF EvidenceInv
<1>5. ASSUME NEW chain \in Chains, FetchChain(chain) PROVE EvidenceInv'
  <2> DEFINE expiry == NearestExpiry(AllFnoRecords, now)
  <2>1. /\ UNCHANGED <<now, bar, feats, rrg, oi, regime, results>>
        /\ engine'.readings = IF expiry = None THEN {} ELSE ReadingsFromChain(chain, expiry, now)
    BY <1>5 DEF FetchChain, Idle, stores
  <2> HIDE DEF expiry
  <2>2. \A r \in oi' \cup engine'.readings : StampedOK(r)
    BY <1>0, <2>1, StampsLemma DEF ReadingsOK
  <2> QED BY <1>4, <2>1, <2>2
<1>6. ASSUME NEW history \in Histories, FetchFutures(history) PROVE EvidenceInv'
  <2> DEFINE contract == NearestContract(AllFnoRecords, "FUT", now)
             bars == ReadingFromBars(history, contract, StartOfDay(now))
             reading == IF contract = None THEN None ELSE bars
  <2>1. /\ UNCHANGED <<now, bar, feats, rrg, oi, regime, results>>
        /\ engine' = [engine EXCEPT !.step = "commit", !.asked = now, !.contract = contract,
                                    !.readings = @ \cup ({reading} \ {None})]
    BY <1>6 DEF FetchFutures, stores
  <2>2. reading # None => StampedOK(reading)
    <3>1. history = << >> => bars = None
      BY DEF ReadingFromBars
    <3>2. history # << >> => StampedOK(bars)
      BY <1>0, StampsLemma
    <3> HIDE DEF bars
    <3> QED BY <3>1, <3>2
  <2> HIDE DEF reading, contract
  <2>3. engine'.readings \subseteq engine.readings \cup ({reading} \ {None})
    BY <2>1
  <2>4. \A r \in oi' \cup engine'.readings : StampedOK(r)
    BY <1>0, <2>1, <2>2, <2>3 DEF ReadingsOK
  <2> QED BY <1>4, <2>1, <2>4
<1>7. CASE CommitReadings
  <2>1. /\ UNCHANGED <<now, bar, feats, rrg, regime, results>> /\ engine'.readings = {}
        /\ oi' = oi \cup {Merged([run |-> runs], r) : r \in engine.readings}
    BY <1>7 DEF CommitReadings, Idle, stores
  <2>2. ASSUME NEW r, StampedOK(r) PROVE StampedOK(Merged([run |-> runs], r))
    BY <2>2 DEF StampedOK, Merged
  <2>3. \A r \in oi' \cup engine'.readings : StampedOK(r)
    BY <1>0, <2>1, <2>2 DEF ReadingsOK
  <2> QED BY <1>4, <2>1, <2>3
<1>8. CASE EngineFails
  <2>1. UNCHANGED <<now, bar, feats, rrg, oi, regime, results>> /\ engine'.readings = {}
    BY <1>8 DEF EngineFails, Idle, stores
  <2> QED BY <1>0, <1>4, <2>1 DEF ReadingsOK
<1>9. CASE Restart \/ UNCHANGED fusionVars
  <2>1. UNCHANGED <<now, bar, feats, rrg, engine, oi, regime, results>>
    BY <1>9 DEF Restart, fusionVars, stores, derivatives
  <2> QED BY <1>a, <1>b, <1>c, <2>1 DEF EvidenceInv
\* Steps of the job.
<1>10. ASSUME NEW fails \in BOOLEAN, BeginJob(fails) PROVE EvidenceInv'
  <2>1. /\ UNCHANGED <<now, bar, feats, rrg, engine, oi>>
        /\ regime' \in {None, CurrentRegime} /\ results' = {}
    BY <1>10 DEF BeginJob, stores, derivatives
  <2>2. regime' # None => regime'.score \in Unknown
    BY <1>0, <2>1, RegimeLemma
  <2> QED BY <1>a, <1>b, <2>1, <2>2 DEF EvidenceInv
<1>11. ASSUME NEW s \in Stock, NEW row, NEW injected, NEW fails, Evaluate(s, row, injected, fails)
       PROVE  EvidenceInv'
  BY <1>11, EvaluateLemma
<1>12. CASE EndJob
  <2>1. /\ UNCHANGED <<now, bar, feats, rrg, engine, oi>>
        /\ regime' = None /\ results' = {}
    BY <1>12 DEF EndJob, stores, derivatives
  <2> QED BY <1>a, <1>b, <2>1 DEF EvidenceInv
<1> QED
  BY <1>1, <1>2, <1>2s, <1>3, <1>5, <1>6, <1>7, <1>8, <1>9, <1>10, <1>11, <1>12 DEF FusionNext

(* A score stays between the components it was made of, its news comes from *)
(* an article about the symbol inside the window, and its open interest     *)
(* from stored futures readings of the underlying.                          *)
THEOREM EvidenceTheorem == FusionSpec => []EvidenceOnly
<1>1. FusionInit => EvidenceInv
  <2> SUFFICES ASSUME FusionInit PROVE EvidenceInv
    OBVIOUS
  <2>1. StoresInv
    BY StoresOK DEF FusionInit, StoresInv
  <2> QED BY <2>1 DEF FusionInit, Idle, EvidenceInv, ReadingsOK
<1>2. EvidenceInv => EvidenceOnly
  <2> SUFFICES ASSUME EvidenceInv PROVE EvidenceOnly
    OBVIOUS
  <2>1. (\E q \in oi : q.type = "FUT") => NewestFutures(oi) # {}
    <3> SUFFICES ASSUME NEW q \in oi, q.type = "FUT" PROVE NewestFutures(oi) # {}
      OBVIOUS
    <3> DEFINE F == {r \in oi : r.type = "FUT"}
               Ages == {now - r.at : r \in F}
    <3>1. now \in Nat /\ \A r \in oi : r.at \in 0..now
      BY DEF EvidenceInv, ReadingsOK, StampedOK
    <3>2. Ages \in SUBSET Nat /\ Ages # {}
      BY <3>1
    <3>3. PICK age \in Ages : \A a \in Ages : age <= a
      <4> HIDE DEF Ages
      <4> QED BY <3>2, Least
    <3>4. PICK r \in F : age = now - r.at
      OBVIOUS
    <3>5. \A p \in F : r.at >= p.at
      <4> TAKE p \in F
      <4>1. age <= now - p.at
        BY <3>3
      <4> QED BY <3>1, <3>4, <4>1
    <3> QED BY <3>5 DEF NewestFutures
  <2>2. \A r \in results : BetweenOK(r) /\ NewsOK(r) /\ FuturesOK(r)
    BY DEF EvidenceInv
  <2> QED BY <2>1, <2>2 DEF EvidenceOnly, BetweenOK, NewsOK, FuturesOK
<1> QED BY <1>1, <1>2, NextEvidenceInv, PTL DEF FusionSpec
==============================================================================
