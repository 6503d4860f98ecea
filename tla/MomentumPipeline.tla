-------------------------- MODULE MomentumPipeline ---------------------------
(***************************************************************************)
(* Path B: the 60-second momentum job.  MomentumPipelineCoordinator walks  *)
(* the qualified symbols once each; for every one MomentumStateEngine      *)
(* moves the persisted state by at most one edge in one transaction, and   *)
(* then, outside that transaction, raises the alert and records the        *)
(* observation.  APScheduler runs one instance of the job at a time.       *)
(* A crash, or an exception in any of the later steps, leaves what was     *)
(* committed and drops the rest.                                           *)
(***************************************************************************)
EXTENDS Integers, Sequences

CONSTANTS
  Symbol,
  Score,      \* fusion scores the symbols can get
  Threshold,  \* settings.decision_min_alert_score
  MaxRuns,    \* bound: job runs
  MaxCrashes  \* bound: process crashes

ASSUME ScoresOK == Score \subseteq Int /\ Threshold \in Nat \ {0}
ASSUME BoundsOK == MaxRuns \in Nat /\ MaxCrashes \in Nat

VARIABLES
  state,    \* momentum_states: the current-state pointer
  log,      \* momentum_state_transitions: symbol -> its rows in id order
  alerted,  \* symbol -> positions in log for which process() made an alert
  observed, \* symbol -> positions in log with a momentum_alert_observations row
  run,      \* job runs so far
  todo,     \* symbols of this run still to evaluate
  pc,       \* idle, loop, alert (before process()), observe
  cur,      \* the symbol between alert and observe, or "none"
  verdict,  \* symbol -> verdict returned in this run
  crashes

Lifecycle == INSTANCE MomentumLifecycle WITH Symbol <- Symbol, state <- state

MomentumState == Lifecycle!MomentumState
States == MomentumState \cup {"NONE"}
AlertWorthy == {"TRIGGERED", "CONFIRMED"}
Terminal == {"EXHAUSTED", "INVALIDATED"}
(* PipelineVerdict; UNSCORED is the REJECT for missing evidence or low     *)
(* confidence, told apart from the REJECT for a missing state by its       *)
(* reason.                                                                 *)
Verdict == {"TRIGGER", "WATCH", "REJECT", "INVALIDATE", "UNSCORED"}

vars == <<state, log, alerted, observed, run, todo, pc, cur, verdict, crashes>>

-----------------------------------------------------------------------------
(* state_machine.py.  A score is compared with threshold/3 and             *)
(* 2*threshold/3; both sides are multiplied by three here.                 *)

Ladder == [i \in 0..3 |-> <<"SETUP", "WATCH", "ACTIVATING", "TRIGGERED">>[i + 1]]
LadderIndex == [SETUP |-> 0, WATCH |-> 1, ACTIVATING |-> 2, TRIGGERED |-> 3]

BandIndex(score) ==
  CASE score >= Threshold -> 3
    [] score < Threshold /\ 3 * score >= 2 * Threshold -> 2
    [] 3 * score < 2 * Threshold /\ 3 * score >= Threshold -> 1
    [] OTHER -> 0

(* The next state, or "HOLD" where the code returns None. *)
AfterTrigger(current, score) ==
  CASE score < Threshold -> "EXHAUSTED"
    [] score >= Threshold /\ current = "TRIGGERED" -> "CONFIRMED"
    [] OTHER -> "HOLD"

(* Mutant of BeforeTrigger: straight to the score's band, stages skipped. *)
BeforeTriggerSkips(current, score) ==
  IF 3 * score < Threshold THEN "INVALIDATED"
  ELSE IF BandIndex(score) > LadderIndex[current] THEN Ladder[BandIndex(score)] ELSE "HOLD"

BeforeTrigger(current, score) ==
  CASE 3 * score < Threshold -> "INVALIDATED"
    [] 3 * score >= Threshold /\ BandIndex(score) >= LadderIndex[current] + 1
         -> Ladder[LadderIndex[current] + 1]
    [] OTHER -> "HOLD"

EvaluateTransition(current, score) ==
  CASE current = "NONE" -> Ladder[BandIndex(score)]
    [] current \in Terminal -> "HOLD"
    [] current \in AlertWorthy -> AfterTrigger(current, score)
    [] OTHER -> BeforeTrigger(current, score)

(* apply_transition: raises unless the edge is allowed. *)
IsValidTransition(from, to) ==
  from = "NONE" \/ <<from, to>> \in Lifecycle!ALLOWED_TRANSITIONS

(* MomentumDecisionEngine.decide, for a confidence above the minimum. *)
Decide(st) ==
  CASE st = "NONE" -> "REJECT"
    [] st \in AlertWorthy -> "TRIGGER"
    [] st \in Terminal -> "INVALIDATE"
    [] OTHER -> "WATCH"

-----------------------------------------------------------------------------
Init ==
  /\ state = [s \in Symbol |-> "NONE"]
  /\ log = [s \in Symbol |-> <<>>]
  /\ alerted = [s \in Symbol |-> {}]
  /\ observed = [s \in Symbol |-> {}]
  /\ run = 0 /\ todo = {} /\ pc = "idle" /\ cur = "none"
  /\ verdict = [s \in Symbol |-> "NONE"]
  /\ crashes = 0

(* The job fires with the market open and reads the qualified results. *)
BeginRun ==
  /\ pc = "idle" /\ run < MaxRuns
  /\ run' = run + 1
  /\ todo' \in SUBSET Symbol
  /\ pc' = "loop"
  /\ UNCHANGED <<state, log, alerted, observed, cur, verdict, crashes>>

(* No fusion score, or confidence below the minimum: the momentum engine   *)
(* is not called.                                                          *)
Reject(s) ==
  /\ pc = "loop" /\ s \in todo
  /\ todo' = todo \ {s}
  /\ verdict' = [verdict EXCEPT ![s] = "UNSCORED"]
  /\ UNCHANGED <<state, log, alerted, observed, run, pc, cur, crashes>>

(* Anything raised before the commit: isolated, nothing written. *)
EvaluateFails(s) ==
  /\ pc = "loop" /\ s \in todo
  /\ todo' = todo \ {s}
  /\ UNCHANGED <<state, log, alerted, observed, run, pc, cur, verdict, crashes>>

(* Mutant of Hold: nothing changed, so the symbol is rejected. *)
HoldRejects(s, score) ==
  /\ pc = "loop" /\ s \in todo
  /\ EvaluateTransition(state[s], score) = "HOLD"
  /\ todo' = todo \ {s}
  /\ verdict' = [verdict EXCEPT ![s] = "REJECT"]
  /\ UNCHANGED <<state, log, alerted, observed, run, pc, cur, crashes>>

(* No transition: the verdict is read from the standing state. *)
Hold(s, score) ==
  /\ pc = "loop" /\ s \in todo
  /\ EvaluateTransition(state[s], score) = "HOLD"
  /\ todo' = todo \ {s}
  /\ verdict' = [verdict EXCEPT ![s] = Decide(state[s])]
  /\ UNCHANGED <<state, log, alerted, observed, run, pc, cur, crashes>>

(* Mutant of WriteMove: log rows for alert-worthy states only. *)
WriteMoveLogsAlerts(s, next) ==
  /\ state' = [state EXCEPT ![s] = next]
  /\ log' = IF next \in AlertWorthy
              THEN [log EXCEPT ![s] = Append(@, [from |-> state[s], to |-> next, run |-> run])]
              ELSE log

(* MomentumStateRepository.apply_transition: pointer and log row in one    *)
(* transaction.                                                            *)
WriteMove(s, next) ==
  /\ state' = [state EXCEPT ![s] = next]
  /\ log' = [log EXCEPT ![s] = Append(@, [from |-> state[s], to |-> next, run |-> run])]

(* Mutant of AfterCommit: every move is alerted. *)
AfterCommitAlertsAll(s, next) == pc' = "alert" /\ cur' = s /\ UNCHANGED verdict

(* An alert-worthy state goes on to process(), outside the transaction;    *)
(* any other one is decided.                                               *)
AfterCommit(s, next) ==
  IF next \in AlertWorthy
    THEN pc' = "alert" /\ cur' = s /\ UNCHANGED verdict
    ELSE verdict' = [verdict EXCEPT ![s] = Decide(next)] /\ UNCHANGED <<pc, cur>>

(* Mutant of Move: no seen_symbols, a symbol may come up again. *)
MoveEveryRow(s, next) ==
  /\ pc = "loop" /\ s \in todo
  /\ todo' \in {todo, todo \ {s}}
  /\ WriteMove(s, next) /\ AfterCommit(s, next)
  /\ UNCHANGED <<alerted, observed, run, crashes>>

Move(s, next) ==
  /\ pc = "loop" /\ s \in todo
  /\ todo' = todo \ {s}
  /\ WriteMove(s, next) /\ AfterCommit(s, next)
  /\ UNCHANGED <<alerted, observed, run, crashes>>

(* Mutants of Transition: None and illegal edges not checked; a terminal   *)
(* symbol starts over; stages skipped.                                     *)
TransitionUnchecked(s, score) == Move(s, EvaluateTransition(state[s], score))

TransitionRestarts(s, score) ==
  LET next == IF state[s] \in Terminal THEN Ladder[BandIndex(score)]
              ELSE EvaluateTransition(state[s], score) IN
  next # "HOLD" /\ Move(s, next)

TransitionSkips(s, score) ==
  LET next == IF state[s] \in {"SETUP", "WATCH"} THEN BeforeTriggerSkips(state[s], score)
              ELSE EvaluateTransition(state[s], score) IN
  next # "HOLD" /\ Move(s, next)

(* MomentumStateEngine.evaluate up to the commit. *)
Transition(s, score) ==
  LET next == EvaluateTransition(state[s], score) IN
  /\ next # "HOLD" /\ IsValidTransition(state[s], next)
  /\ Move(s, next)

(* _raise_alert -> AlertManager.process: another transaction.  It creates  *)
(* the alert (a symbol enters each state once, so neither the fingerprint  *)
(* nor the cooldown suppresses it) or raises.                              *)
RaiseAlert ==
  /\ pc = "alert"
  /\ alerted' = [alerted EXCEPT ![cur] = @ \cup {Len(log[cur])}]
  /\ pc' = "observe"
  /\ UNCHANGED <<state, log, observed, run, todo, cur, verdict, crashes>>

(* _record_observation, a third transaction, then the verdict. *)
RecordObservation ==
  /\ pc = "observe"
  /\ observed' = [observed EXCEPT ![cur] = @ \cup {Len(log[cur])}]
  /\ verdict' = [verdict EXCEPT ![cur] = Decide(state[cur])]
  /\ pc' = "loop" /\ cur' = "none"
  /\ UNCHANGED <<state, log, alerted, run, todo, crashes>>

(* process() or _record_observation raises: run_all logs it and goes on    *)
(* with the next symbol.  (process() raising after its first commit is     *)
(* RaiseAlert and then this.)                                              *)
LaterStepFails ==
  /\ pc \in {"alert", "observe"}
  /\ pc' = "loop" /\ cur' = "none"
  /\ UNCHANGED <<state, log, alerted, observed, run, todo, verdict, crashes>>

(* run_all returns; the job logs the result and drops it. *)
EndRun ==
  /\ pc = "loop" /\ todo = {}
  /\ pc' = "idle"
  /\ verdict' = [s \in Symbol |-> "NONE"]
  /\ UNCHANGED <<state, log, alerted, observed, run, todo, cur, crashes>>

Crash ==
  /\ pc # "idle" /\ crashes < MaxCrashes
  /\ crashes' = crashes + 1
  /\ pc' = "idle" /\ todo' = {} /\ cur' = "none"
  /\ verdict' = [s \in Symbol |-> "NONE"]
  /\ UNCHANGED <<state, log, alerted, observed, run>>

EvaluateOne(s) ==
  \/ Reject(s)
  \/ EvaluateFails(s)
  \/ \E score \in Score : Hold(s, score)
  \/ \E score \in Score : Transition(s, score)

Next ==
  \/ BeginRun \/ RaiseAlert \/ RecordObservation \/ LaterStepFails \/ EndRun \/ Crash
  \/ \E s \in Symbol : EvaluateOne(s)

Spec == Init /\ [][Next]_vars

-----------------------------------------------------------------------------
(* Properties                                                              *)

(* Type invariant. *)
TypeOK ==
  /\ state \in [Symbol -> States]
  /\ log \in [Symbol -> Seq([from : States, to : MomentumState, run : 1..MaxRuns])]
  /\ alerted \in [Symbol -> SUBSET Nat] /\ observed \in [Symbol -> SUBSET Nat]
  /\ run \in 0..MaxRuns /\ todo \subseteq Symbol
  /\ pc \in {"idle", "loop", "alert", "observe"}
  /\ cur \in Symbol \cup {"none"}
  /\ verdict \in [Symbol -> Verdict \cup {"NONE"}]
  /\ crashes \in 0..MaxCrashes

(* momentum_state_repository.py: "the log and the current pointer can      *)
(* never disagree about the last move".  The log is one chain from no      *)
(* state to the pointer's state.                                           *)
LogMatchesPointer ==
  \A s \in Symbol :
    /\ log[s] = <<>> => state[s] = "NONE"
    /\ log[s] # <<>> => log[s][1].from = "NONE" /\ log[s][Len(log[s])].to = state[s]
    /\ \A i \in 1..(Len(log[s]) - 1) : log[s][i].to = log[s][i + 1].from

(* One stage per run: a symbol's rows were written by strictly later runs, *)
(* so an event that started at SETUP needed four runs to trigger           *)
(* (run_all's seen_symbols and the one-step rule together).                *)
OneStagePerRun ==
  \A s \in Symbol : \A i, j \in 1..Len(log[s]) : i < j => log[s][i].run < log[s][j].run

(* No state is entered twice, so TRIGGERED and CONFIRMED are alerted at    *)
(* most once each in a symbol's life.                                      *)
NoStateTwice ==
  \A s \in Symbol : \A i, j \in 1..Len(log[s]) : log[s][i].to = log[s][j].to => i = j

(* Alerts and observations exist only for alert-worthy rows of the log,    *)
(* and an observation only after the alert of the same row.                *)
AlertsHaveTransitions ==
  \A s \in Symbol :
    /\ observed[s] \subseteq alerted[s]
    /\ \A i \in alerted[s] : i \in 1..Len(log[s]) /\ log[s][i].to \in AlertWorthy

(* evaluate_transition never proposes an edge apply_transition would       *)
(* refuse, for any reachable state and any score.                          *)
NeverProposesIllegalEdge ==
  \A s \in Symbol, score \in Score :
    LET next == EvaluateTransition(state[s], score) IN
    next # "HOLD" => IsValidTransition(state[s], next)

(* The verdict of a finished evaluation reflects the symbol's standing     *)
(* state, also when nothing changed (_evaluate_one's own requirement).     *)
VerdictReflectsState ==
  \A s \in Symbol : verdict[s] \notin {"NONE", "UNSCORED"} => verdict[s] = Decide(state[s])

(* The detailed pipeline implements the lifecycle. *)
ImplementsLifecycle == Lifecycle!Spec

(* README: "if next_state in {TRIGGERED, CONFIRMED} -> AlertManager        *)
(* .process()".  Once the run is over, every alert-worthy row has its      *)
(* alert.  The code commits the state first, so a failure or a crash       *)
(* before process() loses the alert for good.                              *)
EveryTriggerAlerted ==
  pc = "idle" => \A s \in Symbol : \A i \in 1..Len(log[s]) :
                    log[s][i].to \in AlertWorthy => i \in alerted[s]
=============================================================================
