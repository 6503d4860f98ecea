-------------------------- MODULE MomentumLifecycle --------------------------
(***************************************************************************)
(* What the momentum state machine promises of one symbol's state: it      *)
(* enters somewhere on the ladder, climbs one rung at a time, never steps  *)
(* back, and leaves through EXHAUSTED or INVALIDATED for good.             *)
(***************************************************************************)
CONSTANT Symbol

(* MomentumState, and "NONE" for a symbol without a momentum_states row. *)
MomentumState ==
  {"SETUP", "WATCH", "ACTIVATING", "TRIGGERED", "CONFIRMED", "EXHAUSTED", "INVALIDATED"}

EntryStates == {"SETUP", "WATCH", "ACTIVATING", "TRIGGERED"}

ALLOWED_TRANSITIONS ==
  { <<"SETUP", "WATCH">>, <<"SETUP", "INVALIDATED">>,
    <<"WATCH", "ACTIVATING">>, <<"WATCH", "INVALIDATED">>,
    <<"ACTIVATING", "TRIGGERED">>, <<"ACTIVATING", "INVALIDATED">>,
    <<"TRIGGERED", "CONFIRMED">>, <<"TRIGGERED", "EXHAUSTED">>,
    <<"TRIGGERED", "INVALIDATED">>,
    <<"CONFIRMED", "EXHAUSTED">>, <<"CONFIRMED", "INVALIDATED">> }

VARIABLE state

Init == state = [s \in Symbol |-> "NONE"]

Enter(s) ==
  /\ state[s] = "NONE"
  /\ \E e \in EntryStates : state' = [state EXCEPT ![s] = e]

Move(s) ==
  \E e \in MomentumState :
    /\ <<state[s], e>> \in ALLOWED_TRANSITIONS
    /\ state' = [state EXCEPT ![s] = e]

Next == \E s \in Symbol : Enter(s) \/ Move(s)

Spec == Init /\ [][Next]_state
=============================================================================
