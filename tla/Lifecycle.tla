------------------------------ MODULE Lifecycle ------------------------------
(***************************************************************************)
(* What internal/safety promises of one remediation attempt: the states an *)
(* attempt has put into the audit log are a path through the frozen        *)
(* lifecycle of state_machine.go that starts at DETECTED, and an attempt   *)
(* reports a result only when that path is complete and ends in that       *)
(* result.  An attempt may be given up at any point without a result.      *)
(***************************************************************************)
EXTENDS Sequences, Naturals

VARIABLES
  trail,   \* the states the current attempt has logged, oldest first
  result   \* "" until the attempt has returned an Outcome

vars == <<trail, result>>

States == {"DETECTED", "SNAPSHOTTED", "REMEDIATING", "VERIFYING", "RECOVERED",
           "ROLLING_BACK", "ROLLED_BACK", "LOGGED"}

(* allowedTransitions: the pairs of the map; LOGGED has no successor. *)
allowedTransitions ==
  {<<"DETECTED", "SNAPSHOTTED">>, <<"SNAPSHOTTED", "REMEDIATING">>,
   <<"REMEDIATING", "VERIFYING">>, <<"VERIFYING", "RECOVERED">>,
   <<"VERIFYING", "ROLLING_BACK">>, <<"RECOVERED", "LOGGED">>,
   <<"ROLLING_BACK", "ROLLED_BACK">>, <<"ROLLED_BACK", "LOGGED">>}

(* The result a complete trail stands for. *)
ResultOf(t) ==
  IF t[Len(t) - 1] = "RECOVERED" THEN "recovered" ELSE "rolled_back"

Init == trail = <<>> /\ result = ""

Detect == trail = <<>> /\ trail' = <<"DETECTED">> /\ UNCHANGED result

Transition(next) ==
  /\ trail # <<>> /\ result = ""
  /\ <<trail[Len(trail)], next>> \in allowedTransitions
  /\ trail' = Append(trail, next)
  /\ UNCHANGED result

Return ==
  /\ trail # <<>> /\ result = ""
  /\ trail[Len(trail)] = "LOGGED"
  /\ result' = ResultOf(trail)
  /\ UNCHANGED trail

(* A new attempt starts, whatever became of the last one. *)
NextAttempt == trail' = <<>> /\ result' = ""

Next == Detect \/ (\E next \in States : Transition(next)) \/ Return \/ NextAttempt

Spec == Init /\ [][Next]_vars

=============================================================================
