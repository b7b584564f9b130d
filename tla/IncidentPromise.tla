--------------------------- MODULE IncidentPromise ---------------------------
(***************************************************************************)
(* What the incident manager promises, without its map, lock, claims,      *)
(* generations and clock: a Deployment has one incident at a time, which   *)
(* acts within its budget, one action after the other, ends once, and does *)
(* nothing after its end.  Module Incident implements it.                  *)
(***************************************************************************)
EXTENDS Naturals, Sequences

CONSTANTS Deployments, MaxAttempts

VARIABLE life  \* the incidents in the order they were opened

Life(d, acts, acting, outcome, lost) ==
  [dep |-> d, acts |-> acts, acting |-> acting, outcome |-> outcome, lost |-> lost]

NewIncident(d) == Life(d, 0, FALSE, "", FALSE)

(* An incident with an action under way, with none any more, and forgotten. *)
Dispatched(l) == Life(l.dep, l.acts + 1, TRUE, l.outcome, l.lost)

Returned(l, outcome) == Life(l.dep, l.acts, FALSE, outcome, l.lost)

Forgotten(l) == Life(l.dep, l.acts, FALSE, l.outcome, TRUE)

(* Neither ended nor forgotten by a process that died. *)
Running(i) == life[i].outcome = "" /\ ~life[i].lost

Init == life = <<>>

Open(d) ==
  /\ \A i \in 1 .. Len(life) : life[i].dep = d => ~Running(i)
  /\ life' = Append(life, NewIncident(d))

(* An action is dispatched. *)
Act(i) ==
  /\ Running(i) /\ ~life[i].acting
  /\ life[i].acts < MaxAttempts
  /\ life' = [life EXCEPT ![i] = Dispatched(@)]

(* It returns; only an action recovers, anything else leaves the incident   *)
(* open for the next one.                                                   *)
ActReturns(i) ==
  /\ Running(i) /\ life[i].acting
  /\ \E outcome \in {"recovered", ""} :
       life' = [life EXCEPT ![i] = Returned(@, outcome)]

(* The incident is given up between two actions: exhausted with the budget  *)
(* spent, escalated or rejected by what the classifier proposed before.     *)
GiveUp(i) ==
  /\ Running(i) /\ ~life[i].acting
  /\ \E outcome \in {"exhausted", "escalated", "rejected"} :
       /\ outcome = "exhausted" <=> life[i].acts = MaxAttempts
       /\ life' = [life EXCEPT ![i] = Returned(@, outcome)]

(* The process dies and with it the incidents it remembers. *)
Forget ==
  life' = [i \in 1 .. Len(life) |-> Forgotten(life[i])]

Next == \/ \E d \in Deployments : Open(d)
        \/ \E i \in 1 .. Len(life) : Act(i) \/ ActReturns(i) \/ GiveUp(i)
        \/ Forget

Spec == Init /\ [][Next]_life

=============================================================================
