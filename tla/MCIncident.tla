----------------------------- MODULE MCIncident -----------------------------
(***************************************************************************)
(* Instances of Incident for TLC, and what the repository's comments and   *)
(* documents say of the incident manager where the code does otherwise.    *)
(***************************************************************************)
EXTENDS Incident, TLC

-----------------------------------------------------------------------------
(* A reconcile that replaces the terminal record of d in this step, having  *)
(* read generation g.                                                       *)
Replaces(w, d, g) ==
  /\ worker[w].pc = "begin" /\ worker[w].dep = d /\ worker[w].gen = g
  /\ worker'[w].pc # "begin"
  /\ restarts' = restarts
  /\ Terminal(incidents[d])
  /\ incidents'[d].id # incidents[d].id

(* pod_controller.go:144-146, "A failed read is non-fatal - generation 0    *)
(* simply never matches a stored non-zero one, so the record is left        *)
(* alone": beginAttempt with the generation of a failed read does not drop  *)
(* a record that is exhausted or cooling down.                              *)
FailedReadLeavesRecord ==
  [][\A w \in Workers, d \in Deployments :
       Replaces(w, d, 0) => /\ incidents[d].terminalOutcome # "exhausted"
                            /\ incidents[d].sinceTerminal >= Cooldown]_vars

(* incident.go:100-111, a changed generation "is the only thing that clears *)
(* an exhausted incident", moving it ourselves "does not resurrect the      *)
(* incident" and "nothing but an external change can move it again": where  *)
(* every read succeeded, a record that is exhausted or cooling down is      *)
(* dropped only after somebody else edited the Deployment.                  *)
OnlyEditRearms ==
  [][\A w \in Workers, d \in Deployments, g \in 1 .. MaxGeneration :
       /\ Replaces(w, d, g)
       /\ incidents[d].generation # 0
       /\ ~hist[incidents[d].id].edited
       => /\ incidents[d].terminalOutcome # "exhausted"
          /\ incidents[d].sinceTerminal >= Cooldown]_vars

=============================================================================
