----------------------------- MODULE MCEvidence -----------------------------
(***************************************************************************)
(* Instances of Evidence for TLC.                                          *)
(***************************************************************************)
EXTENDS Evidence

(* A Pod and its Deployment; a ReplicaSet that was adopted may carry the    *)
(* name of the Deployment, whose Events are then listed twice.              *)
MCQueries == {<<"pod", "dep">>, <<"dep", "dep">>}

(* Logs and Events are collected one after the other and share no state, so *)
(* their cases are explored one by one, and together from a Pod whose last  *)
(* instance left a log.                                                     *)
MCInit ==
  /\ Init
  /\ wired = {"logs", "events"} =>
       names = <<"pod", "dep">> /\ container.last = [instance |-> 1, size |-> 3]

MCSpec == MCInit /\ [][Next]_vars

=============================================================================
