-------------------------- MODULE MCClassification --------------------------
(***************************************************************************)
(* Instances of Classification for TLC.                                    *)
(***************************************************************************)
EXTENDS Classification, FiniteSets, TLC

(* Evidence of up to three indicators, the most MockClassifier and the      *)
(* guard look at together, and none because nothing was collected.          *)
SmallEvidence == {e \in SUBSET Indicators : Cardinality(e) <= 3}

MCInputs ==
  [pod : {"pod"}, namespace : {"ns"}, owner : {"dep", ""}, evidence : SmallEvidence,
   blank : {FALSE}]
  \union
  [pod : {"pod"}, namespace : {"ns"}, owner : {"dep", ""}, evidence : {{}},
   blank : {TRUE}]

MCPadded == (" " :> "") @@ (" Pod " :> "Pod") @@ (" dep " :> "dep")

(* Proposals of a model: the three that can be right, and those with one    *)
(* field that is wrong, missing or padded.                                  *)
Restart == [subCause |-> "transient_failure", action |-> "restart_pod", kind |-> "Pod",
            namespace |-> "ns", name |-> "pod", safe |-> TRUE, reasoning |-> "given"]

Undo == [subCause |-> "bad_deploy", action |-> "rollout_undo", kind |-> "Deployment",
         namespace |-> "ns", name |-> " dep ", safe |-> TRUE, reasoning |-> "given"]

Escalate == [subCause |-> "unknown", action |-> "escalate_to_human", kind |-> " Pod ",
             namespace |-> "ns", name |-> "pod", safe |-> FALSE, reasoning |-> "given"]

MCProposals ==
  {p \in [subCause : {"transient_failure", "bad_deploy", "unknown", "guess"},
          action : {"restart_pod", "rollout_undo", "escalate_to_human", "drain_node"},
          kind : {"Pod", "Deployment", " Pod ", ""}, namespace : {"ns", "kube-system"},
          name : {"pod", " dep ", "other"}, safe : BOOLEAN, reasoning : {"given", " "}] :
     \E q \in {Restart, Undo, Escalate} :
       Cardinality({f \in DOMAIN p : p[f] # q[f]}) <= 1}

(* An object without any of the fields. *)
Empty == [subCause |-> "", action |-> "", kind |-> "", namespace |-> "", name |-> "",
          safe |-> FALSE, reasoning |-> ""]

Texts == {Blank, Garbled, JSON(Restart), JSON(Empty)}

Blocks == {Block(type, text) : type \in {"text", "thinking"}, text \in Texts}

(* A plain answer with any proposal, and every shape of a response. *)
MCResponses ==
  {Response("2xx", <<Block("text", JSON(p))>>) : p \in MCProposals}
  \union {Response("2xx", <<b, c>>) : b \in Blocks, c \in Blocks}
  \union {Response(status, <<Block("text", JSON(Restart))>>) : status \in {"4xx", "5xx"}}
  \union {Response("2xx", <<>>), Undecodable("2xx"), Undecodable("5xx")}

(* A model's answer is judged on single indicators and on the pairs a       *)
(* rollout_undo needs: the guard is monotonic in the evidence.              *)
MCInit ==
  /\ Init
  /\ provider \in ModelProviders =>
       \/ Cardinality(input.evidence) <= 1
       \/ Cardinality(input.evidence) = 2 /\ hasRecentDeploymentEvidence(input)

MCFairSpec == MCInit /\ [][Next]_vars /\ Fairness

=============================================================================
