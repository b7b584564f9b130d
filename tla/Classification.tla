--------------------------- MODULE Classification ---------------------------
(***************************************************************************)
(* From the evidence of an incident to an action: the classifier call with *)
(* its timeout (internal/classifier/service.go), the validation of its     *)
(* proposal (validator.go), the fallback, and the gate of Reconcile        *)
(* (pod_controller.go, escalation.go) that dispatches or escalates.        *)
(*                                                                         *)
(* The server of a language model gives one of Responses, fails or never   *)
(* answers; the call runs in a goroutine of its own and races with the     *)
(* deadline of its context.                                                *)
(*                                                                         *)
(* Logs and Events are the set of indicators found in them.  An indicator  *)
(* stands for the phrases no check tells apart: those MockClassifier and   *)
(* the semantic guard both look for, and those only the guard knows.       *)
(***************************************************************************)
EXTENDS ModelClient

CONSTANTS
  Inputs,     \* the incidents that may be classified
  Responses,  \* what the server of a language model may answer
  Padded,     \* spellings with white space around them, and what they trim to
  Providers   \* the configured classifiers: a model's, "mock" or "none"

VARIABLES
  input,     \* the IncidentInput
  provider,  \* the classifier behind the service
  pc,        \* where ClassifyAndValidate, then Reconcile, is
  call,      \* the goroutine of the call and its request
  channel,   \* resultCh, of capacity one
  ctxDone,   \* callCtx has timed out or Reconcile's context was cancelled
  outcome,   \* the ClassificationOutcome
  gate       \* what Reconcile did with it

vars == <<input, provider, pc, call, channel, ctxDone, outcome, gate>>

-----------------------------------------------------------------------------
(* Evidence. *)

TransientEvidence == {"connect", "network"}
DeployEvidence == {"image", "pull", "backoff"}
RolloutEvidence == {"rollout"}
ConfigEvidence == {"config", "envvar"}
PanicEvidence == {"panic", "fatal"}
MemoryEvidence == {"oom", "memory"}

Indicators == TransientEvidence \union DeployEvidence \union RolloutEvidence
              \union ConfigEvidence \union PanicEvidence \union MemoryEvidence

containsAny(in, indicators) == in.evidence \intersect indicators # {}

hasRecentDeploymentEvidence(in) == containsAny(in, RolloutEvidence)

hasTransientFailureEvidence(in) == containsAny(in, TransientEvidence)

-----------------------------------------------------------------------------
(* Validation of a proposal. *)

allowedSubCauses ==
  {"transient_failure", "bad_deploy", "bad_config", "application_panic",
   "oom_adjacent", "unknown"}

allowedExecutableActions == {"restart_pod", "rollout_undo"}

allowedResponseActions == allowedExecutableActions \union {"escalate_to_human"}

TrimSpace(s) == IF s \in DOMAIN Padded THEN Padded[s] ELSE s

normalizeProposal(p) ==
  [subCause |-> TrimSpace(p.subCause), action |-> TrimSpace(p.action),
   kind |-> TrimSpace(p.kind), namespace |-> TrimSpace(p.namespace),
   name |-> TrimSpace(p.name), safe |-> p.safe, reasoning |-> TrimSpace(p.reasoning)]

(* The reason code of the semantic guard, "" when the evidence supports the *)
(* sub-cause.                                                               *)
validateSemanticConsistency(p, in) ==
  LET guard(indicators) ==
        IF containsAny(in, indicators) THEN "" ELSE "semantic_guard_rejected"
  IN  CASE p.subCause = "transient_failure" -> guard(TransientEvidence)
        [] p.subCause = "bad_deploy" ->
             IF guard(DeployEvidence) = "" /\ ~hasRecentDeploymentEvidence(in)
             THEN "missing_deployment_evidence" ELSE guard(DeployEvidence)
        [] p.subCause = "bad_config" -> guard(ConfigEvidence)
        [] p.subCause = "oom_adjacent" -> guard(MemoryEvidence)
        [] p.subCause = "application_panic" -> guard(PanicEvidence)
        [] OTHER -> ""

(* The first check an automatable proposal fails, "" when it passes. *)
validateAutomatableProposalMutNoGuard(p, in) ==
  IF p.action \notin allowedExecutableActions THEN "unsafe_executable_action"
  ELSE IF p.action = "restart_pod"
  THEN IF p.subCause # "transient_failure" THEN "unsafe_executable_action"
       ELSE IF p.kind # "Pod" THEN "wrong_target_kind"
       ELSE IF p.name # in.pod THEN "wrong_target_name"
       ELSE ""
  ELSE IF p.subCause # "bad_deploy" THEN "unsafe_executable_action"
  ELSE IF p.kind # "Deployment" THEN "wrong_target_kind"
  ELSE IF TrimSpace(in.owner) = "" THEN "missing_owner_deployment"
  ELSE IF p.name # in.owner THEN "wrong_target_name"
  ELSE ""

validateAutomatableProposalMutAnyTarget(p, in) ==
  IF p.action \notin allowedExecutableActions THEN "unsafe_executable_action"
  ELSE IF validateSemanticConsistency(p, in) # "" THEN validateSemanticConsistency(p, in)
  ELSE IF p.action = "restart_pod"
  THEN IF p.subCause # "transient_failure" THEN "unsafe_executable_action"
       ELSE IF p.kind # "Pod" THEN "wrong_target_kind"
       ELSE IF p.name # in.pod THEN "wrong_target_name"
       ELSE ""
  ELSE IF p.subCause # "bad_deploy" THEN "unsafe_executable_action"
  ELSE IF p.kind # "Deployment" THEN "wrong_target_kind"
  ELSE ""

validateAutomatableProposal(p, in) ==
  IF p.action \notin allowedExecutableActions THEN "unsafe_executable_action"
  ELSE IF validateSemanticConsistency(p, in) # "" THEN validateSemanticConsistency(p, in)
  ELSE IF p.action = "restart_pod"
  THEN IF p.subCause # "transient_failure" THEN "unsafe_executable_action"
       ELSE IF p.kind # "Pod" THEN "wrong_target_kind"
       ELSE IF p.name # in.pod THEN "wrong_target_name"
       ELSE ""
  ELSE IF p.subCause # "bad_deploy" THEN "unsafe_executable_action"
  ELSE IF p.kind # "Deployment" THEN "wrong_target_kind"
  ELSE IF TrimSpace(in.owner) = "" THEN "missing_owner_deployment"
  ELSE IF p.name # in.owner THEN "wrong_target_name"
  ELSE ""

validateEscalationProposal(p, in) ==
  IF p.action # "escalate_to_human" THEN "escalation_required"
  ELSE IF p.kind # "Pod" THEN "wrong_target_kind"
  ELSE IF p.name # in.pod THEN "wrong_target_name"
  ELSE ""

ReasonCode(p, in) ==
  IF p.subCause \notin allowedSubCauses THEN "unsupported_sub_cause"
  ELSE IF p.action \notin allowedResponseActions THEN "unsupported_action"
  ELSE IF p.kind = "" THEN "missing_target_kind"
  ELSE IF p.namespace = "" THEN "missing_target_namespace"
  ELSE IF p.name = "" THEN "missing_target_name"
  ELSE IF p.reasoning = "" THEN "missing_reasoning"
  ELSE IF p.namespace # in.namespace THEN "namespace_mismatch"
  ELSE IF p.safe THEN validateAutomatableProposal(p, in)
  ELSE validateEscalationProposal(p, in)

(* The ValidationResult: decision, reason code and the trimmed proposal. *)
ValidateProposal(p, in) ==
  LET output == normalizeProposal(p)
      code == ReasonCode(output, in)
  IN  [valid |-> code = "", reasonCode |-> code, output |-> output,
       decision |-> IF code # "" THEN "fallback_miss"
                    ELSE IF output.safe THEN "automate" ELSE "escalate"]

(* The values the package itself puts into proposals are not padded, and   *)
(* neither are the names of Kubernetes objects, which are never empty.      *)
OwnValues ==
  allowedSubCauses \union allowedResponseActions \union {"Pod", "Deployment", "given"}

ASSUME PaddedAssumption == OwnValues \intersect DOMAIN Padded = {}

ASSUME InputsAssumption ==
  \A in \in Inputs : /\ {in.pod, in.namespace, in.owner} \intersect DOMAIN Padded = {}
                     /\ in.pod # "" /\ in.namespace # ""
                     /\ in.blank => in.evidence = {}

-----------------------------------------------------------------------------
(* The fallback, and the classifier that needs no model. *)

escalationProposal(in, subCause) ==
  [subCause |-> subCause, action |-> "escalate_to_human", kind |-> "Pod",
   namespace |-> in.namespace, name |-> in.pod, safe |-> FALSE, reasoning |-> "given"]

restartProposal(in) ==
  [subCause |-> "transient_failure", action |-> "restart_pod", kind |-> "Pod",
   namespace |-> in.namespace, name |-> in.pod, safe |-> TRUE, reasoning |-> "given"]

undoProposal(in) ==
  IF TrimSpace(in.owner) = "" THEN escalationProposal(in, "bad_deploy")
  ELSE [subCause |-> "bad_deploy", action |-> "rollout_undo", kind |-> "Deployment",
        namespace |-> in.namespace, name |-> in.owner, safe |-> TRUE,
        reasoning |-> "given"]

buildSafeFallbackMutAlwaysRestarts(in) == restartProposal(in)

buildSafeFallback(in) ==
  IF hasTransientFailureEvidence(in) THEN restartProposal(in)
                                     ELSE escalationProposal(in, "unknown")

(* MockClassifier.Classify: the first case that applies. *)
MockClassifyMutNoRollout(in) ==
  IF "oom" \in in.evidence THEN escalationProposal(in, "oom_adjacent")
  ELSE IF "config" \in in.evidence THEN escalationProposal(in, "bad_config")
  ELSE IF in.evidence \intersect {"image", "backoff"} # {} THEN undoProposal(in)
  ELSE IF "connect" \in in.evidence THEN restartProposal(in)
  ELSE escalationProposal(in, "unknown")

MockClassify(in) ==
  IF "oom" \in in.evidence THEN escalationProposal(in, "oom_adjacent")
  ELSE IF "config" \in in.evidence THEN escalationProposal(in, "bad_config")
  ELSE IF "image" \in in.evidence THEN undoProposal(in)
  ELSE IF "connect" \in in.evidence THEN restartProposal(in)
  ELSE IF "panic" \in in.evidence THEN escalationProposal(in, "application_panic")
  ELSE IF "backoff" \in in.evidence /\ hasRecentDeploymentEvidence(in)
  THEN undoProposal(in)
  ELSE escalationProposal(in, "unknown")

(* What may come over the channel.  NoResult is none of it. *)
Results ==
  {Failed} \union {[failed |-> FALSE, proposal |-> MockClassify(in)] : in \in Inputs}
  \union {ClassifyResponse(m, response) : m \in ModelProviders, response \in Responses}

ASSUME NoResultAssumption == NoResult \notin Results

-----------------------------------------------------------------------------
(* ClassifyAndValidate. *)

NoOutcome == [proposal |-> NoResult, decision |-> "", fallback |-> FALSE, reasonCode |-> ""]

(* reasonCode is the FallbackReasonCode: why the validator refused the      *)
(* proposal the fallback stands in for, "" when there was none to refuse.   *)
OutcomeOf(p, fallback, reasonCode) ==
  LET validation == ValidateProposal(p, input)
  IN  [proposal |-> validation.output, decision |-> validation.decision,
       fallback |-> fallback, reasonCode |-> reasonCode]

fallbackClassificationOutcome(reasonCode) ==
  OutcomeOf(buildSafeFallback(input), TRUE, reasonCode)

Init ==
  /\ input \in Inputs
  /\ provider \in Providers
  /\ pc = "start"
  /\ call = "idle"
  /\ channel = NoResult
  /\ ctxDone = FALSE
  /\ outcome = NoOutcome
  /\ gate = ""

(* No classifier is configured: fall back without a call. *)
NotConfigured ==
  /\ pc = "start" /\ provider = "none"
  /\ outcome' = fallbackClassificationOutcome("")
  /\ pc' = "decided"
  /\ UNCHANGED <<input, provider, call, channel, ctxDone, gate>>

StartCall ==
  /\ pc = "start" /\ provider # "none"
  /\ call' = "running"
  /\ pc' = "select"
  /\ UNCHANGED <<input, provider, channel, ctxDone, outcome, gate>>

(* callCtx has an error: its deadline passed, its parent was cancelled, or  *)
(* ClassifyAndValidate has returned and cancelled it itself.                *)
CallCtxDone == ctxDone \/ pc \in {"decided", "done"}

(* The goroutine sends its result and ends; the channel has room for it     *)
(* also when nobody will receive.                                           *)
ReturnsMutUnbuffered(result) ==
  /\ pc = "select"
  /\ channel' = result
  /\ call' = "returned"
  /\ UNCHANGED <<input, provider, pc, ctxDone, outcome, gate>>

Returns(result) ==
  /\ channel' = result
  /\ call' = "returned"
  /\ UNCHANGED <<input, provider, pc, ctxDone, outcome, gate>>

(* The mock answers, unless its context was done first. *)
MockReturns ==
  /\ call = "running" /\ provider = "mock"
  /\ \/ Returns([failed |-> FALSE, proposal |-> MockClassify(input)])
     \/ CallCtxDone /\ Returns(Failed)

(* A client does not send an incident without evidence. *)
InputRefused ==
  /\ call = "running" /\ provider \in ModelProviders
  /\ ~validateIncidentInput(input)
  /\ Returns(Failed)

SendRequest ==
  /\ call = "running" /\ provider \in ModelProviders
  /\ validateIncidentInput(input)
  /\ call' = "sent"
  /\ UNCHANGED <<input, provider, pc, channel, ctxDone, outcome, gate>>

(* The server answers, or the connection breaks. *)
ServerAnswers ==
  /\ call = "sent"
  /\ \/ \E response \in Responses : Returns(ClassifyResponse(provider, response))
     \/ Returns(Failed)

(* The request carries callCtx: client.Do or the read of the body fails.    *)
RequestAborted == call = "sent" /\ CallCtxDone /\ Returns(Failed)

(* What the goroutine does by itself, and with the help of the server.      *)
CallProceeds == MockReturns \/ InputRefused \/ SendRequest \/ RequestAborted

CallStep == CallProceeds \/ ServerAnswers

(* The deadline of callCtx passes, or the reconcile's context is cancelled. *)
ContextDone ==
  /\ pc \in {"start", "select"} /\ ~ctxDone
  /\ ctxDone' = TRUE
  /\ UNCHANGED <<input, provider, pc, call, channel, outcome, gate>>

(* select takes the result: an error or an invalid proposal falls back. *)
ReceiveResult ==
  /\ pc = "select" /\ channel # NoResult
  /\ outcome' =
       LET validation == ValidateProposal(channel.proposal, input)
       IN  IF channel.failed THEN fallbackClassificationOutcome("")
           ELSE IF ~validation.valid
           THEN fallbackClassificationOutcome(validation.reasonCode)
           ELSE OutcomeOf(channel.proposal, FALSE, "")
  /\ channel' = NoResult
  /\ pc' = "decided"
  /\ UNCHANGED <<input, provider, call, ctxDone, gate>>

(* select takes the done context, even when a result is there as well. *)
ReceiveDone ==
  /\ pc = "select" /\ ctxDone
  /\ outcome' = fallbackClassificationOutcome("")
  /\ pc' = "decided"
  /\ UNCHANGED <<input, provider, call, channel, ctxDone, gate>>

(* Reconcile: ShouldEscalate, then the registered actions. *)
GateMutNoEscalation ==
  /\ pc = "decided"
  /\ gate' = outcome.proposal.action
  /\ pc' = "done"
  /\ UNCHANGED <<input, provider, call, channel, ctxDone, outcome>>

Gate ==
  /\ pc = "decided"
  /\ gate' = IF ~outcome.proposal.safe THEN "escalated"
             ELSE IF outcome.proposal.action \in allowedExecutableActions
             THEN outcome.proposal.action
             ELSE "rejected"
  /\ pc' = "done"
  /\ UNCHANGED <<input, provider, call, channel, ctxDone, outcome>>

Classify == NotConfigured \/ StartCall \/ ReceiveResult \/ ReceiveDone \/ Gate

Done == pc = "done" /\ UNCHANGED vars

Next == Classify \/ CallStep \/ ContextDone \/ Done

Spec == Init /\ [][Next]_vars

(* The service and the goroutine run, the timer of callCtx fires and        *)
(* net/http gives up a request whose context is done; the server may never  *)
(* answer.                                                                  *)
Fairness == WF_vars(Classify) /\ WF_vars(ContextDone) /\ WF_vars(CallProceeds)

FairSpec == Spec /\ Fairness

-----------------------------------------------------------------------------
(* Properties. *)

(* The control state, the channel and what the gate decided are of their    *)
(* types, and only a call that returned has sent a result.                  *)
TypeOK ==
  /\ input \in Inputs /\ provider \in Providers
  /\ pc \in {"start", "select", "decided", "done"}
  /\ call \in {"idle", "running", "sent", "returned"}
  /\ channel # NoResult => call = "returned"
  /\ pc = "select" /\ call = "returned" => channel # NoResult
  /\ ctxDone \in BOOLEAN
  /\ pc \in {"start", "select"} <=> outcome = NoOutcome
  /\ gate \in {"", "escalated", "rejected"} \union allowedExecutableActions
  /\ pc = "done" <=> gate # ""

(* Only evidence makes the controller act: whatever the model answered, and *)
(* however the answer raced with its timeout, a dispatched restart_pod has  *)
(* transient evidence behind it and a dispatched rollout_undo a deployment  *)
(* failure together with a recent rollout.                                  *)
ActionSupported ==
  /\ gate = "restart_pod" => hasTransientFailureEvidence(input)
  /\ gate = "rollout_undo" => /\ containsAny(input, DeployEvidence)
                              /\ hasRecentDeploymentEvidence(input)

(* A proposal that is dispatched names the very Pod or Deployment of the    *)
(* incident: the action runs on the event and ignores proposal.Target.      *)
TargetIsIncident ==
  gate \in allowedExecutableActions =>
    /\ outcome.proposal.namespace = input.namespace
    /\ outcome.proposal.name = IF gate = "restart_pod" THEN input.pod ELSE input.owner

(* The fallback is itself valid: no outcome is left undecided, so the       *)
(* branch of Reconcile for an unregistered action cannot be reached with    *)
(* this classifier.  An incident whose proposal the validator refused ends  *)
(* as the fallback has it, in a restart or an escalation, and not rejected  *)
(* as docs/measurement-definitions.md:31 has it, see RefusedTakesNoAction.  *)
NeverRejected ==
  /\ gate # "rejected"
  /\ pc \in {"decided", "done"} => outcome.decision \in {"automate", "escalate"}
  /\ pc = "done" /\ outcome.reasonCode # "" =>
       gate = IF hasTransientFailureEvidence(input) THEN "restart_pod" ELSE "escalated"

(* What makes the three above inductive: a decided outcome carries a        *)
(* proposal that passes every check against this very input, and the gate   *)
(* did with it what ShouldEscalate and the registered actions say.          *)
OutcomeValidated ==
  /\ pc \in {"decided", "done"} =>
       /\ ReasonCode(outcome.proposal, input) = ""
       /\ outcome.decision = IF outcome.proposal.safe THEN "automate" ELSE "escalate"
  /\ pc = "done" => gate = IF outcome.proposal.safe THEN outcome.proposal.action
                                                   ELSE "escalated"
  /\ pc # "done" => gate = ""

(* The mock and the semantic guard agree: without a timeout, the one        *)
(* proposal of the mock that is refused is a rollout_undo for a failed      *)
(* image pull with no rollout in the evidence.                              *)
MockAgreesWithGuard ==
  provider = "mock" /\ outcome.fallback /\ ~ctxDone =>
    "image" \in input.evidence /\ ~hasRecentDeploymentEvidence(input)

(* When collection came back empty the incident escalates "rather than the  *)
(* classifier guessing from a restart count alone": no model is even asked, *)
(* and neither the mock nor the fallback nor a timeout makes it act.        *)
BlindEscalates == input.blank => call # "sent" /\ gate \in {"", "escalated"}

(* A classifier that does not answer holds up neither Reconcile nor the     *)
(* goroutine of the call, which does not stay behind when it lost the race  *)
(* with its deadline or its server never answers.                           *)
Answered ==
  /\ pc = "start" ~> pc = "done"
  /\ call \in {"running", "sent"} ~> call = "returned"

(* docs/measurement-definitions.md:31, of the outcome rejected: "The        *)
(* validator refused the proposed action - off-allowlist, malformed, or     *)
(* semantically unsupported. No action was taken."  An incident whose       *)
(* proposal was refused ends without an action.                             *)
RefusedTakesNoAction ==
  outcome.reasonCode # "" => gate \notin allowedExecutableActions

=============================================================================
