------------------------- MODULE ClassificationProofs -------------------------
(***************************************************************************)
(* Proofs about Classification, for every set of inputs and whatever a     *)
(* language model may answer.                                              *)
(***************************************************************************)
EXTENDS Classification, TLAPS

(* What the fields of a validated proposal are: its output is the trimmed   *)
(* proposal and it is valid exactly when no check names a reason.           *)
LEMMA ValidationFacts ==
  ASSUME NEW p, NEW in
  PROVE  LET v == ValidateProposal(p, in)
         IN  /\ v.output = normalizeProposal(p)
             /\ v.valid <=> ReasonCode(normalizeProposal(p), in) = ""
             /\ v.valid => v.decision = IF normalizeProposal(p).safe
                                        THEN "automate" ELSE "escalate"
BY DEF ValidateProposal

(* A safe proposal that passes the checks selects an executable action, for *)
(* the sub-cause and the target that action is allowed for, with evidence.  *)
LEMMA AutomatableFacts ==
  ASSUME NEW p, NEW in, p.safe, ReasonCode(p, in) = ""
  PROVE  /\ p.namespace = in.namespace
         /\ p.action \in allowedExecutableActions
         /\ p.action = "restart_pod" =>
              p.name = in.pod /\ hasTransientFailureEvidence(in)
         /\ p.action = "rollout_undo" =>
              /\ p.name = in.owner
              /\ containsAny(in, DeployEvidence)
              /\ hasRecentDeploymentEvidence(in)
<1>1. /\ p.namespace = in.namespace
      /\ validateAutomatableProposal(p, in) = ""
  BY DEF ReasonCode
<1>2. /\ p.action \in allowedExecutableActions
      /\ validateSemanticConsistency(p, in) = ""
  BY <1>1 DEF validateAutomatableProposal
<1>3. ASSUME p.action = "restart_pod"
      PROVE  p.name = in.pod /\ hasTransientFailureEvidence(in)
  <2>1. p.name = in.pod /\ p.subCause = "transient_failure"
    BY <1>1, <1>2, <1>3 DEF validateAutomatableProposal
  <2>2. QED
    BY <1>2, <2>1 DEF validateSemanticConsistency, hasTransientFailureEvidence
<1>4. ASSUME p.action = "rollout_undo"
      PROVE  /\ p.name = in.owner
             /\ containsAny(in, DeployEvidence)
             /\ hasRecentDeploymentEvidence(in)
  <2>1. p.name = in.owner /\ p.subCause = "bad_deploy"
    BY <1>1, <1>2, <1>4 DEF validateAutomatableProposal
  <2>2. QED
    BY <1>2, <2>1 DEF validateSemanticConsistency
<1>5. QED
  BY <1>1, <1>2, <1>3, <1>4

(* The package's own values and the incident's names survive trimming.      *)
LEMMA TrimFacts ==
  ASSUME NEW in \in Inputs
  PROVE  /\ \A s \in OwnValues : TrimSpace(s) = s
         /\ TrimSpace(in.pod) = in.pod
         /\ TrimSpace(in.namespace) = in.namespace
         /\ in.pod # "" /\ in.namespace # ""
BY PaddedAssumption, InputsAssumption DEF TrimSpace

(* An escalation for an allowed sub-cause is valid for every input.         *)
LEMMA EscalationIsValid ==
  ASSUME NEW in \in Inputs, NEW c \in allowedSubCauses
  PROVE  ReasonCode(normalizeProposal(escalationProposal(in, c)), in) = ""
<1>1. /\ \A s \in OwnValues : TrimSpace(s) = s
      /\ TrimSpace(in.pod) = in.pod /\ TrimSpace(in.namespace) = in.namespace
      /\ in.pod # "" /\ in.namespace # ""
  BY TrimFacts
<1>2. {c, "escalate_to_human", "Pod", "given"} \subseteq OwnValues
  BY DEF OwnValues, allowedResponseActions
<1>3. normalizeProposal(escalationProposal(in, c)) = escalationProposal(in, c)
  BY <1>1, <1>2 DEF normalizeProposal, escalationProposal
<1>4. validateEscalationProposal(escalationProposal(in, c), in) = ""
  BY DEF validateEscalationProposal, escalationProposal
<1>5. ReasonCode(escalationProposal(in, c), in) = ""
  BY <1>1, <1>4 DEF ReasonCode, escalationProposal, allowedResponseActions
<1>6. QED
  BY <1>3, <1>5

(* A restart with transient evidence is valid.                              *)
LEMMA RestartIsValid ==
  ASSUME NEW in \in Inputs, hasTransientFailureEvidence(in)
  PROVE  ReasonCode(normalizeProposal(restartProposal(in)), in) = ""
<1>1. /\ \A s \in OwnValues : TrimSpace(s) = s
      /\ TrimSpace(in.pod) = in.pod /\ TrimSpace(in.namespace) = in.namespace
      /\ in.pod # "" /\ in.namespace # ""
  BY TrimFacts
<1>2. {"transient_failure", "restart_pod", "Pod", "given"} \subseteq OwnValues
  BY DEF OwnValues, allowedSubCauses, allowedResponseActions, allowedExecutableActions
<1>3. normalizeProposal(restartProposal(in)) = restartProposal(in)
  BY <1>1, <1>2 DEF normalizeProposal, restartProposal
<1>4. validateAutomatableProposal(restartProposal(in), in) = ""
  BY DEF validateAutomatableProposal, validateSemanticConsistency,
         restartProposal, allowedExecutableActions, hasTransientFailureEvidence
<1>5. ReasonCode(restartProposal(in), in) = ""
  BY <1>1, <1>4 DEF ReasonCode, restartProposal, allowedSubCauses,
                    allowedResponseActions, allowedExecutableActions
<1>6. QED
  BY <1>3, <1>5

(* A rollback is valid with evidence of a failed deployment and a rollout,  *)
(* and without an owner it is an escalation, which is valid anyway.         *)
LEMMA UndoIsValid ==
  ASSUME NEW in \in Inputs, containsAny(in, DeployEvidence),
         hasRecentDeploymentEvidence(in)
  PROVE  ReasonCode(normalizeProposal(undoProposal(in)), in) = ""
<1>1. /\ \A s \in OwnValues : TrimSpace(s) = s
      /\ TrimSpace(in.pod) = in.pod /\ TrimSpace(in.namespace) = in.namespace
      /\ in.pod # "" /\ in.namespace # ""
  BY TrimFacts
<1>2. CASE TrimSpace(in.owner) = ""
  BY <1>2, EscalationIsValid DEF undoProposal, allowedSubCauses
<1>3. CASE TrimSpace(in.owner) # ""
  <2>1. TrimSpace(in.owner) = in.owner
    BY InputsAssumption DEF TrimSpace
  <2>2. {"bad_deploy", "rollout_undo", "Deployment", "given"} \subseteq OwnValues
    BY DEF OwnValues, allowedSubCauses, allowedResponseActions, allowedExecutableActions
  <2>3. normalizeProposal(undoProposal(in)) = undoProposal(in)
    BY <1>1, <1>3, <2>1, <2>2 DEF normalizeProposal, undoProposal
  <2>4. validateAutomatableProposal(undoProposal(in), in) = ""
    BY <1>3, <2>1 DEF validateAutomatableProposal, validateSemanticConsistency,
                      undoProposal, allowedExecutableActions
  <2>5. ReasonCode(undoProposal(in), in) = ""
    BY <1>1, <1>3, <2>1, <2>4 DEF ReasonCode, undoProposal, allowedSubCauses,
                                  allowedResponseActions, allowedExecutableActions
  <2>6. QED
    BY <2>3, <2>5
<1>4. QED
  BY <1>2, <1>3

(* buildSafeFallback is valid for every input: restart_pod only with the    *)
(* transient evidence the semantic guard asks for, else an escalation.      *)
LEMMA FallbackIsValid ==
  ASSUME NEW in \in Inputs
  PROVE  ReasonCode(normalizeProposal(buildSafeFallback(in)), in) = ""
BY EscalationIsValid, RestartIsValid DEF buildSafeFallback, allowedSubCauses

(* The only proposal of the mock that is refused is the rollback for a      *)
(* failed image pull with no rollout in the evidence.                       *)
LEMMA MockIsValid ==
  ASSUME NEW in \in Inputs, ~("image" \in in.evidence /\ ~hasRecentDeploymentEvidence(in))
  PROVE  ReasonCode(normalizeProposal(MockClassify(in)), in) = ""
<1> DEFINE Passes(p) == ReasonCode(normalizeProposal(p), in) = ""
<1>1. \A c \in {"oom_adjacent", "bad_config", "application_panic", "unknown"} :
        Passes(escalationProposal(in, c))
  BY EscalationIsValid DEF allowedSubCauses
<1>2. "connect" \in in.evidence => Passes(restartProposal(in))
  BY RestartIsValid DEF hasTransientFailureEvidence, containsAny, TransientEvidence
<1>3. "image" \in in.evidence => Passes(undoProposal(in))
  BY UndoIsValid DEF containsAny, DeployEvidence
<1>4. "backoff" \in in.evidence /\ hasRecentDeploymentEvidence(in) => Passes(undoProposal(in))
  BY UndoIsValid DEF containsAny, DeployEvidence
<1> HIDE DEF Passes
<1>5. Passes(MockClassify(in))
  BY <1>1, <1>2, <1>3, <1>4 DEF MockClassify
<1>6. QED
  BY <1>5 DEF Passes

-----------------------------------------------------------------------------
(* The inductive invariant. *)
DecisionInv == input \in Inputs /\ OutcomeValidated

(* A valid proposal makes a validated outcome. *)
LEMMA OutcomeOfValid ==
  ASSUME NEW p, NEW f, NEW c, ReasonCode(normalizeProposal(p), input) = ""
  PROVE  LET o == OutcomeOf(p, f, c)
         IN  /\ ReasonCode(o.proposal, input) = ""
             /\ o.decision = IF o.proposal.safe THEN "automate" ELSE "escalate"
<1>1. /\ OutcomeOf(p, f, c).proposal = normalizeProposal(p)
      /\ OutcomeOf(p, f, c).decision = ValidateProposal(p, input).decision
  BY ValidationFacts DEF OutcomeOf
<1>2. ValidateProposal(p, input).decision =
        IF normalizeProposal(p).safe THEN "automate" ELSE "escalate"
  BY ValidationFacts
<1>3. QED
  BY <1>1, <1>2

(* Every step keeps the input and leaves a validated outcome. *)
LEMMA DecisionStep == DecisionInv /\ [Next]_vars => DecisionInv'
<1> SUFFICES ASSUME DecisionInv, [Next]_vars PROVE DecisionInv'
  OBVIOUS
<1>1. input \in Inputs /\ OutcomeValidated
  BY DEF DecisionInv
<1> DEFINE Valid(o) == /\ ReasonCode(o.proposal, input) = ""
                       /\ o.decision = IF o.proposal.safe THEN "automate" ELSE "escalate"
<1>2. \A c : Valid(fallbackClassificationOutcome(c))
  BY <1>1, FallbackIsValid, OutcomeOfValid DEF fallbackClassificationOutcome
<1>3. ASSUME pc # "done", input' = input, pc' = "decided", gate' = gate, Valid(outcome')
      PROVE  DecisionInv'
  <2>1. gate = ""
    BY <1>1, <1>3 DEF OutcomeValidated
  <2>2. QED
    BY <1>1, <1>3, <2>1 DEF DecisionInv, OutcomeValidated
<1>4. CASE NotConfigured
  BY <1>2, <1>3, <1>4 DEF NotConfigured
<1>5. CASE ReceiveDone
  BY <1>2, <1>3, <1>5 DEF ReceiveDone
<1>6. CASE ReceiveResult
  <2>1. CASE channel.failed \/ ~ValidateProposal(channel.proposal, input).valid
    BY <1>2, <1>3, <1>6, <2>1 DEF ReceiveResult
  <2>2. CASE ~(channel.failed \/ ~ValidateProposal(channel.proposal, input).valid)
    <3>1. ReasonCode(normalizeProposal(channel.proposal), input) = ""
      BY <2>2, ValidationFacts
    <3>2. \A f, c : Valid(OutcomeOf(channel.proposal, f, c))
      BY <3>1, OutcomeOfValid
    <3>3. outcome' = OutcomeOf(channel.proposal, FALSE, "")
      BY <1>6, <2>2 DEF ReceiveResult
    <3>4. QED
      BY <1>3, <1>6, <3>2, <3>3 DEF ReceiveResult
  <2>3. QED
    BY <2>1, <2>2
<1>7. CASE Gate
  <2>1. Valid(outcome) /\ outcome' = outcome /\ input' = input /\ pc' = "done"
    BY <1>1, <1>7 DEF Gate, OutcomeValidated
  <2>2. outcome.proposal.safe => outcome.proposal.action \in allowedExecutableActions
    BY <2>1, AutomatableFacts
  <2>3. gate' = IF outcome.proposal.safe THEN outcome.proposal.action ELSE "escalated"
    BY <1>7, <2>2 DEF Gate
  <2>4. QED
    BY <1>1, <2>1, <2>3 DEF DecisionInv, OutcomeValidated
<1>8. CASE StartCall
  BY <1>1, <1>8 DEF StartCall, DecisionInv, OutcomeValidated
<1>9. CASE CallStep \/ ContextDone \/ Done \/ UNCHANGED vars
  <2>1. UNCHANGED <<input, pc, outcome, gate>>
    BY <1>9 DEF CallStep, CallProceeds, MockReturns, InputRefused, SendRequest,
                RequestAborted, ServerAnswers, Returns, ContextDone, Done, vars
  <2>2. QED
    BY <1>1, <2>1 DEF DecisionInv, OutcomeValidated
<1>10. QED
  BY <1>4, <1>5, <1>6, <1>7, <1>8, <1>9 DEF Next, Classify

(* The decided outcome is always validated, whatever was answered and when. *)
THEOREM OutcomesAreValidated == Spec => []DecisionInv
<1>1. Init => DecisionInv
  BY DEF Init, DecisionInv, OutcomeValidated
<1>2. QED
  BY <1>1, DecisionStep, PTL DEF Spec

(* What stands in for a refused proposal is the fallback. *)
RefusedIsReplaced ==
  outcome.reasonCode # "" => outcome.proposal = normalizeProposal(buildSafeFallback(input))

LEMMA RefusedStep == RefusedIsReplaced /\ [Next]_vars => RefusedIsReplaced'
<1> SUFFICES ASSUME RefusedIsReplaced, [Next]_vars PROVE RefusedIsReplaced'
  OBVIOUS
<1>1. \A p, f, c : /\ OutcomeOf(p, f, c).reasonCode = c
                   /\ OutcomeOf(p, f, c).proposal = normalizeProposal(p)
  BY ValidationFacts DEF OutcomeOf
<1>2. \A c : /\ fallbackClassificationOutcome(c).reasonCode = c
             /\ fallbackClassificationOutcome(c).proposal =
                  normalizeProposal(buildSafeFallback(input))
  BY <1>1 DEF fallbackClassificationOutcome
<1>3. CASE /\ input' = input
           /\ \/ \E c : outcome' = fallbackClassificationOutcome(c)
              \/ \E p, f : outcome' = OutcomeOf(p, f, "")
  <2>1. \/ outcome'.reasonCode = ""
        \/ outcome'.proposal = normalizeProposal(buildSafeFallback(input))
    <3>1. CASE \E c : outcome' = fallbackClassificationOutcome(c)
      BY <1>2, <3>1
    <3>2. CASE \E p, f : outcome' = OutcomeOf(p, f, "")
      <4>1. PICK p, f : outcome' = OutcomeOf(p, f, "")
        BY <3>2
      <4>2. OutcomeOf(p, f, "").reasonCode = ""
        BY DEF OutcomeOf
      <4>3. QED
        BY <4>1, <4>2
    <3>3. QED
      BY <1>3, <3>1, <3>2
  <2>2. buildSafeFallback(input') = buildSafeFallback(input)
    BY <1>3
  <2>3. QED
    BY <1>3, <2>1, <2>2 DEF RefusedIsReplaced
<1>4. CASE UNCHANGED <<input, outcome>>
  BY <1>4 DEF RefusedIsReplaced
<1>5. CASE NotConfigured \/ ReceiveDone
  BY <1>3, <1>5 DEF NotConfigured, ReceiveDone
<1>6. CASE ReceiveResult
  <2>1. input' = input
    BY <1>6 DEF ReceiveResult
  <2>2. \/ \E c : outcome' = fallbackClassificationOutcome(c)
        \/ \E p, f : outcome' = OutcomeOf(p, f, "")
    BY <1>6 DEF ReceiveResult
  <2>3. QED
    BY <1>3, <2>1, <2>2
<1>7. CASE StartCall \/ Gate \/ CallStep \/ ContextDone \/ Done \/ UNCHANGED vars
  <2>1. UNCHANGED <<input, outcome>>
    BY <1>7 DEF StartCall, Gate, CallStep, CallProceeds, MockReturns, InputRefused,
                SendRequest, RequestAborted, ServerAnswers, Returns, ContextDone, Done, vars
  <2>2. QED
    BY <1>4, <2>1
<1>8. QED
  BY <1>5, <1>6, <1>7 DEF Next, Classify

(* What the gate does with the fallback: restart_pod with transient         *)
(* evidence, else an escalation.                                            *)
LEMMA FallbackAction ==
  ASSUME NEW in \in Inputs
  PROVE  LET p == normalizeProposal(buildSafeFallback(in))
         IN  IF hasTransientFailureEvidence(in)
             THEN p.safe /\ p.action = "restart_pod" ELSE ~p.safe
<1>1. TrimSpace("restart_pod") = "restart_pod"
  BY TrimFacts DEF OwnValues, allowedResponseActions, allowedExecutableActions
<1>2. QED
  BY <1>1 DEF normalizeProposal, buildSafeFallback, restartProposal, escalationProposal

(* No answer of a model makes the controller act without the evidence the   *)
(* semantic guard requires.                                                 *)
THEOREM ActionsAreSupported == Spec => []ActionSupported
<1>1. DecisionInv => ActionSupported
  <2> SUFFICES ASSUME DecisionInv PROVE ActionSupported
    OBVIOUS
  <2>1. ASSUME gate \in {"restart_pod", "rollout_undo"}
        PROVE  /\ outcome.proposal.safe /\ gate = outcome.proposal.action
               /\ ReasonCode(outcome.proposal, input) = ""
    BY <2>1 DEF DecisionInv, OutcomeValidated
  <2>2. QED
    BY <2>1, AutomatableFacts DEF ActionSupported
<1>2. QED
  BY <1>1, OutcomesAreValidated, PTL

(* ... nor on anything but the Pod or the Deployment of the incident.       *)
THEOREM TargetsAreIncidents == Spec => []TargetIsIncident
<1>1. DecisionInv => TargetIsIncident
  <2> SUFFICES ASSUME DecisionInv, gate \in allowedExecutableActions
               PROVE  /\ outcome.proposal.namespace = input.namespace
                      /\ outcome.proposal.name =
                           IF gate = "restart_pod" THEN input.pod ELSE input.owner
    BY DEF TargetIsIncident
  <2>1. gate \in {"restart_pod", "rollout_undo"}
    BY DEF allowedExecutableActions
  <2>2. /\ outcome.proposal.safe /\ gate = outcome.proposal.action
        /\ ReasonCode(outcome.proposal, input) = ""
    BY <2>1 DEF DecisionInv, OutcomeValidated
  <2>3. QED
    BY <2>1, <2>2, AutomatableFacts
<1>2. QED
  BY <1>1, OutcomesAreValidated, PTL

(* The rejected branch of Reconcile cannot be reached, and a refused        *)
(* proposal ends in what the fallback proposes instead.                     *)
THEOREM RejectionIsUnreachable == Spec => []NeverRejected
<1>1. DecisionInv /\ RefusedIsReplaced => NeverRejected
  <2> SUFFICES ASSUME DecisionInv, RefusedIsReplaced PROVE NeverRejected
    OBVIOUS
  <2>1. gate # "rejected"
    <3>1. CASE pc # "done"
      BY <3>1 DEF DecisionInv, OutcomeValidated
    <3>2. CASE pc = "done" /\ outcome.proposal.safe
      <4>1. gate = outcome.proposal.action /\ ReasonCode(outcome.proposal, input) = ""
        BY <3>2 DEF DecisionInv, OutcomeValidated
      <4>2. outcome.proposal.action \in allowedExecutableActions
        BY <3>2, <4>1, AutomatableFacts
      <4>3. QED
        BY <4>1, <4>2 DEF allowedExecutableActions
    <3>3. CASE pc = "done" /\ ~outcome.proposal.safe
      BY <3>3 DEF DecisionInv, OutcomeValidated
    <3>4. QED
      BY <3>1, <3>2, <3>3
  <2>2. pc \in {"decided", "done"} => outcome.decision \in {"automate", "escalate"}
    BY DEF DecisionInv, OutcomeValidated
  <2>3. ASSUME pc = "done", outcome.reasonCode # ""
        PROVE  gate = IF hasTransientFailureEvidence(input)
                      THEN "restart_pod" ELSE "escalated"
    <3>1. input \in Inputs /\ outcome.proposal = normalizeProposal(buildSafeFallback(input))
      BY <2>3 DEF DecisionInv, RefusedIsReplaced
    <3>2. gate = IF outcome.proposal.safe THEN outcome.proposal.action ELSE "escalated"
      BY <2>3 DEF DecisionInv, OutcomeValidated
    <3>3. QED
      BY <3>1, <3>2, FallbackAction
  <2>4. QED
    BY <2>1, <2>2, <2>3 DEF NeverRejected
<1>2. Init => RefusedIsReplaced
  <2>1. NoOutcome.reasonCode = ""
    BY DEF NoOutcome
  <2>2. QED
    BY <2>1 DEF Init, RefusedIsReplaced
<1>3. Spec => []RefusedIsReplaced
  BY <1>2, RefusedStep, PTL DEF Spec
<1>4. QED
  BY <1>1, <1>3, OutcomesAreValidated, PTL

-----------------------------------------------------------------------------
(* The call and its channel. *)

(* Nothing is called before the start, only a model's client sends a        *)
(* request, and what waits for the select is the mock's own proposal unless *)
(* its context was done.                                                    *)
CallOrder ==
  /\ pc = "start" => call = "idle"
  /\ call = "sent" => provider \in ModelProviders
  /\ provider = "mock" /\ channel # NoResult /\ pc = "select" /\ ~ctxDone =>
       channel = [failed |-> FALSE, proposal |-> MockClassify(input)]

(* No model is asked about an incident without evidence.                    *)
NotAsked == input.blank => call # "sent"

CallInv == DecisionInv /\ TypeOK /\ CallOrder /\ NotAsked /\ MockAgreesWithGuard

(* The fields of an outcome.                                                *)
LEMMA OutcomeFields ==
  ASSUME NEW p, NEW f, NEW c, ReasonCode(normalizeProposal(p), input) = ""
  PROVE  OutcomeOf(p, f, c).fallback = f /\ OutcomeOf(p, f, c) # NoOutcome
<1>1. OutcomeOf(p, f, c).fallback = f
  BY DEF OutcomeOf
<1>2. OutcomeOf(p, f, c).decision # ""
  BY OutcomeOfValid
<1>3. NoOutcome.decision = ""
  BY DEF NoOutcome
<1>4. QED
  BY <1>1, <1>2, <1>3

(* The goroutine sends a result and returns.                                *)
LEMMA ReturnsStep ==
  ASSUME CallInv, NEW result \in Results, Returns(result), call \in {"running", "sent"},
         provider = "mock" => \/ CallCtxDone
                              \/ result = [failed |-> FALSE, proposal |-> MockClassify(input)]
  PROVE  CallInv'
<1>1. /\ channel' = result /\ channel' # NoResult /\ call' = "returned"
      /\ UNCHANGED <<input, provider, pc, ctxDone, outcome, gate>>
  BY NoResultAssumption DEF Returns
<1>2. DecisionInv'
  BY <1>1 DEF CallInv, DecisionInv, OutcomeValidated
<1>3. TypeOK'
  BY <1>1 DEF CallInv, TypeOK
<1>4. pc # "start"
  BY DEF CallInv, CallOrder
<1>5. CallOrder'
  BY <1>1, <1>4 DEF CallOrder, CallCtxDone
<1>6. NotAsked' /\ MockAgreesWithGuard'
  BY <1>1 DEF CallInv, NotAsked, MockAgreesWithGuard, hasRecentDeploymentEvidence, containsAny
<1>7. QED
  BY <1>2, <1>3, <1>5, <1>6 DEF CallInv

(* ClassifyAndValidate returns an outcome: a fallback of the mock only when *)
(* the context was done or the mock's own proposal was refused.             *)
LEMMA DecideStep ==
  ASSUME CallInv, DecisionInv', pc = "start" \/ pc = "select", pc' = "decided",
         UNCHANGED <<input, provider, call, ctxDone, gate>>,
         channel' = channel \/ channel' = NoResult, outcome' # NoOutcome,
         provider = "mock" /\ outcome'.fallback /\ ~ctxDone =>
           "image" \in input.evidence /\ ~hasRecentDeploymentEvidence(input)
  PROVE  CallInv'
<1>1. TypeOK'
  BY DEF CallInv, TypeOK
<1>2. CallOrder' /\ NotAsked'
  BY DEF CallInv, CallOrder, NotAsked
<1>3. MockAgreesWithGuard'
  BY DEF MockAgreesWithGuard, hasRecentDeploymentEvidence, containsAny
<1>4. QED
  BY <1>1, <1>2, <1>3 DEF CallInv

LEMMA CallInvStep == CallInv /\ [Next]_vars => CallInv'
<1> SUFFICES ASSUME CallInv, [Next]_vars PROVE CallInv'
  OBVIOUS
<1>1. DecisionInv /\ TypeOK /\ CallOrder /\ NotAsked /\ MockAgreesWithGuard /\ DecisionInv'
  BY DecisionStep DEF CallInv
<1>2. /\ input \in Inputs /\ \A c : fallbackClassificationOutcome(c) # NoOutcome
      /\ ReasonCode(normalizeProposal(buildSafeFallback(input)), input) = ""
  <2>1. input \in Inputs
    BY <1>1 DEF DecisionInv
  <2>2. ReasonCode(normalizeProposal(buildSafeFallback(input)), input) = ""
    BY <2>1, FallbackIsValid
  <2>3. QED
    BY <2>1, <2>2, OutcomeFields DEF fallbackClassificationOutcome
<1>3. CASE NotConfigured
  <2>1. /\ pc = "start" /\ pc' = "decided" /\ channel' = channel
        /\ UNCHANGED <<input, provider, call, ctxDone, gate>> /\ provider # "mock"
        /\ outcome' = fallbackClassificationOutcome("")
    BY <1>3 DEF NotConfigured
  <2>2. QED
    BY <1>1, <1>2, <2>1, DecideStep
<1>4. CASE ReceiveDone
  <2>1. /\ pc = "select" /\ pc' = "decided" /\ channel' = channel /\ ctxDone
        /\ UNCHANGED <<input, provider, call, ctxDone, gate>>
        /\ outcome' = fallbackClassificationOutcome("")
    BY <1>4 DEF ReceiveDone
  <2>2. QED
    BY <1>1, <1>2, <2>1, DecideStep
<1>5. CASE ReceiveResult
  <2>1. /\ pc = "select" /\ pc' = "decided" /\ channel' = NoResult /\ channel # NoResult
        /\ UNCHANGED <<input, provider, call, ctxDone, gate>>
    BY <1>5 DEF ReceiveResult
  <2>2. CASE channel.failed \/ ~ValidateProposal(channel.proposal, input).valid
    <3>1. PICK c : outcome' = fallbackClassificationOutcome(c)
      BY <1>5, <2>2 DEF ReceiveResult
    <3>2. ASSUME provider = "mock", ~ctxDone
          PROVE  "image" \in input.evidence /\ ~hasRecentDeploymentEvidence(input)
      <4>1. ~channel.failed /\ channel.proposal = MockClassify(input)
        BY <1>1, <2>1, <3>2 DEF CallOrder
      <4>2. ReasonCode(normalizeProposal(MockClassify(input)), input) # ""
        BY <2>2, <4>1, ValidationFacts
      <4>3. QED
        BY <1>2, <4>2, MockIsValid
    <3>3. QED
      BY <1>1, <1>2, <2>1, <3>1, <3>2, DecideStep
  <2>3. CASE ~(channel.failed \/ ~ValidateProposal(channel.proposal, input).valid)
    <3>1. outcome' = OutcomeOf(channel.proposal, FALSE, "")
      BY <1>5, <2>3 DEF ReceiveResult
    <3>2. ReasonCode(normalizeProposal(channel.proposal), input) = ""
      BY <2>3, ValidationFacts
    <3>3. outcome' # NoOutcome /\ ~outcome'.fallback
      BY <3>1, <3>2, OutcomeFields
    <3>4. QED
      BY <1>1, <2>1, <3>3, DecideStep
  <2>4. QED
    BY <2>2, <2>3
<1>6. CASE Gate
  <2>1. /\ pc = "decided" /\ pc' = "done" /\ gate' # ""
        /\ gate' \in {"escalated", "rejected"} \union allowedExecutableActions
        /\ UNCHANGED <<input, provider, call, channel, ctxDone, outcome>>
    BY <1>6 DEF Gate, allowedExecutableActions
  <2>2. TypeOK'
    BY <1>1, <2>1 DEF TypeOK
  <2>3. CallOrder' /\ NotAsked' /\ MockAgreesWithGuard'
    BY <1>1, <2>1 DEF CallOrder, NotAsked, MockAgreesWithGuard,
                      hasRecentDeploymentEvidence, containsAny
  <2>4. QED
    BY <1>1, <2>2, <2>3 DEF CallInv
<1>7. CASE StartCall
  <2>1. /\ pc = "start" /\ pc' = "select" /\ call' = "running" /\ call = "idle"
        /\ UNCHANGED <<input, provider, channel, ctxDone, outcome, gate>>
    BY <1>1, <1>7 DEF StartCall, CallOrder
  <2>2. TypeOK' /\ channel = NoResult
    BY <1>1, <2>1 DEF TypeOK
  <2>3. CallOrder' /\ NotAsked' /\ MockAgreesWithGuard'
    BY <1>1, <2>1, <2>2 DEF CallOrder, NotAsked, MockAgreesWithGuard,
                            hasRecentDeploymentEvidence, containsAny
  <2>4. QED
    BY <1>1, <2>2, <2>3 DEF CallInv
<1>8. CASE SendRequest
  <2>1. /\ call = "running" /\ call' = "sent" /\ ~input.blank /\ provider \in ModelProviders
        /\ UNCHANGED <<input, provider, pc, channel, ctxDone, outcome, gate>>
    BY <1>8 DEF SendRequest, validateIncidentInput
  <2>2. TypeOK' /\ pc # "start"
    BY <1>1, <2>1 DEF TypeOK, CallOrder
  <2>3. CallOrder' /\ NotAsked' /\ MockAgreesWithGuard'
    BY <1>1, <2>1, <2>2 DEF CallOrder, NotAsked, MockAgreesWithGuard,
                            hasRecentDeploymentEvidence, containsAny
  <2>4. QED
    BY <1>1, <2>2, <2>3 DEF CallInv
<1>9. CASE MockReturns
  <2>1. call = "running"
    BY <1>9 DEF MockReturns
  <2>2. CASE Returns([failed |-> FALSE, proposal |-> MockClassify(input)])
    <3>1. [failed |-> FALSE, proposal |-> MockClassify(input)] \in Results
      <4> DEFINE R(in) == [failed |-> FALSE, proposal |-> MockClassify(in)]
                 Mocked == {R(in) : in \in Inputs}
      <4>1. R(input) \in Mocked
        BY <1>2
      <4> HIDE DEF R
      <4>2. Mocked \subseteq Results
        BY DEF Results, R
      <4>3. QED
        BY <4>1, <4>2 DEF R
    <3>2. QED
      BY <2>1, <2>2, <3>1, ReturnsStep
  <2>3. CASE CallCtxDone /\ Returns(Failed)
    BY <2>1, <2>3, ReturnsStep DEF Results
  <2>4. QED
    BY <1>9, <2>2, <2>3 DEF MockReturns
<1>10. CASE InputRefused
  <2>1. call = "running" /\ provider # "mock" /\ Returns(Failed)
    BY <1>10 DEF InputRefused, ModelProviders
  <2>2. QED
    BY <2>1, ReturnsStep DEF Results
<1>11. CASE RequestAborted
  BY <1>11, ReturnsStep DEF RequestAborted, Results
<1>12. CASE ServerAnswers
  <2>1. call = "sent" /\ provider \in ModelProviders /\ provider # "mock"
    BY <1>1, <1>12 DEF ServerAnswers, CallOrder, ModelProviders
  <2>2. ASSUME NEW response \in Responses, Returns(ClassifyResponse(provider, response))
        PROVE  CallInv'
    <3>1. ClassifyResponse(provider, response) \in Results
      BY <2>1 DEF Results
    <3>2. QED
      BY <2>1, <2>2, <3>1, ReturnsStep
  <2>3. CASE Returns(Failed)
    BY <2>1, <2>3, ReturnsStep DEF Results
  <2>4. QED
    BY <1>12, <2>2, <2>3 DEF ServerAnswers
<1>13. CASE ContextDone
  <2>1. ctxDone' = TRUE /\ UNCHANGED <<input, provider, pc, call, channel, outcome, gate>>
    BY <1>13 DEF ContextDone
  <2>2. TypeOK' /\ CallOrder' /\ NotAsked' /\ MockAgreesWithGuard'
    BY <1>1, <2>1 DEF TypeOK, CallOrder, NotAsked, MockAgreesWithGuard
  <2>3. QED
    BY <1>1, <2>2 DEF CallInv
<1>14. CASE Done \/ UNCHANGED vars
  <2>1. UNCHANGED <<input, provider, pc, call, channel, ctxDone, outcome, gate>>
    BY <1>14 DEF Done, vars
  <2>2. TypeOK' /\ CallOrder' /\ NotAsked' /\ MockAgreesWithGuard'
    BY <1>1, <2>1 DEF TypeOK, CallOrder, NotAsked, MockAgreesWithGuard,
                      hasRecentDeploymentEvidence, containsAny
  <2>3. QED
    BY <1>1, <2>2 DEF CallInv
<1>15. QED
  BY <1>3, <1>4, <1>5, <1>6, <1>7, <1>8, <1>9, <1>10, <1>11, <1>12, <1>13, <1>14
     DEF Next, Classify, CallStep, CallProceeds

(* The call, its channel and the decision keep their order.                 *)
THEOREM CallInvariant == Spec => []CallInv
<1>1. Init => CallInv
  <2> SUFFICES ASSUME Init PROVE CallInv
    OBVIOUS
  <2>1. DecisionInv /\ CallOrder /\ NotAsked /\ MockAgreesWithGuard
    BY DEF Init, DecisionInv, OutcomeValidated, CallOrder, NotAsked, MockAgreesWithGuard,
           NoOutcome
  <2>2. TypeOK
    BY DEF Init, TypeOK
  <2>3. QED
    BY <2>1, <2>2 DEF CallInv
<1>2. QED
  BY <1>1, CallInvStep, PTL DEF Spec

(* Only a call that returned has sent a result, a call that returned before *)
(* the select is waiting in the channel, and nothing is decided twice.      *)
THEOREM TypeCorrect == Spec => []TypeOK
<1>1. CallInv => TypeOK
  BY DEF CallInv
<1>2. QED
  BY <1>1, CallInvariant, PTL

(* The one proposal of the mock the guard refuses, whatever the evidence.   *)
THEOREM MockAgrees == Spec => []MockAgreesWithGuard
<1>1. CallInv => MockAgreesWithGuard
  BY DEF CallInv
<1>2. QED
  BY <1>1, CallInvariant, PTL

(* An incident without evidence is never sent to a model and never acted on. *)
THEOREM BlindIsEscalated == Spec => []BlindEscalates
<1>1. CallInv /\ ActionSupported /\ NeverRejected => BlindEscalates
  <2> SUFFICES ASSUME CallInv, ActionSupported, NeverRejected, input.blank
               PROVE  call # "sent" /\ gate \in {"", "escalated"}
    BY DEF BlindEscalates
  <2>1. input \in Inputs /\ call # "sent"
    BY DEF CallInv, DecisionInv, NotAsked
  <2>2. input.evidence = {}
    BY <2>1, InputsAssumption
  <2>3. gate \notin {"restart_pod", "rollout_undo"}
    BY <2>2 DEF ActionSupported, hasTransientFailureEvidence, containsAny
  <2>4. QED
    BY <2>1, <2>3 DEF CallInv, TypeOK, NeverRejected, allowedExecutableActions
<1>2. QED
  BY <1>1, CallInvariant, ActionsAreSupported, RejectionIsUnreachable, PTL

=============================================================================
