---------------------------- MODULE ModelClient -----------------------------
(***************************************************************************)
(* The clients of the language models, internal/classifier/claude.go and   *)
(* mistral.go: which incidents they send, and what they make of the HTTP   *)
(* response.  A response has a status and, when its body is JSON of the    *)
(* expected shape, a sequence of blocks: Claude's content, Mistral's       *)
(* choices.  The text of a block is blank, the JSON of a proposal (a field *)
(* that is missing there has its zero value), or something else: prose, a  *)
(* JSON value of another type, JSON cut off at max_tokens.                 *)
(*                                                                         *)
(* Token counts and costs are only reported, and left out.                 *)
(***************************************************************************)
EXTENDS Naturals, Sequences

CONSTANT NoResult  \* no proposal

ModelProviders == {"anthropic", "mistral"}

(* A client sends an incident only with a log or an Event to look at; the   *)
(* names of its Pod, namespace and container are never empty.               *)
validateIncidentInputMutNamesOnly(in) == in.pod # "" /\ in.namespace # ""

validateIncidentInput(in) == ~in.blank

-----------------------------------------------------------------------------
(* Texts, blocks and responses. *)

Blank == [kind |-> "blank", proposal |-> NoResult]

Garbled == [kind |-> "garbled", proposal |-> NoResult]

JSON(p) == [kind |-> "proposal", proposal |-> p]

(* Mistral's choices carry no type; "text" stands for it there. *)
Block(type, text) == [type |-> type, text |-> text]

Response(status, blocks) == [status |-> status, decodes |-> TRUE, blocks |-> blocks]

Undecodable(status) == [status |-> status, decodes |-> FALSE, blocks |-> <<>>]

-----------------------------------------------------------------------------
(* From the response to the result of Classify. *)

Failed == [failed |-> TRUE, proposal |-> NoResult]

(* json.Unmarshal of the chosen text into a Proposal. *)
DecodeProposal(text) ==
  IF text.kind = "proposal" THEN [failed |-> FALSE, proposal |-> text.proposal]
                            ELSE Failed

(* The first text block that is not blank, blank when there is none. *)
extractClaudeText(content) ==
  LET usable == {i \in DOMAIN content :
                   content[i].type = "text" /\ content[i].text.kind # "blank"}
  IN  IF usable = {} THEN Blank
      ELSE content[CHOOSE i \in usable : \A j \in usable : i <= j].text

(* The first choice, whatever the others say. *)
MistralText(choices) == IF choices = <<>> THEN Blank ELSE choices[1].text

ChosenText(provider, blocks) ==
  IF provider = "anthropic" THEN extractClaudeText(blocks) ELSE MistralText(blocks)

(* A status that is not 2xx, a body that does not decode, no text and a     *)
(* text that is no proposal are all errors of Classify.                     *)
ClassifyResponse(provider, response) ==
  IF response.status = "2xx" /\ response.decodes
  THEN DecodeProposal(ChosenText(provider, response.blocks))
  ELSE Failed

=============================================================================
