------------------------------ MODULE Narration -----------------------------
(***************************************************************************)
(* Tier 1 narration of one report: get_narration (narration/engine.py),    *)
(* and the report made of it: on the page by _to_query_response            *)
(* (web/app.py) and renderReport (static/app.js), on the terminal by       *)
(* format_report (cli.py).                                                 *)
(*                                                                         *)
(* A finding is its position and whether Tier 0 has a fix for it.  A text  *)
(* of the reply is the position of the item that carries it: which item a  *)
(* finding gets is the first usable one, as Extraction shows the loops     *)
(* compute.                                                                *)
(***************************************************************************)
EXTENDS Integers, Sequences, FiniteSetsExt, OllamaClient, Prompts

CONSTANTS
  MaxFindings,   \* bound on the findings of a report
  MaxItems       \* bound on the items of a reply

VARIABLES
  findings,    \* findings[k]: Tier 0 has a suggested_fix for finding k
  narrate,     \* the request asks for narration
  wire,        \* what happens on the wire, if the model is asked
  reply,       \* the model's object, when wire = "inner_dict"
  pc,
  prompt,      \* what the model is told
  reason,      \* degraded_reason
  narration,   \* the Narration, or None
  response,    \* the QueryResponse, or None
  report       \* what the page shows or the terminal prints, or None

input == <<findings, narrate, wire, reply>>
vars == <<input, pc, prompt, reason, narration, response, report>>

Indexes == DOMAIN findings
None == <<>>

(* Texts: an item's, none, and Tier 0's own summary and detail.            *)
NoItem == 0
Tier0Text == -1
TextIds == -1 .. MaxItems

FindingNarration ==
  [explanation : TextIds, explanation_source : {"model", "fallback"}, suggested_fix : TextIds]
Reasons == {"none", "client_error", "invalid_response_shape"}
FindingItem ==
  [suggested_fix : BOOLEAN, explanation : TextIds, model_suggested_fix : TextIds]

(* Item indexes run one past the findings: the hallucinated ones.          *)
Items == [finding_index : 0 .. MaxFindings, explanation : BOOLEAN, suggested_fix : BOOLEAN]
ModelReplies == [overview : BOOLEAN, findings : UNION {[1 .. n -> Items] : n \in 0 .. MaxItems}]
NoReply == [overview |-> FALSE, findings |-> <<>>]

Carriers(field, index) ==
  {j \in DOMAIN reply.findings :
     reply.findings[j].finding_index = index /\ reply.findings[j][field]}

FirstText(field, k) == IF Carriers(field, k) = {} THEN NoItem ELSE Min(Carriers(field, k))

-----------------------------------------------------------------------------

Init ==
  /\ findings \in UNION {[0 .. n - 1 -> BOOLEAN] : n \in 0 .. MaxFindings}
  /\ narrate \in BOOLEAN
  /\ wire \in Wire
  /\ reply \in IF narrate /\ wire = "inner_dict" THEN ModelReplies ELSE {NoReply}
  /\ pc = "start"
  /\ prompt = None
  /\ reason = "none"
  /\ narration = None
  /\ response = None
  /\ report = None

Goto(to) == pc' = to

Start ==
  /\ pc = "start"
  /\ IF narrate THEN prompt' = BuildPrompt(findings) /\ Goto("ask")
     ELSE UNCHANGED prompt /\ Goto("respond")
  /\ UNCHANGED <<reason, narration, response, report>>

(* Mutant: the exchange's own code is passed on as the reason.             *)
AskPassesCodeOn ==
  /\ pc = "ask"
  /\ Goto(IF ClientResult(wire) = "uncaught" THEN "raised" ELSE "narrate")
  /\ reason' = ClientResult(wire)
  /\ UNCHANGED <<prompt, narration, response, report>>

(* OllamaClientError is caught; anything else leaves get_narration.        *)
Ask ==
  /\ pc = "ask"
  /\ Goto(IF ClientResult(wire) = "uncaught" THEN "raised" ELSE "narrate")
  /\ reason' = CASE ClientResult(wire) = "client_error" -> "client_error"
                 [] ClientResult(wire) = "inner_other" -> "invalid_response_shape"
                 [] OTHER -> "none"
  /\ UNCHANGED <<prompt, narration, response, report>>

(* Without a text of the model a finding keeps Tier 0's; a fix is taken    *)
(* from the model only where Tier 0 has none.                              *)
ExplainFinding(k) ==
  LET explanation == FirstText("explanation", k)
      missing == explanation = NoItem
  IN [explanation        |-> IF missing THEN Tier0Text ELSE explanation,
      explanation_source |-> IF missing THEN "fallback" ELSE "model",
      suggested_fix      |-> IF findings[k] THEN NoItem ELSE FirstText("suggested_fix", k)]

(* Mutant: a reply that contributed nothing is not given a reason.         *)
ReasonAsRecorded(degraded) == reason

ReasonFor(degraded) ==
  IF ~degraded THEN "none" ELSE IF reason = "none" THEN "invalid_response_shape" ELSE reason

(* Degraded: neither the overview nor any explanation is the model's.      *)
Narrate ==
  /\ pc = "narrate"
  /\ LET explained == [k \in Indexes |-> ExplainFinding(k)]
         degraded == /\ ~reply.overview
                     /\ \A k \in Indexes : explained[k].explanation_source = "fallback"
     IN narration' =
          [overview_source |-> IF reply.overview THEN "model" ELSE "fallback",
           findings        |-> explained,
           degraded        |-> degraded,
           degraded_reason |-> ReasonFor(degraded)]
  /\ Goto("respond")
  /\ UNCHANGED <<prompt, reason, response, report>>

(* narration_by_index, in the response and in the terminal's report.       *)
NarrationOf(k) == IF narration = None THEN None ELSE narration.findings[k]

(* _to_query_response.                                                     *)
Respond ==
  /\ pc = "respond"
  /\ response' = [k \in Indexes |->
       LET fn == NarrationOf(k) IN
         [suggested_fix       |-> findings[k],
          explanation         |-> IF fn = None THEN NoItem ELSE fn.explanation,
          model_suggested_fix |-> IF fn = None THEN NoItem ELSE fn.suggested_fix]]
  /\ Goto("render")
  /\ UNCHANGED <<prompt, reason, narration, report>>

(* A fix card: Tier 0's own script, the model's text, or none.             *)
Card(tier0, model) == [tier0 |-> tier0, model |-> IF tier0 THEN NoItem ELSE model]

Badge(whenDegraded) ==
  IF narration = None THEN "disabled"
  ELSE IF narration.degraded THEN whenDegraded ELSE "none"

(* The page: a finding without an explanation shows its detail.            *)
RenderReport ==
  /\ pc = "render"
  /\ report' =
       [badge     |-> Badge("tier0_only"),
        explained |-> [k \in Indexes |-> IF response[k].explanation = NoItem THEN Tier0Text
                                         ELSE response[k].explanation],
        cards     |-> [k \in Indexes |-> Card(response[k].suggested_fix,
                                              response[k].model_suggested_fix)]]
  /\ Goto("shown")
  /\ UNCHANGED <<prompt, reason, narration, response>>

(* The terminal: the same from the Narration, whatever index the model     *)
(* gave.                                                                   *)
FormatReport ==
  /\ pc = "respond"
  /\ report' =
       [badge     |-> Badge("degraded"),
        explained |-> [k \in Indexes |-> IF NarrationOf(k) = None THEN NoItem
                                         ELSE NarrationOf(k).explanation],
        cards     |-> [k \in Indexes |-> Card(findings[k],
                         IF NarrationOf(k) = None THEN NoItem ELSE NarrationOf(k).suggested_fix)]]
  /\ Goto("shown")
  /\ UNCHANGED <<prompt, reason, narration, response>>

Next ==
  /\ Start \/ Ask \/ Narrate \/ Respond \/ RenderReport \/ FormatReport
  /\ UNCHANGED input

Spec == Init /\ [][Next]_vars

-----------------------------------------------------------------------------

TypeOK ==
  /\ pc \in {"start", "ask", "narrate", "respond", "render", "shown", "raised"}
  /\ reason \in Reasons
  /\ narration # None =>
       narration \in [overview_source : {"model", "fallback"}, degraded : BOOLEAN,
                      degraded_reason : Reasons, findings : [Indexes -> FindingNarration]]
  /\ response # None => response \in [Indexes -> FindingItem]

(* Whatever the model replies, the report has Tier 0's findings: each with *)
(* Tier 0's own words or an explanation the model gave under the index it  *)
(* was told for that very finding, and with a model's fix only under that  *)
(* index and where Tier 0 left the finding without one.                    *)
ReportKeepsTier0Findings ==
  pc = "shown" =>
    /\ DOMAIN report.cards = Indexes /\ DOMAIN report.explained = Indexes
    /\ \A k \in Indexes :
         LET e == report.explained[k]
             c == report.cards[k]
         IN /\ e > 0 => e \in Carriers("explanation", prompt[k].finding_index)
            /\ c.model > 0 => /\ c.model \in Carriers("suggested_fix", prompt[k].finding_index)
                              /\ ~findings[k]
            /\ c.tier0 = findings[k]

(* A degraded narration says why, and one that is not degraded does not.   *)
DegradedHasReason ==
  narration # None => (narration.degraded <=> narration.degraded_reason # "none")

=============================================================================
