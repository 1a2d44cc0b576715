----------------------------- MODULE FixProposal ----------------------------
(***************************************************************************)
(* The user-triggered second step: propose_fixes (narration/fix_engine.py),*)
(* the two validators it hands to _extract_field (db/query_safety.py), and *)
(* the cards and Copy buttons of the page (static/app.js): renderReport    *)
(* and, behind its cards, renderProposedFixes, once for every click on     *)
(* Propose Fix.  The three loops that walk a list take one step per        *)
(* element.                                                                *)
(*                                                                         *)
(* A text is told apart by what sqlglot makes of it: one SELECT, one       *)
(* CREATE INDEX, anything else it parses or rejects ("other": no or many   *)
(* statements, another statement, a ParseError), or characters its         *)
(* tokenizer raises TokenError for ("untokenizable").                      *)
(***************************************************************************)
EXTENDS Integers, Sequences, FiniteSetsExt, OllamaClient, Prompts

CONSTANTS
  MaxFindings,   \* bound on the findings of a report
  MaxItems,      \* bound on the items of a reply
  MaxRounds      \* bound on the clicks on Propose Fix

VARIABLES
  findings,    \* findings[k]: Tier 0 has a suggested_fix for finding k
  round,       \* the clicks on Propose Fix so far
  wire,        \* what happened on the wire
  reply,       \* the reply's "fixes" list, when wire = "inner_dict"
  pc,
  at,          \* the loop variable: a finding, or a position in fixes
  prompt,      \* what the model is told
  reason,      \* degraded_reason
  rewrites,    \* finding -> item whose rewritten_query was kept, or 0
  scripts,     \* finding -> item whose index_script was kept, or 0
  fixes,       \* the FindingFix list
  texts,       \* currentFixTexts of the page
  cards,       \* the fix cards on the page, top to bottom
  note         \* the note above them

vars == <<findings, round, wire, reply, pc, at, prompt, reason, rewrites, scripts, fixes,
          texts, cards, note>>
page == <<texts, cards, note>>
answer == <<round, wire, reply, prompt, reason>>

Indexes == DOMAIN findings
Fields == {"rewritten_query", "index_script"}

TextKinds == {"none", "select", "index", "other", "untokenizable"}

Items == [finding_index : 0 .. MaxFindings, rewritten_query : TextKinds, index_script : TextKinds]

FindingFix ==
  [finding_index : Indexes, rewritten_query : 0 .. MaxItems, index_script : 0 .. MaxItems]

(* validate_select_only for rewritten_query, validate_create_index_only    *)
(* for index_script: both catch ParseError and nothing else.               *)
Validator(field, kind) ==
  IF kind = "untokenizable" THEN "raises"
  ELSE IF kind = (IF field = "rewritten_query" THEN "select" ELSE "index")
       THEN "accepts"
  ELSE "rejects"

(* The items that have a text of the field for an index, by the verdict.   *)
Offered(field, index, verdict) ==
  {j \in DOMAIN reply :
     /\ reply[j].finding_index = index /\ reply[j][field] # "none"
     /\ Validator(field, reply[j][field]) = verdict}

(* _extract_field: the first accepted item, unless the validator raised    *)
(* on an item before it.                                                   *)
Kept(field, k) ==
  IF Offered(field, k, "accepts") = {} THEN 0 ELSE Min(Offered(field, k, "accepts"))

LoopRaises(field) ==
  \E k \in Indexes : \E j \in Offered(field, k, "raises") :
    \A a \in Offered(field, k, "accepts") : j < a

-----------------------------------------------------------------------------

Init ==
  /\ findings \in UNION {[0 .. n - 1 -> BOOLEAN] : n \in 0 .. MaxFindings}
  /\ round = 0 /\ wire = "unused" /\ reply = <<>>
  /\ pc = "report" /\ at = 0
  /\ prompt = <<>>
  /\ reason = "none"
  /\ rewrites = <<>> /\ scripts = <<>>
  /\ fixes = <<>>
  /\ texts = <<>> /\ cards = <<>>
  /\ note = "hidden"

Goto(to) == pc' = to

(* A text of currentFixTexts, as a user would copy it: what it is a text   *)
(* of, the finding it was written for, and its kind.                       *)
Text(field, for, kind) == [field |-> field, for |-> for, kind |-> kind]

NewCard(index, finding, field) ==
  [index |-> index, finding |-> finding, field |-> field, round |-> round]

(* fixCard: the card remembers where its text is pushed.                   *)
AddCard(finding, text) ==
  /\ texts' = Append(texts, text)
  /\ cards' = Append(cards, NewCard(Len(texts), finding, text.field))

(* renderReport: a card for Tier 0's fix, or else for the one a narration  *)
(* may have brought.  No validator reads either.                           *)
ShowFinding ==
  /\ pc = "report" /\ at \in Indexes
  /\ \/ findings[at] /\ AddCard(at, Text("suggested_fix", at, "none"))
     \/ ~findings[at] /\ AddCard(at, Text("model_suggested_fix", at, "none"))
     \/ ~findings[at] /\ UNCHANGED <<texts, cards>>
  /\ at' = at + 1
  /\ UNCHANGED <<pc, answer, rewrites, scripts, fixes, note>>

(* A click on Propose Fix: the report has the button if it has a finding,  *)
(* and has it back after every answer.                                     *)
ClickPropose ==
  /\ \/ pc = "report" /\ at \notin Indexes
     \/ pc \in {"shown", "failed"}
  /\ Indexes # {} /\ round < MaxRounds
  /\ round' = round + 1
  /\ prompt' = BuildFixPrompt(findings)
  /\ wire' = "unused" /\ reply' = <<>> /\ reason' = "none"
  /\ rewrites' = <<>> /\ scripts' = <<>> /\ fixes' = <<>>
  /\ note' = "hidden"
  /\ pc' = "ask" /\ at' = 0

(* Mutant: a new answer forgets the texts, as a new report does.           *)
StartsTextsAnew == ClickPropose /\ texts' = <<>> /\ UNCHANGED cards

(* Texts and cards of the report and of earlier answers stay.              *)
Start == ClickPropose /\ UNCHANGED <<texts, cards>>

ReasonOf(w) ==
  IF ClientResult(w) = "client_error" THEN "client_error"
  ELSE IF ClientResult(w) = "inner_other" THEN "invalid_response_shape"
  ELSE "none"

Ask ==
  /\ pc = "ask"
  /\ \E w \in Wire :
       /\ wire' = w
       /\ \/ w = "inner_dict" /\ \E n \in 0 .. MaxItems : reply' \in [1 .. n -> Items]
          \/ w # "inner_dict" /\ reply' = <<>>
       /\ Goto(IF ClientResult(w) = "uncaught" THEN "raised" ELSE "rewrites")
       /\ reason' = ReasonOf(w)
  /\ UNCHANGED <<round, at, prompt, rewrites, scripts, fixes, page>>

ExtractRewrites ==
  /\ pc = "rewrites"
  /\ IF LoopRaises("rewritten_query")
     THEN Goto("raised") /\ UNCHANGED rewrites
     ELSE /\ rewrites' = [k \in Indexes |-> Kept("rewritten_query", k)]
          /\ Goto("scripts")
  /\ UNCHANGED <<at, answer, scripts, fixes, page>>

ExtractScripts ==
  /\ pc = "scripts"
  /\ IF LoopRaises("index_script")
     THEN Goto("raised") /\ UNCHANGED <<scripts, at>>
     ELSE /\ scripts' = [k \in Indexes |-> Kept("index_script", k)]
          /\ Goto("assemble") /\ at' = 0
  /\ UNCHANGED <<answer, rewrites, fixes, page>>

(* Mutant: both kinds of fix are required.                                 *)
HasBoth(k) == ~findings[k] /\ rewrites[k] # 0 /\ scripts[k] # 0

(* Tier 0 left finding k open and the model has something usable for it.   *)
HasFix(k) == ~findings[k] /\ (rewrites[k] # 0 \/ scripts[k] # 0)

Assemble ==
  /\ pc = "assemble" /\ at \in Indexes
  /\ fixes' = IF HasFix(at)
              THEN Append(fixes, [finding_index   |-> at,
                                  rewritten_query |-> rewrites[at],
                                  index_script    |-> scripts[at]])
              ELSE fixes
  /\ at' = at + 1
  /\ UNCHANGED <<pc, answer, rewrites, scripts, page>>

(* degraded, in the response as in the FixProposal: raw is None.           *)
Degraded == ClientResult(wire) \in {"client_error", "inner_other"}

(* Mutant: an empty list of fixes is looked at before `degraded`.          *)
NoteEmptyFirst == IF fixes = <<>> THEN "nothing_new"
                  ELSE IF Degraded THEN "unavailable" ELSE "hidden"

NoteText == IF Degraded THEN "unavailable"
            ELSE IF fixes = <<>> THEN "nothing_new" ELSE "hidden"

(* The list is complete; renderProposedFixes, up to its loop.              *)
ShowNote ==
  /\ pc = "assemble" /\ at \notin Indexes
  /\ note' = NoteText
  /\ Goto(IF NoteText = "hidden" THEN "rewrite_card" ELSE "shown")
  /\ at' = 1
  /\ UNCHANGED <<answer, rewrites, scripts, fixes, texts, cards>>

(* The field's text of one item of the reply.                              *)
TextOf(j, field) == Text(field, reply[j].finding_index, reply[j][field])

(* One fix of the list: a card for each text it has.                       *)
ShowText(field) ==
  LET fix == fixes[at] IN
  IF fix[field] = 0 THEN UNCHANGED <<texts, cards>>
  ELSE AddCard(fix.finding_index, TextOf(fix[field], field))

ShowRewrite ==
  /\ pc = "rewrite_card" /\ at \in DOMAIN fixes
  /\ ShowText("rewritten_query")
  /\ Goto("script_card")
  /\ UNCHANGED <<at, answer, rewrites, scripts, fixes, note>>

ShowScript ==
  /\ pc = "script_card"
  /\ ShowText("index_script")
  /\ Goto("rewrite_card") /\ at' = at + 1
  /\ UNCHANGED <<answer, rewrites, scripts, fixes, note>>

ShowEnd ==
  /\ pc = "rewrite_card" /\ at \notin DOMAIN fixes
  /\ Goto("shown")
  /\ UNCHANGED <<at, answer, rewrites, scripts, fixes, page>>

(* The exception becomes a 500, and the page says what it read of it.      *)
ShowFailure ==
  /\ pc = "raised"
  /\ note' = "failed"
  /\ Goto("failed")
  /\ UNCHANGED <<at, answer, rewrites, scripts, fixes, texts, cards>>

Next ==
  /\ \/ ShowFinding \/ Start \/ Ask \/ ExtractRewrites \/ ExtractScripts \/ Assemble
     \/ ShowNote \/ ShowRewrite \/ ShowScript \/ ShowEnd \/ ShowFailure
  /\ UNCHANGED findings

Spec == Init /\ [][Next]_vars

-----------------------------------------------------------------------------

TypeOK ==
  /\ pc \in {"report", "ask", "rewrites", "scripts", "assemble", "rewrite_card",
             "script_card", "shown", "raised", "failed"}
  /\ round \in 0 .. MaxRounds
  /\ reason \in {"none", "client_error", "invalid_response_shape"}
  /\ \A n \in DOMAIN fixes : fixes[n] \in FindingFix
  /\ note \in {"hidden", "unavailable", "nothing_new", "failed"}

Copied(card) == texts[card.index + 1]

(* However often proposals were asked for: whatever a card's Copy button   *)
(* copies is of the card's own kind and, if the model proposed it, passed  *)
(* the validator of that kind and was given under the index the model was  *)
(* told for the card's finding, one that Tier 0 left open.                 *)
CopiedFixesAreValidated ==
  \A n \in DOMAIN cards :
    LET c == cards[n] IN
      /\ c.index + 1 \in DOMAIN texts /\ Copied(c).field = c.field
      /\ c.field = "suggested_fix" => Copied(c).for = c.finding /\ findings[c.finding]
      /\ c.field = "model_suggested_fix" =>
           Copied(c).for = c.finding /\ ~findings[c.finding]
      /\ c.field \in Fields =>
           /\ ~findings[c.finding]
           /\ Copied(c).for = prompt[c.finding].finding_index
           /\ Copied(c).kind = (IF c.field = "rewritten_query" THEN "select" ELSE "index")

(* No usable text is lost: when an answer is on the page, every finding    *)
(* Tier 0 left open that some item of the reply has a valid rewrite (or    *)
(* script) for has a card of it from this answer, and only one.            *)
NothingUsableIsLost ==
  pc = "shown" =>
    \A k \in Indexes, field \in Fields :
      (~findings[k] /\ Offered(field, k, "accepts") # {})
        => Cardinality({n \in DOMAIN cards : /\ cards[n].finding = k
                                             /\ cards[n].field = field
                                             /\ cards[n].round = round}) = 1

(* An exception leaves the call: no OllamaClientError, or a validator's.   *)
Crashes == ClientResult(wire) = "uncaught" \/ \E field \in Fields : LoopRaises(field)

(* The page's note is the truth about the last answer, whatever the ones   *)
(* before it were: "unavailable" when and only when the exchange with the  *)
(* model failed, "failed" when the call itself did, "nothing new" only     *)
(* after a reply that was read, and none when this answer added a card.    *)
NoteTellsWhatHappened ==
  pc \in {"shown", "failed"} =>
    /\ (note = "failed") <=> Crashes
    /\ (note = "unavailable") <=> (wire # "inner_dict" /\ ~Crashes)
    /\ (note = "hidden") <=> \E n \in DOMAIN cards :
                               cards[n].round = round /\ cards[n].field \in Fields

=============================================================================
