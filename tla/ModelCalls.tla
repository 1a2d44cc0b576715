----------------------------- MODULE ModelCalls -----------------------------
(***************************************************************************)
(* What depends on a reply of the local model: get_narration, which        *)
(* explains a report's findings; propose_fixes, which the user asks for    *)
(* afterwards and which reads the findings from the cached result, never   *)
(* the narration; and the loop with which both read the reply's list,      *)
(* which they take for what Extraction shows it to compute.                *)
(***************************************************************************)
EXTENDS Extraction

CONSTANTS
  MaxFindings, MaxItems,   \* bounds on a report and on a reply
  MaxRounds                \* bound on the proposals asked for of one report

ASSUME BoundsAreNat == MaxFindings \in Nat /\ MaxItems \in Nat /\ MaxRounds \in Nat

VARIABLES
  call,                                                \* which of the three
  findings, wire, reply, pc, prompt, reason,           \* what both calls have
  narrate, narration, response, report,                \* get_narration's own
  round, at, rewrites, scripts, fixes, texts, cards, note   \* propose_fixes' own

N == INSTANCE Narration
F == INSTANCE FixProposal

sharedVars == <<findings, wire, reply, pc, prompt, reason>>
narrationVars == <<narrate, narration, response, report>>
proposalVars == <<round, at, rewrites, scripts, fixes, texts, cards, note>>

Narrating == call = "get_narration"
Proposing == call = "propose_fixes"

NoLoop == items = <<>> /\ i = 1 /\ result = [k \in Indexes |-> NoText] /\ outcome = "returned"
NoNarration == narrate = 0 /\ narration = 0 /\ response = 0 /\ report = 0
NoProposal ==
  /\ round = 0 /\ at = 0 /\ rewrites = 0 /\ scripts = 0 /\ fixes = 0
  /\ texts = 0 /\ cards = 0 /\ note = 0
NoCall == findings = 0 /\ wire = 0 /\ reply = 0 /\ pc = 0 /\ prompt = 0 /\ reason = 0

CallInit ==
  \/ call = "get_narration" /\ N!Init /\ NoProposal /\ NoLoop
  \/ call = "propose_fixes" /\ F!Init /\ NoNarration /\ NoLoop
  \/ call = "loop" /\ Init /\ NoCall /\ NoNarration /\ NoProposal

CallNext ==
  /\ \/ Narrating /\ N!Next /\ UNCHANGED <<vars, proposalVars>>
     \/ Proposing /\ F!Next /\ UNCHANGED <<vars, narrationVars>>
     \/ call = "loop" /\ Next /\ UNCHANGED <<sharedVars, narrationVars, proposalVars>>
  /\ UNCHANGED call

callVars == <<vars, call, sharedVars, narrationVars, proposalVars>>

CallSpec == CallInit /\ [][CallNext]_callVars

-----------------------------------------------------------------------------

(* The types of the call that is made.                                     *)
CallTypeOK == TypeOK /\ (Narrating => N!TypeOK) /\ (Proposing => F!TypeOK)

(* Page and terminal show Tier 0's findings, each with a text written for  *)
(* that very finding.                                                      *)
ReportKeepsTier0Findings == Narrating => N!ReportKeepsTier0Findings

(* A narration is degraded exactly when it says why.                       *)
DegradedHasReason == Narrating => N!DegradedHasReason

(* SQL a Copy button copies is its card's, and passed its validator.       *)
CopiedFixesAreValidated == Proposing => F!CopiedFixesAreValidated

(* A finding left open gets its card if any item had a valid text for it.  *)
NothingUsableIsLost == Proposing => F!NothingUsableIsLost

(* The note above the proposed fixes tells failure from emptiness.         *)
NoteTellsWhatHappened == Proposing => F!NoteTellsWhatHappened

=============================================================================
