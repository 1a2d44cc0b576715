----------------------------- MODULE Extraction -----------------------------
(***************************************************************************)
(* The loop that ties a local model's reply back to Tier 0's findings.     *)
(* narration/engine.py runs it twice (_extract_explanations,               *)
(* _extract_suggested_fixes) and narration/fix_engine.py twice             *)
(* (_extract_field for rewritten_query and for index_script).  The reply   *)
(* is a list the model wrote: items in any order, repeated, out of range,  *)
(* not even dicts.  Only _extract_field validates texts; for the loops of  *)
(* engine.py Rejected and Crashing are empty.                              *)
(*                                                                         *)
(* A step is one iteration.  A text is what item.get(key).strip() yields;  *)
(* NoText stands for null, missing, blank or not a string.                 *)
(***************************************************************************)
EXTENDS Integers, Sequences

CONSTANTS
  NumFindings,   \* len(findings)
  Texts,         \* non-blank texts
  Rejected,      \* texts the validator raises QueryValidationError for
  Crashing,      \* texts the validator raises something else for
  NoText,
  NoIndex,       \* finding_index is missing or not an int
  NotADict,      \* an item that is not a dict
  Replies        \* the lists the model may send

Indexes == 0 .. NumFindings - 1

Items == [idx : Int \cup {NoIndex}, text : Texts \cup {NoText}] \cup {NotADict}

ASSUME NumFindingsNat == NumFindings \in Nat
ASSUME NoTextIsNoText == NoText \notin Texts
ASSUME NoIndexIsNoInt == NoIndex \notin Int
ASSUME RepliesAreLists == Replies \subseteq Seq(Items)

VARIABLES
  items,     \* the reply's list
  i,         \* the item of the next iteration
  result,    \* result[k]: the text kept for finding k, or NoText
  outcome    \* "running", "returned", or "raised" by the validator

vars == <<items, i, result, outcome>>

-----------------------------------------------------------------------------

(* The guards before the duplicate test.                                   *)
Usable(item) ==
  /\ item # NotADict
  /\ item.idx # NoIndex /\ item.text # NoText
  /\ item.idx \in Indexes

Init ==
  /\ items \in Replies
  /\ i = 1
  /\ result = [k \in Indexes |-> NoText]
  /\ outcome = "running"

Iterating == outcome = "running" /\ i <= Len(items)

Continue ==
  /\ i' = i + 1
  /\ UNCHANGED <<items, outcome>>

SkipUnusable ==
  /\ Iterating
  /\ ~Usable(items[i])
  /\ Continue
  /\ UNCHANGED result

SkipDuplicate ==
  /\ Iterating
  /\ Usable(items[i]) /\ result[items[i].idx] # NoText
  /\ Continue
  /\ UNCHANGED result

(* The item reaches the validator.                                         *)
Candidate ==
  /\ Iterating
  /\ Usable(items[i]) /\ result[items[i].idx] = NoText

(* Mutant: a rejected text still occupies its finding's place.             *)
RejectKeepsPlace ==
  /\ Candidate
  /\ items[i].text \in Rejected
  /\ result' = [result EXCEPT ![items[i].idx] = items[i].text]
  /\ Continue

Reject ==
  /\ Candidate
  /\ items[i].text \in Rejected
  /\ Continue
  /\ UNCHANGED result

(* An exception other than QueryValidationError leaves the loop, and with  *)
(* it whatever the loop had kept.                                          *)
Crash ==
  /\ Candidate
  /\ items[i].text \in Crashing \ Rejected
  /\ outcome' = "raised"
  /\ UNCHANGED <<items, i, result>>

Keep ==
  /\ Candidate
  /\ items[i].text \notin Rejected \cup Crashing
  /\ result' = [result EXCEPT ![items[i].idx] = items[i].text]
  /\ Continue

Finish ==
  /\ outcome = "running" /\ i > Len(items)
  /\ outcome' = "returned"
  /\ UNCHANGED <<items, i, result>>

Next == SkipUnusable \/ SkipDuplicate \/ Reject \/ Crash \/ Keep \/ Finish

Spec == Init /\ [][Next]_vars /\ WF_vars(Next)

-----------------------------------------------------------------------------

TypeOK ==
  /\ items \in Seq(Items)
  /\ i \in 1 .. Len(items) + 1
  /\ result \in [Indexes -> Texts \cup {NoText}]
  /\ outcome \in {"running", "returned", "raised"}

(* The reference: item j is one the contract lets finding k keep.          *)
Acceptable(k, j) ==
  /\ items[j] # NotADict
  /\ items[j].idx = k
  /\ items[j].text \in Texts \ (Rejected \cup Crashing)

(* Whatever the model sends, finding k keeps the text of the first         *)
(* acceptable item that names k, and nothing when there is none: a skipped,*)
(* rejected, duplicate or out-of-range item never takes a finding's place, *)
(* changes another finding's text, or hides a later acceptable one.        *)
FirstAcceptableWins ==
  \A k \in Indexes :
    \/ /\ result[k] = NoText
       /\ \A j \in 1 .. i - 1 : ~Acceptable(k, j)
    \/ \E j \in 1 .. i - 1 :
         /\ Acceptable(k, j)
         /\ result[k] = items[j].text
         /\ \A m \in 1 .. j - 1 : ~Acceptable(k, m)

(* fix_engine.py 102: "anything that isn't exactly the expected single     *)
(* statement shape (prose, ..., a parse error) is dropped rather than      *)
(* surfaced".  A text the tokenizer cannot read raises TokenError, which   *)
(* is not a QueryValidationError, and takes every other fix down with it.  *)
BadTextIsOnlyDropped == outcome # "raised"

=============================================================================
