------------------------------- MODULE Prompts ------------------------------
(***************************************************************************)
(* What the model is told of a report's findings: the JSON list that       *)
(* build_prompt (narration/prompt.py) and build_fix_prompt                 *)
(* (narration/fix_prompt.py) put behind their rules.  The reply has to     *)
(* name findings by the indexes of this list.                              *)
(***************************************************************************)
EXTENDS Naturals

(* Mutant: the list is numbered as a reader would number it.               *)
NumberedFromOne(findings) ==
  [k \in DOMAIN findings |-> [finding_index |-> k + 1, suggested_fix |-> findings[k]]]

(* findings[k] says whether Tier 0 has a fix for finding k; the texts that *)
(* go with it are left out.                                                *)
BuildPrompt(findings) ==
  [k \in DOMAIN findings |-> [finding_index |-> k, suggested_fix |-> findings[k]]]

BuildFixPrompt(findings) ==
  [k \in DOMAIN findings |-> [finding_index |-> k, suggested_fix |-> findings[k]]]

=============================================================================
