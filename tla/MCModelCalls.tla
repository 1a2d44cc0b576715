---------------------------- MODULE MCModelCalls ----------------------------
(* The calls and the loop for TLC.  The loop reads every list of up to     *)
(* MaxListItems items over NumFindings findings: in-range indexes, one     *)
(* below and one above the range, good, rejected and crashing texts, no    *)
(* index, no text, and items that are not dicts.                           *)
EXTENDS ModelCalls, SequencesExt

CONSTANT MaxListItems

MCItems ==
  [idx : -1 .. NumFindings \cup {NoIndex}, text : Texts \cup {NoText}]
    \cup {NotADict}

MCReplies == BoundedSeq(MCItems, MaxListItems)

=============================================================================
