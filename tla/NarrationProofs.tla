--------------------------- MODULE NarrationProofs --------------------------
(***************************************************************************)
(* What a narrated report guarantees for reports and replies of any length,*)
(* and what the calls of ModelCalls share: the loop's invariant is kept by *)
(* every step, whichever call takes it.                                    *)
(***************************************************************************)
EXTENDS ModelCalls, ExtractionProofs, WellFoundedInduction

(* What Tier 0 and the model contribute.                                   *)
NarrationInputOK ==
  /\ \E n \in 0 .. MaxFindings : findings \in [0 .. n - 1 -> BOOLEAN]
  /\ reply \in N!ModelReplies

(* A step that uses an index of the reply knows what the model was told.   *)
NarrationPrompted ==
  pc \in {"ask", "narrate"} \/ narration # N!None => prompt = N!BuildPrompt(findings)

(* The Narration is still the one that was built for these findings.       *)
NarrationIsExplained ==
  narration # N!None =>
    /\ \A k \in DOMAIN findings : narration.findings[k] = N!ExplainFinding(k)
    /\ narration.degraded <=> narration.degraded_reason # "none"

(* What a reader of the Narration finds for a finding.                     *)
NarratedText(k, field, default) ==
  IF N!NarrationOf(k) = N!None THEN default ELSE N!NarrationOf(k)[field]

(* The response is still about the Narration it was built from.            *)
ResponseIsOfNarration ==
  pc = "render" \/ response # N!None =>
    response = [k \in DOMAIN findings |->
      [suggested_fix       |-> findings[k],
       explanation         |-> NarratedText(k, "explanation", N!NoItem),
       model_suggested_fix |-> NarratedText(k, "suggested_fix", N!NoItem)]]

NarrationPhase ==
  /\ pc \in {"start", "ask", "narrate"} => narration = N!None
  /\ pc \in {"start", "ask", "narrate", "respond"} => response = N!None

NarrationInv ==
  /\ NarrationInputOK /\ N!TypeOK /\ NarrationPhase
  /\ NarrationPrompted /\ NarrationIsExplained /\ ResponseIsOfNarration
  /\ N!ReportKeepsTier0Findings

-----------------------------------------------------------------------------

(* A set of positions that is not empty has a first one.                   *)
LEMMA FirstOf ==
  ASSUME NEW S \in SUBSET Nat, S # {}
  PROVE  N!Min(S) \in S /\ \A j \in S : N!Min(S) <= j
  <1>1. PICK x \in S : \A y \in S : ~ (<<y, x>> \in OpToRel(<, Nat))
    BY WFMin, NatLessThanWellFounded
  <1>2. \A y \in S : ~ (y < x)
    BY <1>1, Zenon DEF OpToRel
  <1>3. \A y \in S : x <= y
    BY <1>2
  <1>4. QED
    BY <1>3 DEF N!Min

LEMMA FirstTextIsACarrier ==
  ASSUME NarrationInputOK, NEW field, NEW k
  PROVE  /\ N!FirstText(field, k) \in 0 .. MaxItems
         /\ N!FirstText(field, k) # N!NoItem =>
              N!FirstText(field, k) \in N!Carriers(field, k)
  <1>1. PICK n \in 0 .. MaxItems : reply.findings \in [1 .. n -> N!Items]
    BY DEF NarrationInputOK, N!ModelReplies
  <1>2. N!Carriers(field, k) \in SUBSET (1 .. n)
    BY <1>1 DEF N!Carriers
  <1>3. 1 .. n \subseteq 0 .. MaxItems /\ 1 .. n \subseteq Nat
    BY BoundsAreNat
  <1>4. CASE N!Carriers(field, k) = {}
    BY <1>4, BoundsAreNat DEF N!FirstText, N!NoItem
  <1>5. CASE N!Carriers(field, k) # {}
    <2>1. N!Min(N!Carriers(field, k)) \in N!Carriers(field, k)
      BY <1>2, <1>3, <1>5, FirstOf
    <2>2. QED
      BY <1>2, <1>3, <1>5, <2>1 DEF N!FirstText
  <1>6. QED
    BY <1>4, <1>5

LEMMA InitNarration == N!Init => NarrationInv
  <1> SUFFICES ASSUME N!Init PROVE NarrationInv
    OBVIOUS
  <1>1. N!NoReply \in N!ModelReplies
    <2>1. 0 \in 0 .. MaxItems /\ <<>> \in [1 .. 0 -> N!Items]
      BY BoundsAreNat
    <2>2. QED
      BY <2>1 DEF N!NoReply, N!ModelReplies
  <1>2. NarrationInputOK
    BY <1>1 DEF N!Init, NarrationInputOK
  <1>3. QED
    BY <1>2 DEF N!Init, NarrationInv, N!TypeOK, NarrationPhase, NarrationPrompted,
       NarrationIsExplained, ResponseIsOfNarration, N!ReportKeepsTier0Findings, N!Reasons

(* What the model said about a finding it was told of, in its Narration.   *)
LEMMA ExplainedFromTheReply ==
  ASSUME NarrationInputOK, NEW k \in DOMAIN findings
  PROVE  LET e == N!ExplainFinding(k) IN
           /\ e \in N!FindingNarration
           /\ e.explanation > 0 => e.explanation \in N!Carriers("explanation", k)
           /\ e.suggested_fix > 0 =>
                e.suggested_fix \in N!Carriers("suggested_fix", k) /\ ~findings[k]
           /\ findings[k] => e.suggested_fix = N!NoItem
  <1>1. findings[k] \in BOOLEAN
    BY DEF NarrationInputOK
  <1> DEFINE text == N!FirstText("explanation", k)
             fix == N!FirstText("suggested_fix", k)
  <1>2. /\ text \in 0 .. MaxItems
        /\ text # N!NoItem => text \in N!Carriers("explanation", k)
        /\ fix \in 0 .. MaxItems
        /\ fix # N!NoItem => fix \in N!Carriers("suggested_fix", k)
    BY FirstTextIsACarrier
  <1>3. N!ExplainFinding(k) =
          [explanation        |-> IF text = N!NoItem THEN N!Tier0Text ELSE text,
           explanation_source |-> IF text = N!NoItem THEN "fallback" ELSE "model",
           suggested_fix      |-> IF findings[k] THEN N!NoItem ELSE fix]
    BY DEF N!ExplainFinding
  <1> HIDE DEF text, fix
  <1>4. QED
    BY <1>1, <1>2, <1>3, BoundsAreNat
       DEF N!FindingNarration, N!TextIds, N!NoItem, N!Tier0Text

(* A text that is shown as the model's is one.                             *)
LEMMA NarratedFromTheReply ==
  ASSUME NarrationInv, NEW k \in DOMAIN findings, NEW default \in {N!NoItem, N!Tier0Text}
  PROVE  /\ NarratedText(k, "explanation", default) > 0 =>
              NarratedText(k, "explanation", default)
                \in N!Carriers("explanation", prompt[k].finding_index)
         /\ NarratedText(k, "suggested_fix", default) > 0 =>
              /\ NarratedText(k, "suggested_fix", default)
                   \in N!Carriers("suggested_fix", prompt[k].finding_index)
              /\ ~findings[k]
  <1>1. CASE N!NarrationOf(k) = N!None
    BY <1>1 DEF NarratedText, N!NoItem, N!Tier0Text
  <1>2. CASE N!NarrationOf(k) # N!None
    <2>1. narration # N!None
      BY <1>2 DEF N!NarrationOf
    <2>2. N!NarrationOf(k) = N!ExplainFinding(k) /\ prompt[k].finding_index = k
      BY <2>1 DEF NarrationInv, NarrationIsExplained, NarrationPrompted, N!NarrationOf,
         N!BuildPrompt
    <2>3. NarrationInputOK
      BY DEF NarrationInv
    <2>4. QED
      BY <1>2, <2>2, <2>3, ExplainedFromTheReply DEF NarratedText
  <1>3. QED
    BY <1>1, <1>2

-----------------------------------------------------------------------------

(* The parts a step that leaves the Narration alone keeps.                 *)
LEMMA NarrationKept ==
  ASSUME NarrationInv, UNCHANGED <<findings, reply, narration>>
  PROVE  /\ NarrationInputOK' /\ NarrationIsExplained'
         /\ \A k, field, default :
              NarratedText(k, field, default)' = NarratedText(k, field, default)
         /\ \A field, k : N!Carriers(field, k)' = N!Carriers(field, k)
  BY DEF NarrationInv, NarrationInputOK, NarrationIsExplained, NarratedText, N!NarrationOf,
     N!ExplainFinding, N!FirstText, N!Carriers

LEMMA StepNarration == NarrationInv /\ N!Next => NarrationInv'
  <1> SUFFICES ASSUME NarrationInv, N!Next PROVE NarrationInv'
    OBVIOUS
  <1>0. /\ findings' = findings /\ narrate' = narrate /\ wire' = wire /\ reply' = reply
        /\ DOMAIN findings' = DOMAIN findings
        /\ NarrationInputOK /\ NarrationInputOK'
    BY DEF N!Next, N!input, NarrationInv, NarrationInputOK
  <1>1. CASE N!Start
    <2>1. UNCHANGED narration /\ NarrationIsExplained'
      BY <1>0, <1>1, NarrationKept DEF N!Start
    <2>2. NarrationPrompted' /\ NarrationPhase' /\ N!TypeOK'
      BY <1>0, <1>1 DEF N!Start, N!Goto, NarrationInv, NarrationPrompted, NarrationPhase,
         N!TypeOK, N!BuildPrompt
    <2>3. ResponseIsOfNarration' /\ N!ReportKeepsTier0Findings'
      BY <1>0, <1>1 DEF N!Start, N!Goto, NarrationInv, NarrationPhase, ResponseIsOfNarration,
         N!ReportKeepsTier0Findings
    <2>4. QED
      BY <1>0, <2>1, <2>2, <2>3 DEF NarrationInv
  <1>2. CASE N!Ask
    <2>1. UNCHANGED narration /\ NarrationIsExplained'
      BY <1>0, <1>2, NarrationKept DEF N!Ask
    <2>2. NarrationPrompted' /\ NarrationPhase'
      BY <1>0, <1>2 DEF N!Ask, N!Goto, NarrationInv, NarrationPrompted, NarrationPhase,
         N!BuildPrompt
    <2>3. N!TypeOK'
      <3>1. reason' \in N!Reasons
        BY <1>2 DEF N!Ask, N!Reasons
      <3>2. QED
        BY <1>0, <1>2, <3>1 DEF N!Ask, N!Goto, NarrationInv, N!TypeOK, NarrationPhase
    <2>4. ResponseIsOfNarration' /\ N!ReportKeepsTier0Findings'
      BY <1>0, <1>2 DEF N!Ask, N!Goto, NarrationInv, NarrationPhase, ResponseIsOfNarration,
         N!ReportKeepsTier0Findings
    <2>5. QED
      BY <1>0, <2>1, <2>2, <2>3, <2>4 DEF NarrationInv
  <1>3. CASE N!Narrate
    <2> DEFINE explained == [k \in DOMAIN findings |-> N!ExplainFinding(k)]
               degraded == /\ ~reply.overview
                           /\ \A k \in DOMAIN findings :
                                explained[k].explanation_source = "fallback"
    <2>1. narration' =
            [overview_source |-> IF reply.overview THEN "model" ELSE "fallback",
             findings        |-> explained,
             degraded        |-> degraded,
             degraded_reason |-> N!ReasonFor(degraded)]
      BY <1>3 DEF N!Narrate, N!Indexes
    <2>2. explained \in [DOMAIN findings -> N!FindingNarration]
      BY <1>0, ExplainedFromTheReply
    <2>3. degraded \in BOOLEAN
      OBVIOUS
    <2>4. \A k \in DOMAIN findings : explained[k] = N!ExplainFinding(k)
      OBVIOUS
    <2> HIDE DEF degraded, explained
    <2>5. reason \in N!Reasons
      BY DEF NarrationInv, N!TypeOK
    <2>6. /\ N!ReasonFor(degraded) \in N!Reasons
          /\ degraded <=> N!ReasonFor(degraded) # "none"
      BY <2>3, <2>5 DEF N!ReasonFor, N!Reasons
    <2>7. \A k \in DOMAIN findings : N!ExplainFinding(k)' = N!ExplainFinding(k)
      BY <1>0 DEF N!ExplainFinding, N!FirstText, N!Carriers
    <2>8. NarrationIsExplained'
      BY <1>0, <2>1, <2>4, <2>6, <2>7 DEF NarrationIsExplained
    <2>9. NarrationPrompted' /\ NarrationPhase'
      BY <1>0, <1>3 DEF N!Narrate, N!Goto, NarrationInv, NarrationPrompted, NarrationPhase,
         N!BuildPrompt
    <2>10. N!TypeOK'
      <3>1. narration' \in [overview_source : {"model", "fallback"}, degraded : BOOLEAN,
                            degraded_reason : N!Reasons,
                            findings : [DOMAIN findings -> N!FindingNarration]]
        BY <2>1, <2>2, <2>3, <2>6
      <3>2. pc = "narrate" /\ pc' = "respond" /\ UNCHANGED <<reason, response>>
        BY <1>3 DEF N!Narrate, N!Goto
      <3>3. QED
        BY <1>0, <2>5, <3>1, <3>2 DEF NarrationInv, N!TypeOK, NarrationPhase, N!Indexes
    <2>11. ResponseIsOfNarration' /\ N!ReportKeepsTier0Findings'
      BY <1>0, <1>3 DEF N!Narrate, N!Goto, NarrationInv, NarrationPhase,
         ResponseIsOfNarration, N!ReportKeepsTier0Findings
    <2>12. QED
      BY <1>0, <2>8, <2>9, <2>10, <2>11 DEF NarrationInv
  <1>4. CASE N!Respond
    <2>1. /\ UNCHANGED <<prompt, reason, narration, report>> /\ pc = "respond"
          /\ pc' = "render"
      BY <1>4 DEF N!Respond, N!Goto
    <2>2. NarrationIsExplained'
      BY <1>0, <2>1, NarrationKept
    <2>3. NarrationPrompted' /\ NarrationPhase'
      BY <1>0, <2>1 DEF NarrationInv, NarrationPrompted, NarrationPhase, N!BuildPrompt
    <2>4. response' = [k \in DOMAIN findings |->
            [suggested_fix       |-> findings[k],
             explanation         |-> NarratedText(k, "explanation", N!NoItem),
             model_suggested_fix |-> NarratedText(k, "suggested_fix", N!NoItem)]]
      BY <1>4 DEF N!Respond, NarratedText, N!Indexes
    <2>5. ResponseIsOfNarration'
      BY <1>0, <2>1, <2>4, NarrationKept DEF ResponseIsOfNarration
    <2>6. N!TypeOK'
      <3>1. \A k \in DOMAIN findings :
              /\ findings[k] \in BOOLEAN
              /\ NarratedText(k, "explanation", N!NoItem) \in N!TextIds
              /\ NarratedText(k, "suggested_fix", N!NoItem) \in N!TextIds
        <4> SUFFICES ASSUME NEW k \in DOMAIN findings
                     PROVE  /\ findings[k] \in BOOLEAN
                            /\ NarratedText(k, "explanation", N!NoItem) \in N!TextIds
                            /\ NarratedText(k, "suggested_fix", N!NoItem) \in N!TextIds
          OBVIOUS
        <4>1. N!NarrationOf(k) # N!None => N!NarrationOf(k) \in N!FindingNarration
          BY DEF NarrationInv, N!TypeOK, N!NarrationOf, N!Indexes
        <4>2. N!NoItem \in N!TextIds
          BY BoundsAreNat DEF N!NoItem, N!TextIds
        <4>3. QED
          BY <1>0, <4>1, <4>2 DEF NarratedText, N!FindingNarration, NarrationInputOK
      <3>2. response' \in [DOMAIN findings -> N!FindingItem]
        BY <2>4, <3>1 DEF N!FindingItem
      <3>3. QED
        BY <1>0, <2>1, <3>2 DEF NarrationInv, N!TypeOK, N!Indexes
    <2>7. QED
      BY <1>0, <2>1, <2>2, <2>3, <2>5, <2>6 DEF NarrationInv, N!ReportKeepsTier0Findings
  <1>5. CASE N!RenderReport
    <2>1. /\ UNCHANGED <<prompt, reason, narration, response>> /\ pc = "render"
          /\ pc' = "shown"
      BY <1>5 DEF N!RenderReport, N!Goto
    <2>2. NarrationIsExplained'
      BY <1>0, <2>1, NarrationKept
    <2>3. NarrationPrompted' /\ NarrationPhase' /\ N!TypeOK'
      BY <1>0, <2>1 DEF NarrationInv, NarrationPrompted, NarrationPhase, N!BuildPrompt,
         N!TypeOK, N!Indexes
    <2>4. ResponseIsOfNarration /\ ResponseIsOfNarration'
      BY <1>0, <2>1, NarrationKept DEF ResponseIsOfNarration, NarrationInv
    <2>5. /\ report'.explained = [k \in DOMAIN findings |->
               IF response[k].explanation = N!NoItem THEN N!Tier0Text
               ELSE response[k].explanation]
          /\ report'.cards = [k \in DOMAIN findings |->
               N!Card(response[k].suggested_fix, response[k].model_suggested_fix)]
      BY <1>5 DEF N!RenderReport, N!Indexes
    <2>6. \A k \in DOMAIN findings :
            /\ response[k].suggested_fix = findings[k]
            /\ response[k].explanation = NarratedText(k, "explanation", N!NoItem)
            /\ response[k].model_suggested_fix = NarratedText(k, "suggested_fix", N!NoItem)
      BY <2>1, <2>4 DEF ResponseIsOfNarration
    <2>7. \A k \in DOMAIN findings :
            /\ report'.explained[k] > 0 =>
                 report'.explained[k] \in N!Carriers("explanation", prompt[k].finding_index)
            /\ report'.cards[k].model > 0 =>
                 /\ report'.cards[k].model
                      \in N!Carriers("suggested_fix", prompt[k].finding_index)
                 /\ ~findings[k]
            /\ report'.cards[k].tier0 = findings[k]
      BY <2>5, <2>6, NarratedFromTheReply DEF N!Card, N!NoItem, N!Tier0Text
    <2>8. N!ReportKeepsTier0Findings'
      BY <1>0, <2>1, <2>5, <2>7, NarrationKept DEF N!ReportKeepsTier0Findings, N!Indexes
    <2>9. QED
      BY <1>0, <2>2, <2>3, <2>4, <2>8 DEF NarrationInv
  <1>6. CASE N!FormatReport
    <2>1. /\ UNCHANGED <<prompt, reason, narration, response>> /\ pc = "respond"
          /\ pc' = "shown"
      BY <1>6 DEF N!FormatReport, N!Goto
    <2>2. NarrationIsExplained'
      BY <1>0, <2>1, NarrationKept
    <2>3. NarrationPrompted' /\ NarrationPhase' /\ N!TypeOK'
      BY <1>0, <2>1 DEF NarrationInv, NarrationPrompted, NarrationPhase, N!BuildPrompt,
         N!TypeOK, N!Indexes
    <2>4. ResponseIsOfNarration'
      BY <1>0, <2>1, NarrationKept DEF ResponseIsOfNarration, NarrationInv
    <2>5. /\ report'.explained = [k \in DOMAIN findings |->
               NarratedText(k, "explanation", N!NoItem)]
          /\ report'.cards = [k \in DOMAIN findings |->
               N!Card(findings[k], NarratedText(k, "suggested_fix", N!NoItem))]
      BY <1>6 DEF N!FormatReport, N!Indexes, NarratedText
    <2>6. \A k \in DOMAIN findings :
            /\ report'.explained[k] > 0 =>
                 report'.explained[k] \in N!Carriers("explanation", prompt[k].finding_index)
            /\ report'.cards[k].model > 0 =>
                 /\ report'.cards[k].model
                      \in N!Carriers("suggested_fix", prompt[k].finding_index)
                 /\ ~findings[k]
            /\ report'.cards[k].tier0 = findings[k]
      BY <2>5, NarratedFromTheReply DEF N!Card, N!NoItem
    <2>7. N!ReportKeepsTier0Findings'
      BY <1>0, <2>1, <2>5, <2>6, NarrationKept DEF N!ReportKeepsTier0Findings, N!Indexes
    <2>8. QED
      BY <1>0, <2>2, <2>3, <2>4, <2>7 DEF NarrationInv
  <1>7. QED
    BY <1>1, <1>2, <1>3, <1>4, <1>5, <1>6 DEF N!Next

LEMMA StutterNarration ==
  ASSUME NarrationInv,
         UNCHANGED <<findings, narrate, wire, reply, pc, prompt, reason, narration, response,
                     report>>
  PROVE  NarrationInv'
  <1>1. /\ NarrationInputOK' /\ NarrationIsExplained'
        /\ \A k, field, default :
             NarratedText(k, field, default)' = NarratedText(k, field, default)
        /\ \A field, k : N!Carriers(field, k)' = N!Carriers(field, k)
    BY NarrationKept
  <1>2. NarrationPrompted' /\ NarrationPhase' /\ N!TypeOK'
    BY DEF NarrationInv, NarrationPrompted, NarrationPhase, N!BuildPrompt, N!TypeOK, N!Indexes
  <1>3. ResponseIsOfNarration' /\ N!ReportKeepsTier0Findings'
    BY <1>1 DEF NarrationInv, ResponseIsOfNarration, N!ReportKeepsTier0Findings, N!Indexes
  <1>4. QED
    BY <1>1, <1>2, <1>3 DEF NarrationInv

-----------------------------------------------------------------------------

(* The loop, whichever call it is: two of the three leave it alone.        *)
LEMMA CallInitLoop == CallInit => IndInv
  <1> SUFFICES ASSUME CallInit PROVE IndInv
    OBVIOUS
  <1>1. CASE NoLoop
    <2>1. items \in Seq(Items) /\ Len(items) = 0
      BY <1>1 DEF NoLoop
    <2>2. QED
      BY <1>1, <2>1 DEF NoLoop, IndInv, TypeOK, FirstAcceptableWins
  <1>2. CASE Init
    BY <1>2, InitIndInv
  <1>3. QED
    BY <1>1, <1>2 DEF CallInit

LEMMA CallStepLoop == IndInv /\ [CallNext]_callVars => IndInv'
  <1> SUFFICES ASSUME IndInv, [CallNext]_callVars PROVE IndInv'
    OBVIOUS
  <1>1. [Next]_vars
    BY DEF CallNext, callVars
  <1>2. QED
    BY <1>1, StepTypeOK, StepFirstAcceptable DEF IndInv

LEMMA CallInitNarration == CallInit => (Narrating => NarrationInv)
  BY InitNarration DEF CallInit, Narrating

LEMMA CallStepNarration ==
  (Narrating => NarrationInv) /\ [CallNext]_callVars => (Narrating => NarrationInv)'
  <1> SUFFICES ASSUME Narrating => NarrationInv, [CallNext]_callVars, Narrating'
               PROVE  NarrationInv'
    OBVIOUS
  <1>1. Narrating /\ NarrationInv
    BY DEF CallNext, callVars, Narrating
  <1>2. CASE N!Next
    BY <1>1, <1>2, StepNarration
  <1>3. CASE UNCHANGED callVars
    BY <1>1, <1>3, StutterNarration DEF callVars, sharedVars, narrationVars
  <1>4. QED
    BY <1>1, <1>2, <1>3 DEF CallNext, Narrating, Proposing

(* The reply loop keeps its invariant among the steps of the calls.        *)
THEOREM LoopInductive == CallSpec => []IndInv
  BY CallInitLoop, CallStepLoop, PTL DEF CallSpec

(* What get_narration and the renderers have so far is Tier 0's list.      *)
THEOREM NarrationInductive == CallSpec => [](Narrating => NarrationInv)
  BY CallInitNarration, CallStepNarration, PTL DEF CallSpec

(* The reply loop keeps its contract in the calls that run it              *)
(* (engine.py 120-157, fix_engine.py 83-109).                              *)
THEOREM LoopFirstWins == CallSpec => []FirstAcceptableWins
  <1>1. IndInv => FirstAcceptableWins
    BY DEF IndInv
  <1>2. QED
    BY <1>1, LoopInductive, PTL

(* Whatever the model replies to however many findings, page and terminal  *)
(* show every Tier 0 finding, each with Tier 0's words or the model's for  *)
(* that very finding (engine.py 72-95, app.py 117-160, cli.py 129-184).    *)
THEOREM ReportIsTier0s == CallSpec => []ReportKeepsTier0Findings
  <1>1. (Narrating => NarrationInv) => ReportKeepsTier0Findings
    BY DEF NarrationInv, ReportKeepsTier0Findings
  <1>2. QED
    BY <1>1, NarrationInductive, PTL

(* A Narration is degraded exactly when it gives a reason, also when the   *)
(* call succeeded and contributed nothing (engine.py 97-108).              *)
THEOREM DegradedSaysWhy == CallSpec => []DegradedHasReason
  <1>1. (Narrating => NarrationInv) => DegradedHasReason
    BY DEF NarrationInv, NarrationIsExplained, DegradedHasReason, N!DegradedHasReason
  <1>2. QED
    BY <1>1, NarrationInductive, PTL

=============================================================================
