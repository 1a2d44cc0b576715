-------------------------- MODULE FixProposalProofs -------------------------
(***************************************************************************)
(* What fix proposals guarantee for reports and replies of any length and  *)
(* however often they are asked for: the list of a round is the kept texts *)
(* of the open findings, the cards it adds are that list, and the note     *)
(* tells why there are none.                                               *)
(***************************************************************************)
EXTENDS NarrationProofs, FiniteSetTheorems

FixInputOK ==
  /\ \E n \in 0 .. MaxFindings : findings \in [0 .. n - 1 -> BOOLEAN]
  /\ \E m \in 0 .. MaxItems : reply \in [1 .. m -> F!Items]

Asked == {"rewrites", "scripts", "assemble", "rewrite_card", "script_card", "shown"}
Extracted == {"assemble", "rewrite_card", "script_card", "shown"}
Showing == {"rewrite_card", "script_card", "shown"}

(* What the model was told, and what came back.                            *)
FixAsked ==
  /\ pc # "report" => prompt = F!BuildFixPrompt(findings)
  /\ pc \in Asked => wire \in F!Wire /\ F!ClientResult(wire) # "uncaught"
  /\ wire # "inner_dict" => reply = <<>>

(* The two dictionaries, until they are used.                              *)
FixExtracted ==
  /\ pc \in {"scripts", "assemble"} =>
       rewrites = [k \in DOMAIN findings |-> F!Kept("rewritten_query", k)]
  /\ pc = "assemble" =>
       scripts = [k \in DOMAIN findings |-> F!Kept("index_script", k)]

(* An exception has left the call, or none will.                           *)
FixRaises ==
  /\ pc \in {"raised", "failed"} => F!Crashes
  /\ pc = "scripts" => ~ F!LoopRaises("rewritten_query")
  /\ pc \in Extracted => ~ F!Crashes

(* Tier 0 left k open and a text was kept for it.                          *)
Proposes(k) ==
  /\ ~findings[k]
  /\ F!Kept("rewritten_query", k) # 0 \/ F!Kept("index_script", k) # 0

(* The list holds what was kept for the findings it has come to, once.     *)
FixesAreKept ==
  /\ fixes \in Seq(F!FindingFix)
  /\ pc \notin Extracted => fixes = <<>>
  /\ \A m \in DOMAIN fixes :
       /\ Proposes(fixes[m].finding_index)
       /\ \A f \in F!Fields : fixes[m][f] = F!Kept(f, fixes[m].finding_index)
       /\ pc = "assemble" => fixes[m].finding_index < at
  /\ \A m, n \in DOMAIN fixes : fixes[m].finding_index = fixes[n].finding_index => m = n
  /\ pc \in Extracted =>
       \A k \in DOMAIN findings :
         Proposes(k) /\ (pc = "assemble" => k < at) =>
           \E m \in DOMAIN fixes : fixes[m].finding_index = k

(* Where the loops are, and what the note says.                            *)
FixPhase ==
  /\ at \in Nat /\ round \in Nat
  /\ pc \in Showing => note = F!NoteText /\ at >= 1
  /\ pc = "rewrite_card" => note = "hidden" /\ at <= Len(fixes) + 1
  /\ pc = "script_card" => note = "hidden" /\ at <= Len(fixes)
  /\ pc = "shown" => IF note = "hidden" THEN at > Len(fixes) ELSE at = 1
  /\ pc = "failed" => note = "failed"

CardFields == {"suggested_fix", "model_suggested_fix"} \cup F!Fields
Cards == [index : Nat, finding : Nat, field : CardFields, round : Nat]
CardTexts == [field : CardFields, for : Nat, kind : F!TextKinds]

(* A card stands where its text does.                                      *)
CardsPointToTexts ==
  /\ cards \in Seq(Cards) /\ texts \in Seq(CardTexts)
  /\ Len(cards) = Len(texts)
  /\ \A n \in DOMAIN cards : cards[n].index = n - 1 /\ texts[n].field = cards[n].field

KindOf(f) == IF f = "rewritten_query" THEN "select" ELSE "index"

(* What may be written for finding k as a text of the field.               *)
Fits(k, f, t) ==
  /\ t.for = k
  /\ f = "suggested_fix" => findings[k]
  /\ f # "suggested_fix" => ~findings[k]
  /\ f \in F!Fields => k \in DOMAIN findings /\ t.kind = KindOf(f)

(* Every card, of whichever round, shows a text that fits it.              *)
CardsFit ==
  \A n \in DOMAIN cards :
    /\ Fits(cards[n].finding, cards[n].field, texts[n])
    /\ cards[n].round <= round
    /\ cards[n].field \in F!Fields => pc # "report"

(* The page has come to this text of the list.                             *)
Shown(m, f) == m < at \/ (m = at /\ f = "rewritten_query" /\ pc = "script_card")

(* The cards of this round are those of the list.                          *)
CardsAreOfFixes ==
  \A n \in DOMAIN cards :
    cards[n].field \in F!Fields /\ cards[n].round = round =>
      /\ pc \in Showing
      /\ \E m \in DOMAIN fixes :
           Shown(m, cards[n].field) /\ fixes[m].finding_index = cards[n].finding

CardsAreOnce ==
  \A m, n \in DOMAIN cards :
    /\ cards[m].field \in F!Fields
    /\ cards[m].field = cards[n].field /\ cards[m].finding = cards[n].finding
    /\ cards[m].round = cards[n].round
    => m = n

FixesHaveCards ==
  pc \in Showing =>
    \A m \in DOMAIN fixes, f \in F!Fields :
      Shown(m, f) /\ fixes[m][f] # 0 =>
        \E n \in DOMAIN cards :
          /\ cards[n].finding = fixes[m].finding_index /\ cards[n].field = f
          /\ cards[n].round = round

CardsInv ==
  /\ CardsPointToTexts /\ CardsFit /\ CardsAreOfFixes /\ CardsAreOnce /\ FixesHaveCards

FixInv ==
  /\ FixInputOK /\ F!TypeOK
  /\ FixAsked /\ FixExtracted /\ FixRaises /\ FixesAreKept /\ FixPhase
  /\ CardsInv

-----------------------------------------------------------------------------

LEMMA FixTypes ==
  ASSUME FixInputOK
  PROVE  /\ DOMAIN findings \subseteq Nat
         /\ \A k \in DOMAIN findings : findings[k] \in BOOLEAN
         /\ DOMAIN reply \subseteq Nat \ {0}
         /\ DOMAIN reply \subseteq 1 .. MaxItems
         /\ \A j \in DOMAIN reply : reply[j] \in F!Items
  <1>1. PICK n \in 0 .. MaxFindings : findings \in [0 .. n - 1 -> BOOLEAN]
    BY DEF FixInputOK
  <1>2. PICK m \in 0 .. MaxItems : reply \in [1 .. m -> F!Items]
    BY DEF FixInputOK
  <1>3. n \in Nat /\ m \in Nat /\ m <= MaxItems
    BY <1>1, <1>2, BoundsAreNat
  <1>4. DOMAIN findings = 0 .. n - 1 /\ DOMAIN reply = 1 .. m
    BY <1>1, <1>2
  <1>5. \A k \in DOMAIN findings : findings[k] \in BOOLEAN
    BY <1>1, <1>4
  <1>6. \A j \in DOMAIN reply : reply[j] \in F!Items
    BY <1>2, <1>4
  <1>7. QED
    BY <1>3, <1>4, <1>5, <1>6, BoundsAreNat

(* _extract_field keeps an accepted text when there is one.                *)
LEMMA KeptIsAccepted ==
  ASSUME FixInputOK, NEW f \in F!Fields, NEW k
  PROVE  /\ F!Kept(f, k) \in 0 .. MaxItems
         /\ F!Kept(f, k) # 0 => F!Kept(f, k) \in F!Offered(f, k, "accepts")
         /\ F!Offered(f, k, "accepts") # {} => F!Kept(f, k) # 0
  <1>1. F!Offered(f, k, "accepts") \subseteq DOMAIN reply
    BY DEF F!Offered
  <1>2. /\ F!Offered(f, k, "accepts") \subseteq 1 .. MaxItems
        /\ F!Offered(f, k, "accepts") \in SUBSET Nat
        /\ 0 \notin F!Offered(f, k, "accepts")
    BY <1>1, FixTypes
  <1>3. CASE F!Offered(f, k, "accepts") = {}
    BY <1>3, BoundsAreNat DEF F!Kept
  <1>4. CASE F!Offered(f, k, "accepts") # {}
    <2>1. F!Min(F!Offered(f, k, "accepts")) \in F!Offered(f, k, "accepts")
      BY <1>2, <1>4, FirstOf DEF N!Min, F!Min
    <2>2. QED
      BY <1>2, <1>4, <2>1, BoundsAreNat DEF F!Kept
  <1>5. QED
    BY <1>3, <1>4

(* A kept text was accepted by its field's validator, under its finding.   *)
LEMMA KeptIsValid ==
  ASSUME FixInputOK, NEW f \in F!Fields, NEW k, F!Kept(f, k) # 0
  PROVE  /\ reply[F!Kept(f, k)].finding_index = k
         /\ reply[F!Kept(f, k)][f] = KindOf(f)
  <1>1. F!Kept(f, k) \in F!Offered(f, k, "accepts")
    BY KeptIsAccepted
  <1>2. QED
    BY <1>1 DEF F!Offered, F!Validator, KindOf

(* What a step that touches neither report nor reply leaves as it is.      *)
LEMMA FixInputKept ==
  ASSUME UNCHANGED <<findings, reply>>
  PROVE  /\ FixInputOK => FixInputOK'
         /\ F!FindingFix' = F!FindingFix
         /\ \A f, k : F!Kept(f, k)' = F!Kept(f, k)
         /\ \A k : Proposes(k)' = Proposes(k)
         /\ \A f : F!LoopRaises(f)' = F!LoopRaises(f)
         /\ wire' = wire => F!Crashes' = F!Crashes
  BY DEF FixInputOK, F!FindingFix, F!Indexes, F!Kept, F!Offered, Proposes, F!LoopRaises,
     F!Crashes, F!Fields

LEMMA InitFix == F!Init => FixInv
  <1> SUFFICES ASSUME F!Init PROVE FixInv
    OBVIOUS
  <1>1. FixInputOK
    <2>1. 0 \in 0 .. MaxItems /\ <<>> \in [1 .. 0 -> F!Items]
      BY BoundsAreNat
    <2>2. QED
      BY <2>1 DEF F!Init, FixInputOK
  <1>2. F!TypeOK /\ FixAsked /\ FixExtracted /\ FixRaises /\ FixPhase
    BY BoundsAreNat DEF F!Init, F!TypeOK, FixAsked, FixExtracted, FixRaises, FixPhase, Asked,
       Extracted, Showing
  <1>3. FixesAreKept
    BY DEF F!Init, FixesAreKept, Extracted
  <1>4. CardsInv
    BY DEF F!Init, CardsInv, CardsPointToTexts, CardsFit, CardsAreOfFixes, CardsAreOnce,
       FixesHaveCards, Showing
  <1>5. QED
    BY <1>1, <1>2, <1>3, <1>4 DEF FixInv

-----------------------------------------------------------------------------

(* fixCard puts card and text at the same new position.                    *)
LEMMA AddedCard ==
  ASSUME CardsPointToTexts, round \in Nat, NEW k \in Nat, NEW t \in CardTexts, F!AddCard(k, t)
  PROVE  /\ CardsPointToTexts'
         /\ Len(cards) \in Nat
         /\ DOMAIN cards = 1 .. Len(cards) /\ DOMAIN cards' = 1 .. Len(cards) + 1
         /\ \A n \in DOMAIN cards : cards'[n] = cards[n] /\ texts'[n] = texts[n]
         /\ cards'[Len(cards) + 1].finding = k /\ cards'[Len(cards) + 1].field = t.field
         /\ cards'[Len(cards) + 1].round = round
         /\ texts'[Len(cards) + 1] = t
  <1> DEFINE card == F!NewCard(Len(cards), k, t.field)
  <1>1. /\ cards \in Seq(Cards) /\ texts \in Seq(CardTexts) /\ Len(cards) = Len(texts)
        /\ \A n \in DOMAIN cards : cards[n].index = n - 1 /\ texts[n].field = cards[n].field
    BY DEF CardsPointToTexts
  <1>2. cards' = Append(cards, card) /\ texts' = Append(texts, t)
    BY <1>1 DEF F!AddCard
  <1>3. t.field \in CardFields
    BY DEF CardTexts
  <1>4. card \in Cards
    BY <1>1, <1>3 DEF Cards, F!NewCard
  <1>5. card.index = Len(cards) /\ card.finding = k /\ card.field = t.field /\ card.round = round
    BY DEF F!NewCard
  <1> HIDE DEF card
  <1>6. /\ cards' \in Seq(Cards) /\ texts' \in Seq(CardTexts)
        /\ Len(cards') = Len(cards) + 1 /\ Len(texts') = Len(cards) + 1
        /\ DOMAIN cards = 1 .. Len(cards) /\ DOMAIN cards' = 1 .. Len(cards) + 1
        /\ \A n \in DOMAIN cards : cards'[n] = cards[n] /\ texts'[n] = texts[n]
        /\ cards'[Len(cards) + 1] = card /\ texts'[Len(cards) + 1] = t
    BY <1>1, <1>2, <1>4
  <1>7. \A n \in DOMAIN cards' :
          cards'[n].index = n - 1 /\ texts'[n].field = cards'[n].field
    BY <1>1, <1>5, <1>6
  <1>8. CardsPointToTexts'
    BY <1>6, <1>7 DEF CardsPointToTexts, Cards, CardTexts, CardFields, F!Fields, F!TextKinds
  <1>9. QED
    BY <1>1, <1>5, <1>6, <1>8

(* What a kept text is on the page.                                        *)
LEMMA KeptText ==
  ASSUME FixInputOK, NEW f \in F!Fields, NEW k \in Nat, F!Kept(f, k) # 0
  PROVE  /\ F!TextOf(F!Kept(f, k), f) \in CardTexts
         /\ F!TextOf(F!Kept(f, k), f).field = f
         /\ F!TextOf(F!Kept(f, k), f).for = k
         /\ F!TextOf(F!Kept(f, k), f).kind = KindOf(f)
  <1>1. /\ reply[F!Kept(f, k)].finding_index = k
        /\ reply[F!Kept(f, k)][f] = KindOf(f)
    BY KeptIsValid
  <1>2. F!TextOf(F!Kept(f, k), f) = [field |-> f, for |-> k, kind |-> KindOf(f)]
    BY <1>1 DEF F!TextOf, F!Text
  <1>3. KindOf(f) \in F!TextKinds /\ f \in CardFields
    BY DEF KindOf, F!TextKinds, CardFields
  <1>4. QED
    BY <1>2, <1>3 DEF CardTexts

(* A text of the list gets its card, if it has one, and no other does.     *)
LEMMA ShownText ==
  ASSUME FixInv, NEW f \in F!Fields, pc \in Showing, pc' \in Showing,
         at \in DOMAIN fixes, ~ Shown(at, f), F!ShowText(f),
         UNCHANGED <<findings, fixes, round>>,
         \A m \in DOMAIN fixes, g \in F!Fields :
           Shown(m, g)' <=> Shown(m, g) \/ (m = at /\ g = f)
  PROVE  CardsInv'
  <1>1. /\ CardsPointToTexts /\ CardsFit /\ CardsAreOfFixes /\ CardsAreOnce /\ FixesHaveCards
        /\ FixInputOK /\ FixesAreKept /\ round \in Nat
    BY DEF FixInv, CardsInv, FixPhase
  <1>2. pc' # "report" /\ pc # "report"
    BY DEF Showing
  <1> DEFINE k == fixes[at].finding_index
  <1>3. /\ k \in DOMAIN findings /\ k \in Nat /\ Proposes(k)
        /\ fixes[at][f] = F!Kept(f, k)
    <2>1. fixes[at] \in F!FindingFix
      BY <1>1 DEF FixesAreKept
    <2>2. QED
      BY <1>1, <2>1, FixTypes DEF FixesAreKept, F!FindingFix, F!Indexes
  <1>4. CASE fixes[at][f] = 0
    <2>1. UNCHANGED <<texts, cards>>
      BY <1>4 DEF F!ShowText
    <2>2. CardsPointToTexts' /\ CardsAreOnce'
      BY <1>1, <2>1 DEF CardsPointToTexts, CardsAreOnce, Cards, CardTexts, CardFields, F!Fields,
         F!TextKinds
    <2>3. CardsFit'
      BY <1>1, <1>2, <2>1 DEF CardsFit, Fits, KindOf, F!Fields
    <2>4. CardsAreOfFixes'
      BY <1>1, <2>1 DEF CardsAreOfFixes
    <2>5. FixesHaveCards'
      BY <1>1, <1>4, <2>1 DEF FixesHaveCards
    <2>6. QED
      BY <2>2, <2>3, <2>4, <2>5 DEF CardsInv
  <1>5. CASE fixes[at][f] # 0
    <2> DEFINE last == Len(cards) + 1
               t == F!TextOf(F!Kept(f, k), f)
    <2>1. F!AddCard(k, t)
      BY <1>3, <1>5 DEF F!ShowText
    <2>2. t \in CardTexts /\ t.field = f /\ t.for = k /\ t.kind = KindOf(f)
      BY <1>1, <1>3, <1>5, KeptText
    <2> HIDE DEF k, t
    <2>3. /\ CardsPointToTexts'
          /\ Len(cards) \in Nat /\ DOMAIN cards = 1 .. Len(cards) /\ DOMAIN cards' = 1 .. last
          /\ \A n \in DOMAIN cards : cards'[n] = cards[n] /\ texts'[n] = texts[n]
          /\ cards'[last].finding = k /\ cards'[last].field = f /\ cards'[last].round = round
          /\ texts'[last] = t
      BY <1>1, <1>3, <2>1, <2>2, AddedCard
    <2>4. /\ last \in DOMAIN cards'
          /\ \A n \in DOMAIN cards' : n \in DOMAIN cards \/ n = last
      BY <2>3
    <2>5. \A n \in DOMAIN cards :
            ~ (cards[n].field = f /\ cards[n].finding = k /\ cards[n].round = round)
      <3> SUFFICES ASSUME NEW n \in DOMAIN cards, cards[n].field = f, cards[n].finding = k,
                          cards[n].round = round
                   PROVE  FALSE
        OBVIOUS
      <3>1. PICK m \in DOMAIN fixes : Shown(m, f) /\ fixes[m].finding_index = k
        BY <1>1 DEF CardsAreOfFixes
      <3>2. m = at
        BY <1>1, <3>1 DEF FixesAreKept, k
      <3>3. QED
        BY <3>1, <3>2
    <2>6. CardsAreOnce'
      BY <1>1, <2>3, <2>4, <2>5 DEF CardsAreOnce
    <2>7. FixesHaveCards'
      <3> SUFFICES ASSUME NEW m \in DOMAIN fixes, NEW g \in F!Fields,
                          Shown(m, g)', fixes[m][g] # 0
                   PROVE  \E n \in DOMAIN cards' :
                            /\ cards'[n].finding = fixes[m].finding_index
                            /\ cards'[n].field = g /\ cards'[n].round = round
        BY DEF FixesHaveCards
      <3>1. CASE m = at /\ g = f
        BY <2>3, <2>4, <3>1 DEF k
      <3>2. CASE ~ (m = at /\ g = f)
        <4>1. PICK n \in DOMAIN cards :
                /\ cards[n].finding = fixes[m].finding_index
                /\ cards[n].field = g /\ cards[n].round = round
          BY <1>1, <3>2 DEF FixesHaveCards
        <4>2. QED
          BY <2>3, <2>4, <4>1
      <3>3. QED
        BY <3>1, <3>2
    <2>8. CardsAreOfFixes'
      <3> SUFFICES ASSUME NEW n \in DOMAIN cards', NEW g \in F!Fields, cards'[n].field = g,
                          cards'[n].round = round
                   PROVE  \E m \in DOMAIN fixes :
                            Shown(m, g)' /\ fixes[m].finding_index = cards'[n].finding
        BY DEF CardsAreOfFixes
      <3>1. CASE n = last
        BY <2>3, <3>1 DEF k
      <3>2. CASE n \in DOMAIN cards
        BY <1>1, <2>3, <3>2 DEF CardsAreOfFixes
      <3>3. QED
        BY <2>4, <3>1, <3>2
    <2>9. CardsFit'
      <3>1. Fits(k, f, t)
        BY <1>3, <2>2 DEF Fits, Proposes, F!Fields, k
      <3>2. \A n \in DOMAIN cards' :
              Fits(cards'[n].finding, cards'[n].field, texts'[n]) /\ cards'[n].round <= round
        BY <1>1, <2>3, <2>4, <3>1 DEF CardsFit
      <3>3. QED
        BY <1>2, <3>2 DEF CardsFit, Fits, KindOf, F!Fields
    <2>10. QED
      BY <2>3, <2>6, <2>7, <2>8, <2>9 DEF CardsInv
  <1>6. QED
    BY <1>4, <1>5

(* Until the list is shown, the page has no card of this round.            *)
LEMMA CardsBeforeTheList ==
  ASSUME FixInv, pc \notin Showing, UNCHANGED <<findings, round, texts, cards>>,
         pc' = "report" => pc = "report",
         pc' \notin Showing \/ (at' = 1 /\ pc' # "script_card" /\ fixes' \in Seq(F!FindingFix))
  PROVE  CardsInv'
  <1>1. CardsPointToTexts /\ CardsFit /\ CardsAreOfFixes /\ CardsAreOnce
    BY DEF FixInv, CardsInv
  <1>2. \A n \in DOMAIN cards : ~ (cards[n].field \in F!Fields /\ cards[n].round = round)
    BY <1>1 DEF CardsAreOfFixes
  <1>3. CardsPointToTexts' /\ CardsAreOnce'
    BY <1>1 DEF CardsPointToTexts, CardsAreOnce, Cards, CardTexts, CardFields, F!Fields, F!TextKinds
  <1>4. CardsFit'
    BY <1>1 DEF CardsFit, Fits, KindOf, F!Fields
  <1>5. CardsAreOfFixes'
    BY <1>1, <1>2 DEF CardsAreOfFixes, F!Fields
  <1>6. FixesHaveCards'
    BY DEF FixesHaveCards, Shown
  <1>7. QED
    BY <1>3, <1>4, <1>5, <1>6 DEF CardsInv

(* Once complete, the list stays.                                          *)
LEMMA ListStays ==
  ASSUME FixInv, UNCHANGED <<findings, reply, fixes>>,
         pc \in Extracted, pc' \in Extracted \ {"assemble"},
         pc = "assemble" => at \notin DOMAIN findings
  PROVE  FixesAreKept'
  <1>1. FixesAreKept /\ FixInputOK /\ at \in Nat
    BY DEF FixInv, FixPhase
  <1>2. pc = "assemble" => \A k \in DOMAIN findings : k < at
    <2>1. PICK n \in 0 .. MaxFindings : findings \in [0 .. n - 1 -> BOOLEAN]
      BY <1>1 DEF FixInputOK
    <2>2. n \in Nat /\ DOMAIN findings = 0 .. n - 1
      BY <2>1, BoundsAreNat
    <2>3. QED
      BY <1>1, <2>2
  <1>3. \A k \in DOMAIN findings :
          Proposes(k) => \E m \in DOMAIN fixes : fixes[m].finding_index = k
    BY <1>1, <1>2 DEF FixesAreKept
  <1>4. QED
    BY <1>1, <1>3, FixInputKept DEF FixesAreKept

(* A step before the extraction is over: there is no list yet.             *)
LEMMA NoListYet ==
  ASSUME FixInv, UNCHANGED <<findings, fixes>>, FixInputOK', pc \notin Extracted,
         pc' \notin Extracted \/ (pc' = "assemble" /\ at' = 0)
  PROVE  FixesAreKept'
  <1>1. fixes' = <<>>
    BY DEF FixInv, FixesAreKept
  <1>2. \A k \in DOMAIN findings : k \in Nat
    BY FixTypes DEF FixInv
  <1>3. ASSUME pc' \in Extracted, NEW k \in DOMAIN findings
        PROVE  ~ (k < at')
    BY <1>2, <1>3
  <1>4. pc' \in Extracted => pc' = "assemble"
    OBVIOUS
  <1>5. fixes' \in Seq(F!FindingFix)' /\ DOMAIN fixes' = {}
    BY <1>1
  <1>6. QED
    BY <1>1, <1>3, <1>4, <1>5 DEF FixesAreKept

LEMMA StepShowFinding == FixInv /\ F!ShowFinding /\ UNCHANGED findings => FixInv'
  <1> SUFFICES ASSUME FixInv, F!ShowFinding, UNCHANGED findings PROVE FixInv'
    OBVIOUS
  <1>1. /\ pc = "report" /\ pc' = "report" /\ at \in DOMAIN findings /\ at' = at + 1
        /\ UNCHANGED <<round, wire, reply, prompt, reason, rewrites, scripts, fixes, note>>
    BY DEF F!ShowFinding, F!answer, F!Indexes
  <1>2. /\ FixInputOK' /\ FixAsked' /\ FixExtracted' /\ FixRaises' /\ FixPhase' /\ F!TypeOK'
        /\ at \in Nat /\ round \in Nat
    BY <1>1, FixInputKept DEF FixInv, FixAsked, Asked, FixExtracted, FixRaises, Extracted, FixPhase,
       Showing, F!TypeOK
  <1>3. FixesAreKept'
    BY <1>1, <1>2, NoListYet DEF Extracted
  <1>4. CASE UNCHANGED <<texts, cards>>
    BY <1>1, <1>2, <1>3, <1>4, CardsBeforeTheList DEF FixInv, Showing
  <1>5. ASSUME NEW f \in {"suggested_fix", "model_suggested_fix"},
               F!AddCard(at, F!Text(f, at, "none")),
               f = "suggested_fix" <=> findings[at]
        PROVE  FixInv'
    <2> DEFINE t == F!Text(f, at, "none")
               last == Len(cards) + 1
    <2>1. CardsPointToTexts /\ CardsFit /\ CardsAreOfFixes /\ CardsAreOnce
      BY DEF FixInv, CardsInv
    <2>2. t \in CardTexts /\ t.field = f /\ t.for = at
      BY <1>2 DEF CardTexts, CardFields, F!Text, F!TextKinds
    <2>3. f \notin F!Fields
      BY DEF F!Fields
    <2>4. F!AddCard(at, t)
      BY <1>5
    <2> HIDE DEF t
    <2>5. /\ CardsPointToTexts'
          /\ Len(cards) \in Nat /\ DOMAIN cards = 1 .. Len(cards) /\ DOMAIN cards' = 1 .. last
          /\ \A n \in DOMAIN cards : cards'[n] = cards[n] /\ texts'[n] = texts[n]
          /\ cards'[last].finding = at /\ cards'[last].field = f /\ cards'[last].round = round
          /\ texts'[last] = t
      BY <1>2, <2>1, <2>2, <2>4, AddedCard
    <2>6. \A n \in DOMAIN cards' : n \in DOMAIN cards \/ n = last
      BY <2>5
    <2>7. \A n \in DOMAIN cards : cards[n].field \notin F!Fields
      BY <1>1, <2>1 DEF CardsFit
    <2>8. \A n \in DOMAIN cards' : cards'[n].field \notin F!Fields
      BY <2>3, <2>5, <2>6, <2>7
    <2>9. CardsAreOfFixes' /\ CardsAreOnce' /\ FixesHaveCards'
      BY <1>1, <2>8 DEF CardsAreOfFixes, CardsAreOnce, FixesHaveCards, Showing, F!Fields
    <2>10. Fits(at, f, t)
      BY <1>5, <2>2, <2>3 DEF Fits
    <2>11. \A n \in DOMAIN cards' :
             Fits(cards'[n].finding, cards'[n].field, texts'[n]) /\ cards'[n].round <= round
      BY <1>2, <2>1, <2>5, <2>6, <2>10 DEF CardsFit
    <2>12. CardsFit'
      BY <1>1, <2>8, <2>11 DEF CardsFit, Fits, KindOf, F!Fields
    <2>13. QED
      BY <1>2, <1>3, <2>5, <2>9, <2>12 DEF FixInv, CardsInv
  <1>6. QED
    BY <1>4, <1>5 DEF F!ShowFinding

(* A click starts a round without cards; the earlier ones stay as they     *)
(* are.                                                                    *)
LEMMA StepStart == FixInv /\ F!Start /\ UNCHANGED findings => FixInv'
  <1> SUFFICES ASSUME FixInv, F!Start, UNCHANGED findings PROVE FixInv'
    OBVIOUS
  <1>1. /\ pc' = "ask" /\ at' = 0 /\ round' = round + 1 /\ round < MaxRounds
        /\ prompt' = F!BuildFixPrompt(findings) /\ wire' = "unused" /\ reply' = <<>>
        /\ reason' = "none" /\ fixes' = <<>> /\ note' = "hidden"
        /\ UNCHANGED <<texts, cards>>
    BY DEF F!Start, F!ClickPropose
  <1>2. round \in Nat /\ round + 1 \in 0 .. MaxRounds
    BY <1>1, BoundsAreNat DEF FixInv, FixPhase
  <1>3. FixInputOK'
    <2>1. 0 \in 0 .. MaxItems /\ <<>> \in [1 .. 0 -> F!Items]
      BY BoundsAreNat
    <2>2. \E n \in 0 .. MaxFindings : findings \in [0 .. n - 1 -> BOOLEAN]
      BY DEF FixInv, FixInputOK
    <2>3. QED
      BY <1>1, <2>1, <2>2 DEF FixInputOK, F!Items, F!TextKinds
  <1>4. FixAsked' /\ FixExtracted' /\ FixRaises' /\ FixPhase' /\ F!TypeOK'
    BY <1>1, <1>2 DEF FixAsked, Asked, FixExtracted, FixRaises, Extracted, FixPhase, Showing,
       F!TypeOK, F!BuildFixPrompt
  <1>5. FixesAreKept'
    BY <1>1 DEF FixesAreKept, Extracted
  <1>6. CardsPointToTexts /\ CardsFit /\ CardsAreOnce
    BY DEF FixInv, CardsInv
  <1>7. \A n \in DOMAIN cards : cards[n].round <= round /\ cards[n].round \in Nat
    <2>1. cards \in Seq(Cards)
      BY <1>6 DEF CardsPointToTexts
    <2>2. \A n \in DOMAIN cards : cards[n] \in Cards
      BY <2>1
    <2>3. QED
      BY <1>6, <2>2 DEF CardsFit, Cards
  <1>8. \A n \in DOMAIN cards : cards[n].round # round + 1 /\ cards[n].round <= round + 1
    BY <1>2, <1>7
  <1>9. CardsPointToTexts' /\ CardsAreOnce'
    BY <1>1, <1>6 DEF CardsPointToTexts, CardsAreOnce, Cards, CardTexts, CardFields, F!Fields,
       F!TextKinds
  <1>10. CardsFit'
    BY <1>1, <1>6, <1>8 DEF CardsFit, Fits, KindOf, F!Fields
  <1>11. CardsAreOfFixes' /\ FixesHaveCards'
    BY <1>1, <1>8 DEF CardsAreOfFixes, FixesHaveCards, Showing
  <1>12. QED
    BY <1>3, <1>4, <1>5, <1>9, <1>10, <1>11 DEF FixInv, CardsInv

(* From the request to the two dictionaries the page does not change.      *)
LEMMA StepAsking ==
  ASSUME FixInv, UNCHANGED findings,
         F!Ask \/ F!ExtractRewrites \/ F!ExtractScripts
  PROVE  FixInv'
  <1> USE DEF F!Goto, F!answer, F!page
  <1>1. /\ UNCHANGED <<round, prompt, fixes, texts, cards, note>>
        /\ pc \notin Extracted /\ pc' \notin Showing /\ pc # "report"
        /\ pc' \notin Extracted \/ (pc' = "assemble" /\ at' = 0)
        /\ pc' \in {"raised", "rewrites", "scripts", "assemble"}
    BY DEF F!Ask, F!ExtractRewrites, F!ExtractScripts, Extracted, Showing
  <1>2. prompt' = F!BuildFixPrompt(findings)'
    BY <1>1 DEF FixInv, FixAsked, F!BuildFixPrompt
  <1>3. /\ FixInputOK' /\ FixAsked' /\ FixExtracted' /\ FixRaises' /\ FixPhase'
        /\ reason' \in {"none", "client_error", "invalid_response_shape"}
    <2>1. CASE F!Ask
      <3>1. PICK w \in F!Wire :
              /\ wire' = w
              /\ \/ w = "inner_dict" /\ \E n \in 0 .. MaxItems : reply' \in [1 .. n -> F!Items]
                 \/ w # "inner_dict" /\ reply' = <<>>
              /\ pc' = (IF F!ClientResult(w) = "uncaught" THEN "raised" ELSE "rewrites")
              /\ reason' = F!ReasonOf(w)
        BY <2>1 DEF F!Ask
      <3>2. FixInputOK'
        <4>1. 0 \in 0 .. MaxItems /\ <<>> \in [1 .. 0 -> F!Items]
          BY BoundsAreNat
        <4>2. \E m \in 0 .. MaxItems : reply' \in [1 .. m -> F!Items]
          BY <3>1, <4>1
        <4>3. QED
          BY <4>2 DEF FixInv, FixInputOK, F!Items, F!TextKinds
      <3>3. reason' \in {"none", "client_error", "invalid_response_shape"}
        BY <3>1 DEF F!ReasonOf
      <3>4. UNCHANGED at
        BY <2>1 DEF F!Ask
      <3>5. FixAsked' /\ FixExtracted' /\ FixPhase'
        BY <1>1, <1>2, <3>1, <3>4 DEF FixInv, FixAsked, Asked, FixExtracted, FixPhase, Showing
      <3>6. FixRaises'
        BY <3>1 DEF FixRaises, F!Crashes, Extracted
      <3>7. QED
        BY <3>2, <3>3, <3>5, <3>6
    <2>2. CASE F!ExtractRewrites
      <3>1. /\ UNCHANGED <<at, wire, reply, reason>> /\ pc = "rewrites"
            /\ \/ pc' = "raised" /\ F!LoopRaises("rewritten_query")
               \/ /\ pc' = "scripts" /\ ~ F!LoopRaises("rewritten_query")
                  /\ rewrites' = [k \in DOMAIN findings |-> F!Kept("rewritten_query", k)]
        BY <2>2 DEF F!ExtractRewrites, F!Indexes
      <3>2. FixAsked'
        BY <1>2, <3>1 DEF FixInv, FixAsked, Asked
      <3>3. FixExtracted'
        BY <3>1, FixInputKept DEF FixExtracted
      <3>4. FixRaises'
        BY <3>1, FixInputKept DEF FixRaises, Extracted, F!Crashes, F!Fields
      <3>5. QED
        BY <1>1, <3>1, <3>2, <3>3, <3>4, FixInputKept DEF FixInv, FixPhase, Showing, F!TypeOK
    <2>3. CASE F!ExtractScripts
      <3>1. /\ UNCHANGED <<wire, reply, reason, rewrites>> /\ pc = "scripts"
            /\ at' \in {0, at}
            /\ \/ pc' = "raised" /\ F!LoopRaises("index_script")
               \/ /\ pc' = "assemble" /\ ~ F!LoopRaises("index_script")
                  /\ scripts' = [k \in DOMAIN findings |-> F!Kept("index_script", k)]
        BY <2>3 DEF F!ExtractScripts, F!Indexes
      <3>2. FixAsked'
        BY <1>2, <3>1 DEF FixInv, FixAsked, Asked
      <3>3. rewrites = [k \in DOMAIN findings |-> F!Kept("rewritten_query", k)]
        BY <3>1 DEF FixInv, FixExtracted
      <3>4. FixExtracted'
        BY <3>1, <3>3, FixInputKept DEF FixExtracted
      <3>5. FixRaises'
        <4>1. ~ F!LoopRaises("rewritten_query") /\ F!ClientResult(wire) # "uncaught"
          BY <3>1 DEF FixInv, FixRaises, FixAsked, Asked
        <4>2. QED
          BY <3>1, <4>1, FixInputKept DEF FixRaises, Extracted, F!Crashes, F!Fields
      <3>6. QED
        BY <1>1, <3>1, <3>2, <3>4, <3>5, FixInputKept DEF FixInv, FixPhase, Showing, F!TypeOK
    <2>4. QED
      BY <2>1, <2>2, <2>3
  <1>4. FixesAreKept'
    BY <1>1, <1>3, NoListYet
  <1>5. fixes' = <<>>
    BY <1>1 DEF FixInv, FixesAreKept
  <1>6. F!TypeOK'
    BY <1>1, <1>3, <1>5 DEF FixInv, F!TypeOK
  <1>7. pc \notin Showing
    BY <1>1 DEF Extracted, Showing
  <1>8. QED
    BY <1>1, <1>3, <1>4, <1>6, <1>7, CardsBeforeTheList DEF FixInv

(* The page's note of a call that raised.                                  *)
LEMMA StepShowFailure == FixInv /\ F!ShowFailure /\ UNCHANGED findings => FixInv'
  <1> SUFFICES ASSUME FixInv, F!ShowFailure, UNCHANGED findings PROVE FixInv'
    OBVIOUS
  <1>1. /\ pc = "raised" /\ pc' = "failed" /\ note' = "failed"
        /\ UNCHANGED <<round, at, wire, reply, prompt, reason, rewrites, scripts, fixes, texts, cards>>
    BY DEF F!ShowFailure, F!answer, F!Goto
  <1>2. FixInputOK' /\ FixAsked' /\ FixExtracted' /\ FixRaises' /\ FixPhase' /\ F!TypeOK'
    BY <1>1, FixInputKept DEF FixInv, FixAsked, Asked, F!BuildFixPrompt, FixExtracted, FixRaises,
       Extracted, FixPhase, Showing, F!TypeOK
  <1>3. FixesAreKept'
    BY <1>1, <1>2, NoListYet DEF Extracted
  <1>4. CardsInv'
    BY <1>1, CardsBeforeTheList DEF Showing
  <1>5. QED
    BY <1>2, <1>3, <1>4 DEF FixInv

LEMMA StepAssemble == FixInv /\ F!Assemble /\ UNCHANGED findings => FixInv'
  <1> SUFFICES ASSUME FixInv, F!Assemble, UNCHANGED findings PROVE FixInv'
    OBVIOUS
  <1>1. /\ pc = "assemble" /\ pc' = "assemble" /\ at \in DOMAIN findings /\ at' = at + 1
        /\ UNCHANGED <<round, wire, reply, prompt, reason, rewrites, scripts, texts, cards, note>>
    BY DEF F!Assemble, F!answer, F!page, F!Indexes
  <1>2. FixInputOK /\ FixesAreKept /\ at \in Nat
    BY DEF FixInv, FixPhase
  <1>3. /\ rewrites = [k \in DOMAIN findings |-> F!Kept("rewritten_query", k)]
        /\ scripts = [k \in DOMAIN findings |-> F!Kept("index_script", k)]
    BY <1>1 DEF FixInv, FixExtracted
  <1>4. F!HasFix(at) <=> Proposes(at)
    BY <1>1, <1>3 DEF F!HasFix, Proposes
  <1>5. FixInputOK' /\ FixAsked' /\ FixExtracted' /\ FixRaises' /\ FixPhase'
    <2>1. FixAsked'
      BY <1>1 DEF FixInv, FixAsked, Asked, F!BuildFixPrompt
    <2>2. FixExtracted'
      BY <1>1, <1>3, FixInputKept DEF FixExtracted
    <2>3. FixRaises'
      BY <1>1, FixInputKept DEF FixInv, FixRaises, Extracted
    <2>4. round \in Nat
      BY DEF FixInv, FixPhase
    <2>5. QED
      BY <1>1, <1>2, <2>1, <2>2, <2>3, <2>4, FixInputKept DEF FixPhase, Showing
  <1>6. CardsInv'
    BY <1>1, CardsBeforeTheList DEF Showing
  <1>7. DOMAIN findings \subseteq Nat /\ at + 1 \in Nat
        /\ \A k \in DOMAIN findings : k < at + 1 <=> k < at \/ k = at
    BY <1>2, FixTypes
  <1>8. CASE Proposes(at)
    <2> DEFINE fix == [finding_index   |-> at,
                       rewritten_query |-> F!Kept("rewritten_query", at),
                       index_script    |-> F!Kept("index_script", at)]
    <2>1. fixes' = Append(fixes, fix)
      BY <1>1, <1>3, <1>4, <1>8 DEF F!Assemble
    <2>2. fix \in F!FindingFix
      BY <1>1, <1>2, KeptIsAccepted DEF F!FindingFix, F!Indexes, F!Fields
    <2>3. fix.finding_index = at /\ \A f \in F!Fields : fix[f] = F!Kept(f, at)
      BY DEF F!Fields
    <2> HIDE DEF fix
    <2>4. fixes \in Seq(F!FindingFix)
      BY <1>2 DEF FixesAreKept
    <2>5. /\ fixes' \in Seq(F!FindingFix) /\ Len(fixes) \in Nat
          /\ DOMAIN fixes = 1 .. Len(fixes) /\ DOMAIN fixes' = 1 .. Len(fixes) + 1
          /\ \A m \in DOMAIN fixes : fixes'[m] = fixes[m]
          /\ fixes'[Len(fixes) + 1] = fix
      BY <2>1, <2>2, <2>4
    <2>6. \A m \in DOMAIN fixes' : m \in DOMAIN fixes \/ m = Len(fixes) + 1
      BY <2>5
    <2>7. \A m \in DOMAIN fixes' :
            /\ Proposes(fixes'[m].finding_index)
            /\ \A f \in F!Fields : fixes'[m][f] = F!Kept(f, fixes'[m].finding_index)
            /\ fixes'[m].finding_index < at + 1
      <3>1. ASSUME NEW m \in DOMAIN fixes
            PROVE  /\ Proposes(fixes'[m].finding_index)
                   /\ \A f \in F!Fields : fixes'[m][f] = F!Kept(f, fixes'[m].finding_index)
                   /\ fixes'[m].finding_index < at + 1
        <4>1. fixes[m] \in F!FindingFix
          BY <2>4
        <4>2. fixes[m].finding_index \in DOMAIN findings
          BY <4>1 DEF F!FindingFix, F!Indexes
        <4>3. QED
          BY <1>1, <1>2, <1>7, <2>5, <4>2 DEF FixesAreKept
      <3>2. QED
        BY <1>2, <1>8, <2>3, <2>5, <2>6, <3>1
    <2>8. \A m, n \in DOMAIN fixes' :
            fixes'[m].finding_index = fixes'[n].finding_index => m = n
      <3>1. \A m \in DOMAIN fixes : fixes[m].finding_index < at
        BY <1>1, <1>2 DEF FixesAreKept
      <3>2. \A m \in DOMAIN fixes : fixes[m].finding_index # at
        BY <1>2, <3>1
      <3>3. QED
        BY <1>2, <2>3, <2>5, <2>6, <3>2 DEF FixesAreKept
    <2>9. \A k \in DOMAIN findings : Proposes(k) /\ k < at + 1 =>
            \E m \in DOMAIN fixes' : fixes'[m].finding_index = k
      <3> SUFFICES ASSUME NEW k \in DOMAIN findings, Proposes(k), k < at + 1
                   PROVE  \E m \in DOMAIN fixes' : fixes'[m].finding_index = k
        OBVIOUS
      <3>1. CASE k = at
        BY <2>3, <2>5, <3>1
      <3>2. CASE k < at
        <4>1. PICK m \in DOMAIN fixes : fixes[m].finding_index = k
          BY <1>1, <1>2, <3>2 DEF FixesAreKept, Extracted
        <4>2. QED
          BY <2>5, <4>1
      <3>3. QED
        BY <1>7, <3>1, <3>2
    <2>10. FixesAreKept'
      BY <1>1, <2>5, <2>7, <2>8, <2>9, FixInputKept DEF FixesAreKept, Extracted
    <2>11. F!TypeOK'
      <3>1. \A m \in DOMAIN fixes' : fixes'[m] \in F!FindingFix'
        BY <1>1, <2>5, FixInputKept
      <3>2. QED
        BY <1>1, <3>1 DEF FixInv, F!TypeOK
    <2>12. QED
      BY <1>5, <1>6, <2>10, <2>11 DEF FixInv
  <1>9. CASE ~ Proposes(at)
    <2>1. fixes' = fixes
      BY <1>1, <1>4, <1>9 DEF F!Assemble
    <2>2. \A m \in DOMAIN fixes : fixes[m].finding_index < at + 1
      <3> SUFFICES ASSUME NEW m \in DOMAIN fixes PROVE fixes[m].finding_index < at + 1
        OBVIOUS
      <3>1. fixes[m] \in F!FindingFix /\ fixes[m].finding_index < at
        BY <1>1, <1>2 DEF FixesAreKept
      <3>2. QED
        BY <1>7, <3>1 DEF F!FindingFix, F!Indexes
    <2>3. \A k \in DOMAIN findings : Proposes(k) /\ k < at + 1 =>
            \E m \in DOMAIN fixes : fixes[m].finding_index = k
      BY <1>1, <1>2, <1>7, <1>9 DEF FixesAreKept, Extracted
    <2>4. FixesAreKept'
      BY <1>1, <1>2, <2>1, <2>2, <2>3, FixInputKept DEF FixesAreKept, Extracted
    <2>5. F!TypeOK'
      BY <1>1, <2>1 DEF FixInv, F!TypeOK, F!FindingFix, F!Indexes
    <2>6. QED
      BY <1>5, <1>6, <2>4, <2>5 DEF FixInv
  <1>10. QED
    BY <1>8, <1>9

(* The steps that show the list: what else they leave in place.            *)
LEMMA ShowingKept ==
  ASSUME FixInv, pc \in Extracted, pc' \in Showing,
         UNCHANGED <<findings, wire, reply, prompt, reason, fixes>>
  PROVE  /\ FixInputOK' /\ FixAsked' /\ FixExtracted' /\ FixRaises'
         /\ F!NoteText' = F!NoteText
  <1>1. FixAsked'
    BY DEF FixInv, FixAsked, Asked, F!BuildFixPrompt, Extracted, Showing
  <1>2. FixExtracted'
    BY DEF FixExtracted, Showing
  <1>3. FixRaises'
    BY FixInputKept DEF FixInv, FixRaises, Extracted, Showing
  <1>4. QED
    BY <1>1, <1>2, <1>3, FixInputKept DEF FixInv, F!NoteText, F!Degraded

LEMMA StepShowNote == FixInv /\ F!ShowNote /\ UNCHANGED findings => FixInv'
  <1> SUFFICES ASSUME FixInv, F!ShowNote, UNCHANGED findings PROVE FixInv'
    OBVIOUS
  <1>1. /\ pc = "assemble" /\ at \notin DOMAIN findings /\ at' = 1 /\ note' = F!NoteText
        /\ pc' = (IF F!NoteText = "hidden" THEN "rewrite_card" ELSE "shown")
        /\ UNCHANGED <<round, wire, reply, prompt, reason, rewrites, scripts, fixes, texts, cards>>
    BY DEF F!ShowNote, F!answer, F!Goto, F!Indexes
  <1>2. pc \in Extracted /\ pc' \in Extracted \ {"assemble"} /\ pc' \in Showing
    BY <1>1 DEF Extracted, Showing
  <1>3. FixesAreKept'
    BY <1>1, <1>2, ListStays
  <1>4. FixInputOK' /\ FixAsked' /\ FixExtracted' /\ FixRaises' /\ F!NoteText' = F!NoteText
    BY <1>1, <1>2, ShowingKept
  <1>5. fixes \in Seq(F!FindingFix) /\ Len(fixes) \in Nat
    BY DEF FixInv, FixesAreKept
  <1>6. CardsInv'
    BY <1>1, <1>5, CardsBeforeTheList DEF Showing
  <1>7. FixPhase'
    BY <1>1, <1>4, <1>5 DEF FixInv, FixPhase
  <1>8. F!TypeOK'
    BY <1>1 DEF FixInv, F!TypeOK, F!NoteText, F!FindingFix, F!Indexes
  <1>9. QED
    BY <1>3, <1>4, <1>6, <1>7, <1>8 DEF FixInv

LEMMA StepShowCards ==
  FixInv /\ (F!ShowRewrite \/ F!ShowScript \/ F!ShowEnd) /\ UNCHANGED findings => FixInv'
  <1> SUFFICES ASSUME FixInv, F!ShowRewrite \/ F!ShowScript \/ F!ShowEnd, UNCHANGED findings
               PROVE  FixInv'
    OBVIOUS
  <1>1. /\ UNCHANGED <<round, wire, reply, prompt, reason, rewrites, scripts, fixes, note>>
        /\ pc \in {"rewrite_card", "script_card"} /\ pc' \in Showing
    BY DEF F!ShowRewrite, F!ShowScript, F!ShowEnd, F!answer, F!page, F!Goto, Showing
  <1>2. pc \in Extracted /\ pc' \in Extracted \ {"assemble"} /\ pc \in Showing
    BY <1>1 DEF Extracted, Showing
  <1>3. FixesAreKept'
    BY <1>1, <1>2, ListStays
  <1>4. FixInputOK' /\ FixAsked' /\ FixExtracted' /\ FixRaises' /\ F!NoteText' = F!NoteText
    BY <1>1, <1>2, ShowingKept
  <1>5. /\ fixes \in Seq(F!FindingFix) /\ Len(fixes) \in Nat /\ DOMAIN fixes = 1 .. Len(fixes)
        /\ round \in Nat /\ at \in Nat /\ at >= 1 /\ note = "hidden" /\ note = F!NoteText
        /\ pc = "rewrite_card" => at <= Len(fixes) + 1
        /\ pc = "script_card" => at <= Len(fixes)
    BY <1>1, <1>2 DEF FixInv, FixesAreKept, FixPhase
  <1>6. F!TypeOK'
    BY <1>1 DEF FixInv, F!TypeOK, F!FindingFix, F!Indexes, Showing
  <1>7. CASE F!ShowRewrite
    <2>1. /\ pc = "rewrite_card" /\ pc' = "script_card" /\ at' = at /\ at \in DOMAIN fixes
          /\ F!ShowText("rewritten_query")
      BY <1>7 DEF F!ShowRewrite, F!Goto
    <2>2. FixPhase'
      BY <1>1, <1>4, <1>5, <2>1 DEF FixPhase
    <2>3. ~ Shown(at, "rewritten_query")
      BY <1>5, <2>1 DEF Shown
    <2>4. \A m \in DOMAIN fixes, g \in F!Fields :
            Shown(m, g)' <=> Shown(m, g) \/ (m = at /\ g = "rewritten_query")
      BY <2>1 DEF Shown
    <2>5. "rewritten_query" \in F!Fields
      BY DEF F!Fields
    <2>6. CardsInv'
      BY <1>1, <1>2, <2>1, <2>3, <2>4, <2>5, ShownText
    <2>7. QED
      BY <1>3, <1>4, <1>6, <2>2, <2>6 DEF FixInv
  <1>8. CASE F!ShowScript
    <2>1. /\ pc = "script_card" /\ pc' = "rewrite_card" /\ at' = at + 1
          /\ F!ShowText("index_script")
      BY <1>8 DEF F!ShowScript, F!Goto
    <2>2. at \in DOMAIN fixes
      BY <1>5, <2>1
    <2>3. FixPhase'
      BY <1>1, <1>4, <1>5, <2>1 DEF FixPhase
    <2>4. ~ Shown(at, "index_script")
      BY <1>5, <2>1 DEF Shown
    <2>5. \A m \in DOMAIN fixes, g \in F!Fields :
            Shown(m, g)' <=> Shown(m, g) \/ (m = at /\ g = "index_script")
      BY <1>5, <2>1 DEF Shown, F!Fields
    <2>6. "index_script" \in F!Fields
      BY DEF F!Fields
    <2>7. CardsInv'
      BY <1>1, <1>2, <2>1, <2>2, <2>4, <2>5, <2>6, ShownText
    <2>8. QED
      BY <1>3, <1>4, <1>6, <2>3, <2>7 DEF FixInv
  <1>9. CASE F!ShowEnd
    <2>1. /\ pc = "rewrite_card" /\ pc' = "shown" /\ at \notin DOMAIN fixes
          /\ UNCHANGED <<at, texts, cards>>
      BY <1>9 DEF F!ShowEnd, F!Goto, F!page
    <2>2. FixPhase'
      BY <1>1, <1>4, <1>5, <2>1 DEF FixPhase
    <2>3. \A m, f : Shown(m, f)' <=> Shown(m, f)
      BY <2>1 DEF Shown
    <2>4. /\ CardsPointToTexts /\ CardsFit /\ CardsAreOfFixes /\ CardsAreOnce /\ FixesHaveCards
      BY DEF FixInv, CardsInv
    <2>5. CardsPointToTexts' /\ CardsAreOnce'
      BY <2>1, <2>4 DEF CardsPointToTexts, CardsAreOnce, Cards, CardTexts, CardFields, F!Fields,
         F!TextKinds
    <2>6. CardsFit'
      BY <1>1, <2>1, <2>4 DEF CardsFit, Fits, KindOf, F!Fields
    <2>7. CardsAreOfFixes'
      BY <1>1, <2>1, <2>3, <2>4 DEF CardsAreOfFixes, F!Fields
    <2>8. FixesHaveCards'
      BY <1>1, <1>2, <2>1, <2>3, <2>4 DEF FixesHaveCards, F!Fields
    <2>9. QED
      BY <1>3, <1>4, <1>6, <2>2, <2>5, <2>6, <2>7, <2>8 DEF FixInv, CardsInv
  <1>10. QED
    BY <1>7, <1>8, <1>9

LEMMA StutterFix ==
  ASSUME FixInv,
         UNCHANGED <<sharedVars, proposalVars>>
  PROVE  FixInv'
  <1>1. UNCHANGED <<findings, round, wire, reply, pc, prompt, reason, at, rewrites, scripts, fixes,
                    texts, cards, note>>
    BY DEF sharedVars, proposalVars
  <1>2. FixInputOK' /\ FixAsked' /\ FixExtracted' /\ FixRaises' /\ FixesAreKept' /\ F!TypeOK'
    BY <1>1, FixInputKept DEF FixInv, FixAsked, F!BuildFixPrompt, FixExtracted, FixRaises,
       FixesAreKept, F!TypeOK
  <1>3. CardsPointToTexts /\ CardsFit /\ CardsAreOfFixes /\ CardsAreOnce /\ FixesHaveCards
    BY DEF FixInv, CardsInv
  <1>4. FixPhase'
    BY <1>1 DEF FixInv, FixPhase, F!NoteText, F!Degraded
  <1>5. CardsPointToTexts' /\ CardsAreOnce'
    BY <1>1, <1>3 DEF CardsPointToTexts, CardsAreOnce, Cards, CardTexts, CardFields, F!Fields,
       F!TextKinds
  <1>6. CardsFit'
    BY <1>1, <1>3 DEF CardsFit, Fits, KindOf, F!Fields
  <1>7. \A m, f : Shown(m, f)' <=> Shown(m, f)
    BY <1>1 DEF Shown
  <1>8. CardsAreOfFixes' /\ FixesHaveCards'
    BY <1>1, <1>3, <1>7 DEF CardsAreOfFixes, FixesHaveCards, F!Fields
  <1>9. QED
    BY <1>2, <1>4, <1>5, <1>6, <1>8 DEF FixInv, CardsInv

LEMMA CallInitFix == CallInit => (Proposing => FixInv)
  BY InitFix DEF CallInit, Proposing

LEMMA CallStepFix ==
  (Proposing => FixInv) /\ [CallNext]_callVars => (Proposing => FixInv)'
  <1> SUFFICES ASSUME Proposing => FixInv, [CallNext]_callVars, Proposing'
               PROVE  FixInv'
    OBVIOUS
  <1>1. Proposing /\ FixInv
    BY DEF CallNext, callVars, Proposing
  <1>2. CASE F!Next
    BY <1>1, <1>2, StepShowFinding, StepStart, StepAsking, StepAssemble, StepShowNote,
       StepShowCards, StepShowFailure DEF F!Next
  <1>3. CASE UNCHANGED callVars
    BY <1>1, <1>3, StutterFix DEF callVars
  <1>4. QED
    BY <1>1, <1>2, <1>3 DEF CallNext, Narrating, Proposing

(* The proposals are the kept texts of the open findings, the cards those. *)
THEOREM FixInductive == CallSpec => [](Proposing => FixInv)
  BY CallInitFix, CallStepFix, PTL DEF CallSpec

-----------------------------------------------------------------------------

(* The variables of the call that is made keep their types.                *)
THEOREM CallsAreTyped == CallSpec => []CallTypeOK
  <1>1. IndInv /\ (Narrating => NarrationInv) /\ (Proposing => FixInv) => CallTypeOK
    BY DEF IndInv, NarrationInv, FixInv, CallTypeOK
  <1>2. QED
    BY <1>1, LoopInductive, NarrationInductive, FixInductive, PTL

(* However often proposals are asked for, what a Copy button copies is its *)
(* card's text; SQL of the model was accepted by the validator of the      *)
(* card's kind, and was given under the index the model was told for a     *)
(* finding Tier 0 left open (fix_engine.py 58-109, app.js 172-194, 351).   *)
THEOREM CopiedFixesValidated == CallSpec => []CopiedFixesAreValidated
  <1>1. ASSUME FixInv, NEW n \in DOMAIN cards
        PROVE  LET c == cards[n]
                   copied == F!Copied(c)
               IN /\ c.index + 1 \in DOMAIN texts /\ copied.field = c.field
                  /\ c.field = "suggested_fix" => copied.for = c.finding /\ findings[c.finding]
                  /\ c.field = "model_suggested_fix" =>
                       copied.for = c.finding /\ ~findings[c.finding]
                  /\ c.field \in F!Fields =>
                       /\ ~findings[c.finding]
                       /\ copied.for = prompt[c.finding].finding_index
                       /\ copied.kind = IF c.field = "rewritten_query" THEN "select" ELSE "index"
    <2>1. CardsPointToTexts /\ CardsFit /\ FixAsked
      BY <1>1 DEF FixInv, CardsInv
    <2>2. /\ cards[n].index + 1 = n /\ n \in DOMAIN texts
          /\ texts[n].field = cards[n].field
      <3>1. /\ cards \in Seq(Cards) /\ texts \in Seq(CardTexts) /\ Len(cards) = Len(texts)
            /\ cards[n].index = n - 1 /\ texts[n].field = cards[n].field
        BY <1>1, <2>1 DEF CardsPointToTexts
      <3>2. n \in Nat /\ DOMAIN cards = DOMAIN texts
        BY <1>1, <3>1
      <3>3. QED
        BY <1>1, <3>1, <3>2
    <2>3. F!Copied(cards[n]) = texts[n]
      BY <2>2 DEF F!Copied
    <2>4. Fits(cards[n].finding, cards[n].field, texts[n])
      BY <1>1, <2>1 DEF CardsFit
    <2>5. ASSUME cards[n].field \in F!Fields
          PROVE  texts[n].for = prompt[cards[n].finding].finding_index
      <3>1. pc # "report"
        BY <1>1, <2>1, <2>5 DEF CardsFit
      <3>2. QED
        BY <2>1, <2>4, <2>5, <3>1 DEF FixAsked, Fits, F!BuildFixPrompt
    <2>6. "suggested_fix" \notin F!Fields /\ "model_suggested_fix" # "suggested_fix"
      BY DEF F!Fields
    <2>7. QED
      BY <2>2, <2>3, <2>4, <2>5, <2>6 DEF Fits, KindOf
  <1>2. (Proposing => FixInv) => CopiedFixesAreValidated
    BY <1>1 DEF CopiedFixesAreValidated, F!CopiedFixesAreValidated
  <1>3. QED
    BY <1>2, FixInductive, PTL

(* When an answer is on the page, every finding left open that some item   *)
(* of the reply has an acceptable text of a kind for has one card of that  *)
(* kind from this answer, and no second (fix_engine.py 55-69, app.js       *)
(* 317-352).                                                               *)
THEOREM UsableFixesAreShown == CallSpec => []NothingUsableIsLost
  <1>1. ASSUME FixInv, pc = "shown", NEW k \in DOMAIN findings, NEW f \in F!Fields,
               ~findings[k], F!Offered(f, k, "accepts") # {}
        PROVE  Cardinality({n \in DOMAIN cards : /\ cards[n].finding = k
                                                 /\ cards[n].field = f
                                                 /\ cards[n].round = round}) = 1
    <2>1. /\ FixInputOK /\ FixAsked /\ FixesAreKept /\ FixPhase /\ CardsAreOnce /\ FixesHaveCards
      BY <1>1 DEF FixInv, CardsInv
    <2>2. F!Kept(f, k) # 0
      BY <1>1, <2>1, KeptIsAccepted
    <2>3. Proposes(k)
      BY <1>1, <2>2 DEF Proposes, F!Fields
    <2>4. PICK m \in DOMAIN fixes : fixes[m].finding_index = k
      BY <1>1, <2>1, <2>3 DEF FixesAreKept, Extracted
    <2>5. fixes[m][f] # 0
      BY <2>1, <2>2, <2>4 DEF FixesAreKept
    <2>6. wire = "inner_dict"
      BY <1>1, <2>1 DEF F!Offered, FixAsked
    <2>7. note = "hidden"
      BY <1>1, <2>1, <2>4, <2>6
         DEF FixPhase, Showing, F!NoteText, F!Degraded, F!ClientResult
    <2>8. Shown(m, f)
      <3>1. fixes \in Seq(F!FindingFix) /\ at > Len(fixes) /\ at \in Nat
        BY <1>1, <2>1, <2>7 DEF FixPhase, FixesAreKept
      <3>2. QED
        BY <2>4, <3>1 DEF Shown
    <2>9. PICK n \in DOMAIN cards :
            cards[n].finding = k /\ cards[n].field = f /\ cards[n].round = round
      BY <1>1, <2>1, <2>4, <2>5, <2>8 DEF FixesHaveCards, Showing
    <2>10. {x \in DOMAIN cards : /\ cards[x].finding = k /\ cards[x].field = f
                                 /\ cards[x].round = round} = {n}
      BY <2>1, <2>9 DEF CardsAreOnce
    <2>11. QED
      BY <2>10, FS_Singleton
  <1>2. \A S : F!Cardinality(S) = Cardinality(S)
    BY DEF F!Cardinality, Cardinality
  <1>3. (Proposing => FixInv) => NothingUsableIsLost
    BY <1>1, <1>2 DEF NothingUsableIsLost, F!NothingUsableIsLost, F!Indexes
  <1>4. QED
    BY <1>3, FixInductive, PTL

(* After every answer the page says "unavailable" exactly when the         *)
(* exchange failed, that the call failed exactly when it raised, and       *)
(* nothing exactly when this answer added a card (fix_engine.py 71-80,     *)
(* app.js 317-352, 354-376).                                               *)
THEOREM NoteIsTheTruth == CallSpec => []NoteTellsWhatHappened
  <1>1. ASSUME FixInv, pc = "failed"
        PROVE  /\ note = "failed" /\ F!Crashes
               /\ \A n \in DOMAIN cards : ~ (cards[n].round = round /\ cards[n].field \in F!Fields)
    BY <1>1 DEF FixInv, FixPhase, FixRaises, CardsInv, CardsAreOfFixes, Showing
  <1>2. ASSUME FixInv, pc = "shown"
        PROVE  /\ ~ F!Crashes /\ note # "failed"
               /\ (note = "unavailable") <=> (wire # "inner_dict")
               /\ (note = "hidden") <=> \E n \in DOMAIN cards :
                                          cards[n].round = round /\ cards[n].field \in F!Fields
    <2>1. /\ FixInputOK /\ FixAsked /\ FixesAreKept /\ FixPhase /\ CardsAreOfFixes
          /\ FixesHaveCards /\ note = F!NoteText /\ at \in Nat
          /\ IF note = "hidden" THEN at > Len(fixes) ELSE at = 1
          /\ wire \in F!Wire /\ F!ClientResult(wire) # "uncaught"
          /\ fixes \in Seq(F!FindingFix)
      BY <1>2 DEF FixInv, CardsInv, FixPhase, FixAsked, FixesAreKept, Asked, Showing
    <2>2. F!Degraded <=> wire # "inner_dict"
      BY <2>1 DEF F!Degraded, F!ClientResult
    <2>3. (note = "unavailable") <=> (wire # "inner_dict")
      BY <2>1, <2>2 DEF F!NoteText
    <2>4. ~ F!Crashes /\ note # "failed"
      BY <1>2, <2>1 DEF FixInv, FixRaises, Extracted, F!NoteText
    <2>5. ASSUME note = "hidden"
          PROVE  \E n \in DOMAIN cards : cards[n].round = round /\ cards[n].field \in F!Fields
      <3>1. fixes # <<>>
        BY <2>1, <2>5 DEF F!NoteText
      <3>2. 1 \in DOMAIN fixes /\ 1 < at
        BY <2>1, <2>5, <3>1
      <3>3. PICK f \in F!Fields : fixes[1][f] # 0
        BY <2>1, <3>2 DEF FixesAreKept, Proposes, F!Fields
      <3>4. QED
        BY <1>2, <2>1, <3>2, <3>3 DEF FixesHaveCards, Shown, Showing
    <2>6. ASSUME NEW n \in DOMAIN cards, NEW f \in F!Fields, cards[n].field = f,
                 cards[n].round = round
          PROVE  note = "hidden"
      <3>1. PICK m \in DOMAIN fixes : Shown(m, f)
        BY <2>1, <2>6 DEF CardsAreOfFixes
      <3>2. m < at /\ m \in Nat /\ m >= 1
        BY <1>2, <2>1, <3>1 DEF Shown
      <3>3. QED
        BY <2>1, <3>2
    <2>7. QED
      BY <2>3, <2>4, <2>5, <2>6
  <1>3. (Proposing => FixInv) => NoteTellsWhatHappened
    BY <1>1, <1>2 DEF NoteTellsWhatHappened, F!NoteTellsWhatHappened
  <1>4. QED
    BY <1>3, FixInductive, PTL

=============================================================================
