-------------------------- MODULE ExtractionProofs --------------------------
(***************************************************************************)
(* The reply loop keeps its contract for any number of findings and for    *)
(* any reply of any length.                                                *)
(***************************************************************************)
EXTENDS Extraction, TLAPS

IndInv == TypeOK /\ FirstAcceptableWins

(* An item that is acceptable for some finding passes every guard.         *)
LEMMA AcceptableIsUsable ==
  ASSUME TypeOK, NEW k \in Indexes, NEW j \in 1 .. Len(items), Acceptable(k, j)
  PROVE  Usable(items[j]) /\ items[j].idx = k
  <1>1. k # NoIndex
    BY NoIndexIsNoInt, NumFindingsNat DEF Indexes
  <1>2. items[j].text # NoText
    BY NoTextIsNoText DEF Acceptable
  <1>3. QED
    BY <1>1, <1>2 DEF Acceptable, Usable

LEMMA InitIndInv == Init => IndInv
  <1> SUFFICES ASSUME Init PROVE IndInv
    OBVIOUS
  <1>1. items \in Seq(Items)
    BY RepliesAreLists DEF Init
  <1>2. Len(items) \in Nat
    BY <1>1
  <1>3. TypeOK
    BY <1>1, <1>2 DEF Init, TypeOK
  <1>4. FirstAcceptableWins
    BY DEF Init, FirstAcceptableWins
  <1>5. QED
    BY <1>3, <1>4 DEF IndInv

(* The types: each step moves i by at most one, never past the end.        *)
LEMMA StepTypeOK == TypeOK /\ [Next]_vars => TypeOK'
  <1> SUFFICES ASSUME TypeOK, [Next]_vars PROVE TypeOK'
    OBVIOUS
  <1> USE DEF TypeOK, Iterating, Candidate, Continue
  <1>0. Len(items) \in Nat
    OBVIOUS
  <1>1. CASE SkipUnusable
    BY <1>0, <1>1 DEF SkipUnusable
  <1>2. CASE SkipDuplicate
    BY <1>0, <1>2 DEF SkipDuplicate
  <1>3. CASE Reject
    BY <1>0, <1>3 DEF Reject
  <1>4. CASE Crash
    BY <1>0, <1>4 DEF Crash
  <1>5. CASE Keep
    <2>1. items[i] \in Items
      BY <1>0, <1>5 DEF Keep
    <2>2. items[i].text \in Texts
      BY <1>5, <2>1 DEF Keep, Usable, Items
    <2>3. result' \in [Indexes -> Texts \cup {NoText}]
      BY <1>5, <2>2 DEF Keep
    <2>4. QED
      BY <1>0, <1>5, <2>3 DEF Keep
  <1>6. CASE Finish
    BY <1>0, <1>6 DEF Finish
  <1>7. CASE UNCHANGED vars
    BY <1>7 DEF vars
  <1>8. QED
    BY <1>1, <1>2, <1>3, <1>4, <1>5, <1>6, <1>7 DEF Next

(* An iteration that keeps result and passes over an item that finding k   *)
(* either cannot accept or has a text before.                              *)
LEMMA PassOver ==
  ASSUME IndInv, Iterating, Continue, UNCHANGED result,
         NEW k \in Indexes, Acceptable(k, i) => result[k] # NoText
  PROVE  \/ /\ result'[k] = NoText
            /\ \A j \in 1 .. i' - 1 : ~Acceptable(k, j)'
         \/ \E j \in 1 .. i' - 1 :
              /\ Acceptable(k, j)'
              /\ result'[k] = items'[j].text
              /\ \A m \in 1 .. j - 1 : ~Acceptable(k, m)'
  <1>1. i \in Nat /\ i' = i + 1 /\ i' - 1 = i /\ items' = items
    BY DEF IndInv, TypeOK, Continue
  <1>2. \A j : Acceptable(k, j)' = Acceptable(k, j)
    BY <1>1 DEF Acceptable
  <1>3. CASE result[k] = NoText
    <2>1. \A j \in 1 .. i - 1 : ~Acceptable(k, j)
      BY <1>3, NoTextIsNoText DEF IndInv, FirstAcceptableWins, Acceptable
    <2>2. QED
      BY <1>1, <1>2, <1>3, <2>1
  <1>4. CASE result[k] # NoText
    <2>1. PICK j \in 1 .. i - 1 :
            /\ Acceptable(k, j)
            /\ result[k] = items[j].text
            /\ \A m \in 1 .. j - 1 : ~Acceptable(k, m)
      BY <1>4 DEF IndInv, FirstAcceptableWins
    <2>2. j \in 1 .. i' - 1
      BY <1>1, <2>1
    <2>3. QED
      BY <1>1, <1>2, <2>1, <2>2
  <1>5. QED
    BY <1>3, <1>4

LEMMA StepFirstAcceptable ==
  IndInv /\ [Next]_vars => FirstAcceptableWins'
  <1> SUFFICES ASSUME IndInv, [Next]_vars PROVE FirstAcceptableWins'
    OBVIOUS
  <1>0. TypeOK /\ FirstAcceptableWins
    BY DEF IndInv
  <1>1. CASE SkipUnusable
    <2>1. \A k \in Indexes : ~Acceptable(k, i)
      BY <1>0, <1>1, AcceptableIsUsable DEF SkipUnusable, Iterating, TypeOK
    <2>2. QED
      BY <1>1, <2>1, PassOver DEF SkipUnusable, FirstAcceptableWins
  <1>2. CASE SkipDuplicate
    <2>1. \A k \in Indexes : Acceptable(k, i) => result[k] # NoText
      BY <1>2 DEF SkipDuplicate, Acceptable
    <2>2. QED
      BY <1>2, <2>1, PassOver DEF SkipDuplicate, FirstAcceptableWins
  <1>3. CASE Reject
    <2>1. \A k \in Indexes : ~Acceptable(k, i)
      BY <1>3 DEF Reject, Acceptable
    <2>2. QED
      BY <1>3, <2>1, PassOver DEF Reject, Candidate, FirstAcceptableWins
  <1>4. CASE Keep
    <2> SUFFICES ASSUME NEW k \in Indexes
                 PROVE  \/ /\ result'[k] = NoText
                           /\ \A j \in 1 .. i' - 1 : ~Acceptable(k, j)'
                        \/ \E j \in 1 .. i' - 1 :
                             /\ Acceptable(k, j)'
                             /\ result'[k] = items'[j].text
                             /\ \A m \in 1 .. j - 1 : ~Acceptable(k, m)'
      BY DEF FirstAcceptableWins
    <2>1. /\ i \in 1 .. Len(items) /\ i \in Nat
          /\ i' = i + 1 /\ items' = items
          /\ items[i].idx \in Indexes /\ result[items[i].idx] = NoText
          /\ result' = [result EXCEPT ![items[i].idx] = items[i].text]
          /\ items[i] # NotADict
          /\ items[i].text \notin Rejected \cup Crashing
          /\ items[i].text # NoText
      BY <1>0, <1>4 DEF Keep, Candidate, Iterating, Usable, Continue, TypeOK
    <2>2. items[i].text \in Texts
      <3>1. items[i] \in Items
        BY <1>0, <2>1 DEF TypeOK
      <3>2. QED
        BY <2>1, <3>1 DEF Items
    <2>3. \A j : Acceptable(k, j)' = Acceptable(k, j)
      BY <2>1 DEF Acceptable
    <2>4. CASE k = items[i].idx
      <3>1. Acceptable(k, i)
        BY <2>1, <2>2, <2>4 DEF Acceptable
      <3>2. result'[k] = items'[i].text
        BY <1>0, <2>1, <2>4 DEF TypeOK
      <3>3. \A m \in 1 .. i - 1 : ~Acceptable(k, m)
        BY <1>0, <2>1, <2>4, NoTextIsNoText DEF FirstAcceptableWins, Acceptable
      <3>4. i \in 1 .. i' - 1
        BY <2>1
      <3>5. QED
        BY <2>3, <3>1, <3>2, <3>3, <3>4
    <2>5. CASE k # items[i].idx
      <3>1. ~Acceptable(k, i) /\ result'[k] = result[k]
        BY <1>0, <2>1, <2>5 DEF Acceptable, TypeOK
      <3>2. CASE result[k] = NoText
        <4>1. \A j \in 1 .. i - 1 : ~Acceptable(k, j)
          BY <1>0, <3>2, NoTextIsNoText DEF FirstAcceptableWins, Acceptable
        <4>2. QED
          BY <2>1, <2>3, <3>1, <3>2, <4>1
      <3>3. CASE result[k] # NoText
        <4>1. PICK j \in 1 .. i - 1 :
                /\ Acceptable(k, j)
                /\ result[k] = items[j].text
                /\ \A m \in 1 .. j - 1 : ~Acceptable(k, m)
          BY <1>0, <3>3 DEF FirstAcceptableWins
        <4>2. j \in 1 .. i' - 1
          BY <2>1, <4>1
        <4>3. QED
          BY <2>1, <2>3, <3>1, <4>1, <4>2
      <3>4. QED
        BY <3>2, <3>3
    <2>6. QED
      BY <2>4, <2>5
  <1>5. CASE Crash \/ Finish \/ UNCHANGED vars
    <2>1. UNCHANGED <<items, i, result>>
      BY <1>5 DEF Crash, Finish, vars
    <2>2. QED
      BY <1>0, <2>1 DEF FirstAcceptableWins, Acceptable
  <1>6. QED
    BY <1>1, <1>2, <1>3, <1>4, <1>5 DEF Next

(* What the loop has kept stays the first acceptable text of what it has   *)
(* passed (engine.py 145-157).                                             *)
THEOREM Inductive == Spec => []IndInv
  <1>1. IndInv /\ [Next]_vars => IndInv'
    BY StepTypeOK, StepFirstAcceptable DEF IndInv
  <1>2. QED
    BY <1>1, InitIndInv, PTL DEF Spec

(* The loop's locals keep their types for every reply.                     *)
THEOREM TypeCorrect == Spec => []TypeOK
  <1>1. IndInv => TypeOK
    BY DEF IndInv
  <1>2. QED
    BY <1>1, Inductive, PTL

(* For any number of findings and any reply, the first acceptable item of  *)
(* a finding is the one shown for it (engine.py 120-157, fix_engine.py     *)
(* 83-109).                                                                *)
THEOREM FirstWins == Spec => []FirstAcceptableWins
  <1>1. IndInv => FirstAcceptableWins
    BY DEF IndInv
  <1>2. QED
    BY <1>1, Inductive, PTL

=============================================================================
