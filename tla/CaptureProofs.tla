---------------------------- MODULE CaptureProofs ---------------------------
(***************************************************************************)
(* What a live call guarantees for any lists of result sets and any        *)
(* catalogs, whatever the driver does.                                     *)
(***************************************************************************)
EXTENDS Capture, TLAPS

Entries == [view : Nat, body : BOOLEAN]

Opened == {"set_timeout", "cursor", "execute", "scan", "rows", "close"}

(* The inputs, which never change.                                         *)
InputsOK ==
  /\ op \in {"capture", "views", "test"}
  /\ query \in TextKinds
  /\ sets \in Seq(SetKinds)
  /\ views \in Seq(TextKinds)
  /\ op # "capture" => query = "select"
  /\ listed \in Seq(Entries)

(* Who has the connection, and what is decided, at each point of the call. *)
PhaseOK ==
  /\ pc = "validate" => conn = "none"
  /\ pc = "connect" => conn = "none" /\ query = "select"
  /\ pc \in Opened => conn = "open" /\ query = "select"
  /\ pc = "ended" => conn # "open"
  /\ pc \in {"cursor", "execute"} => op # "test"
  /\ pc = "scan" => op = "capture"
  /\ pc = "rows" => op = "views"
  /\ pc \notin {"close", "ended"} => outcome = "none"
  /\ pc = "close" => op = "test" \/ outcome # "none"
  /\ query # "select" => conn = "none"

(* Nothing the cursor has passed is the plan.                              *)
ScannedOK ==
  /\ pc \notin {"scan", "rows", "close", "ended"} => at = 1
  /\ pc = "scan" => \A s \in DOMAIN sets : s < at => sets[s] # "plan"

(* The listing so far is that of the rows the cursor has passed.           *)
ListedOK ==
  /\ pc \notin {"rows", "close", "ended"} => listed = <<>>
  /\ pc = "rows" =>
       /\ Len(listed) = at - 1
       /\ at - 1 <= Len(views)
       /\ \A v \in 1 .. at - 1 : listed[v] = [view |-> v, body |-> views[v] = "select"]

IInv ==
  /\ InputsOK /\ TypeOK /\ PhaseOK /\ ScannedOK /\ ListedOK
  /\ PlanIsFound /\ ListingIsComplete

-----------------------------------------------------------------------------

LEMMA InitIInv == Init => IInv
  <1> SUFFICES ASSUME Init PROVE IInv
    OBVIOUS
  <1>1. sets \in Seq(SetKinds) /\ views \in Seq(TextKinds)
    <2>1. <<>> \in Seq(SetKinds) /\ <<>> \in Seq(TextKinds)
      OBVIOUS
    <2>2. QED
      BY <2>1, SetsAreLists, CatalogsAreLists DEF Init
  <1>2. Len(sets) \in Nat /\ Len(views) \in Nat
    BY <1>1
  <1>3. InputsOK
    BY <1>1 DEF Init, InputsOK, TextKinds
  <1>4. TypeOK
    BY <1>2 DEF Init, TypeOK, Outcomes
  <1>5. PhaseOK
    BY DEF Init, PhaseOK, Opened
  <1>6. ScannedOK /\ ListedOK
    BY DEF Init, ScannedOK, ListedOK
  <1>7. PlanIsFound /\ ListingIsComplete
    BY DEF Init, PlanIsFound, ListingIsComplete
  <1>8. QED
    BY <1>3, <1>4, <1>5, <1>6, <1>7 DEF IInv

(* An action that leaves the inputs and the listing alone, and is no step  *)
(* of a scan or of a listing, disturbs nothing but types and phases.       *)
LEMMA StepIInv == IInv /\ [Next]_vars => IInv'
  <1> SUFFICES ASSUME IInv, [Next]_vars PROVE IInv'
    OBVIOUS
  <1> USE DEF IInv, InputsOK, TypeOK, PhaseOK, ScannedOK, ListedOK, PlanIsFound,
              ListingIsComplete, Opened, Outcomes, Goto, EndWith, Leave, inputs
  <1>0. Len(sets) \in Nat /\ Len(views) \in Nat /\ Len(listed) \in Nat
    OBVIOUS
  <1>1. CASE Validate
    BY <1>0, <1>1 DEF Validate
  <1>2. CASE Connect
    BY <1>0, <1>2 DEF Connect
  <1>3. CASE SetTimeout
    BY <1>0, <1>3 DEF SetTimeout
  <1>4. CASE Cursor
    BY <1>0, <1>4 DEF Cursor
  <1>5. CASE Execute
    <2>1. InputsOK' /\ TypeOK'
      BY <1>0, <1>5 DEF Execute
    <2>2. PhaseOK'
      BY <1>5 DEF Execute
    <2>3. ScannedOK' /\ PlanIsFound'
      BY <1>0, <1>5 DEF Execute
    <2>4. ListedOK' /\ ListingIsComplete'
      BY <1>0, <1>5 DEF Execute
    <2>5. QED
      BY <2>1, <2>2, <2>3, <2>4
  <1>6. CASE ScanFinds
    <2>1. InputsOK' /\ TypeOK'
      BY <1>0, <1>6 DEF ScanFinds, LooksLikePlan
    <2>2. PhaseOK'
      BY <1>6 DEF ScanFinds, LooksLikePlan
    <2>3. ScannedOK' /\ PlanIsFound'
      BY <1>0, <1>6 DEF ScanFinds, LooksLikePlan
    <2>4. ListedOK' /\ ListingIsComplete'
      BY <1>0, <1>6 DEF ScanFinds, LooksLikePlan
    <2>5. QED
      BY <2>1, <2>2, <2>3, <2>4
  <1>7. CASE ScanMovesOn
    BY <1>0, <1>7 DEF ScanMovesOn, LooksLikePlan
  <1>8. CASE ScanFails
    BY <1>0, <1>8 DEF ScanFails
  <1>9. CASE Row
    <2> DEFINE entry == [view |-> at, body |-> views[at] = "select"]
    <2>1. listed' = Append(listed, entry) /\ entry \in Entries
      BY <1>9 DEF Row, Entries
    <2>2. /\ listed' \in Seq(Entries)
          /\ Len(listed') = Len(listed) + 1
          /\ listed'[Len(listed) + 1] = entry
          /\ \A v \in 1 .. Len(listed) : listed'[v] = listed[v]
      BY <2>1
    <2>3. InputsOK' /\ TypeOK'
      BY <1>0, <1>9, <2>2 DEF Row
    <2>4. PhaseOK'
      BY <1>9 DEF Row
    <2>5. ScannedOK' /\ PlanIsFound'
      BY <1>9 DEF Row
    <2>6. ListedOK' /\ ListingIsComplete'
      <3>1. pc = "rows" /\ pc' = pc /\ at' = at + 1 /\ at <= Len(views)
            /\ views' = views /\ outcome' = outcome /\ outcome = "none"
        BY <1>9 DEF Row
      <3>2. Len(listed) = at - 1
        BY <3>1
      <3>3. \A v \in 1 .. at' - 1 :
              listed'[v] = [view |-> v, body |-> views'[v] = "select"]
        <4>1. SUFFICES ASSUME NEW v \in 1 .. at
                       PROVE  listed'[v] = [view |-> v, body |-> views[v] = "select"]
          BY <3>1
        <4>2. CASE v = at
          BY <4>2, <3>2, <2>2
        <4>3. CASE v \in 1 .. at - 1
          BY <4>3, <3>1, <3>2, <2>2
        <4>4. QED
          BY <4>2, <4>3
      <3>4. QED
        BY <1>0, <3>1, <3>2, <3>3, <2>2
    <2>7. QED
      BY <2>3, <2>4, <2>5, <2>6
  <1>10. CASE RowUntokenizable
    BY <1>0, <1>10 DEF RowUntokenizable
  <1>11. CASE RowsFail
    BY <1>0, <1>11 DEF RowsFail
  <1>12. CASE RowsEnd
    BY <1>0, <1>12 DEF RowsEnd
  <1>13. CASE Close
    BY <1>0, <1>13 DEF Close
  <1>14. CASE UNCHANGED vars
    BY <1>14 DEF vars
  <1>15. QED
    BY <1>1, <1>2, <1>3, <1>4, <1>5, <1>6, <1>7, <1>8, <1>9, <1>10, <1>11, <1>12, <1>13, <1>14 DEF Next, Scan, ListRows

LEMMA Inductive == Spec => []IInv
  <1>1. QED
    BY InitIInv, StepIInv, PTL DEF Spec

-----------------------------------------------------------------------------

(* Every variable of a call keeps its type, and no call ends without an    *)
(* outcome.                                                                *)
THEOREM TypeCorrect == Spec => []TypeOK
  <1>1. IInv => TypeOK
    BY DEF IInv
  <1>2. QED
    BY <1>1, Inductive, PTL

(* No connection is opened for a text that is not a single SELECT.         *)
THEOREM BadQueriesOpenNothing == Spec => []NothingOpensForABadQuery
  <1>1. IInv => NothingOpensForABadQuery
    BY DEF IInv, PhaseOK, Opened, NothingOpensForABadQuery
  <1>2. QED
    BY <1>1, Inductive, PTL

(* Whatever the driver raises and wherever, a call does not end with the   *)
(* connection it was handed still open.                                    *)
THEOREM ConnectionsAreClosed == Spec => []HandedOverConnectionIsClosed
  <1>1. IInv => HandedOverConnectionIsClosed
    BY DEF IInv, PhaseOK, HandedOverConnectionIsClosed
  <1>2. QED
    BY <1>1, Inductive, PTL

(* For any list of result sets, "no plan" is said only when there is none. *)
THEOREM PlansAreFound == Spec => []PlanIsFound
  <1>1. IInv => PlanIsFound
    BY DEF IInv
  <1>2. QED
    BY <1>1, Inductive, PTL

(* For any catalog, an answered listing is the whole catalog, in order.    *)
THEOREM ListingsAreComplete == Spec => []ListingIsComplete
  <1>1. IInv => ListingIsComplete
    BY DEF IInv
  <1>2. QED
    BY <1>1, Inductive, PTL

-----------------------------------------------------------------------------

(* What is gathered for the answer belongs to the call that was made, and  *)
(* each way of ending to the calls that can end so.                        *)
AnswerOK ==
  /\ op # "capture" => answer = 0 /\ outcome # "no_plan"
  /\ op # "views" => listed = <<>>
  /\ answer # 0 => answer \in DOMAIN sets /\ sets[answer] \in {"lookalike", "plan"}
  /\ op = "capture" /\ outcome = "ok" => answer # 0
  /\ pc = "close" => outcome # "rejected"
  /\ pc = "close" /\ op = "test" => outcome = "none"

LEMMA StepAnswerOK == IInv /\ AnswerOK /\ [Next]_vars => AnswerOK'
  <1> SUFFICES ASSUME IInv, AnswerOK, [Next]_vars PROVE AnswerOK'
    OBVIOUS
  <1> USE DEF AnswerOK, Goto, EndWith, Leave, inputs
  <1>0. /\ pc \in {"cursor", "execute"} => op # "test"
        /\ pc = "scan" => op = "capture"
        /\ pc = "rows" => op = "views"
        /\ pc \notin {"close", "ended"} => outcome = "none"
    BY DEF IInv, PhaseOK
  <1>1. CASE Validate \/ Connect \/ SetTimeout \/ Cursor \/ Execute
    BY <1>0, <1>1 DEF Validate, Connect, SetTimeout, Cursor, Execute
  <1>2. CASE ScanFinds
    <2>1. at \in DOMAIN sets /\ at # 0 /\ sets[at] \in {"lookalike", "plan"}
      BY <1>2 DEF ScanFinds, LooksLikePlan, IInv, InputsOK, TypeOK
    <2>2. QED
      BY <1>0, <1>2, <2>1 DEF ScanFinds
  <1>3. CASE ScanMovesOn \/ ScanFails
    BY <1>0, <1>3 DEF ScanMovesOn, ScanFails
  <1>4. CASE ListRows
    BY <1>0, <1>4 DEF ListRows, Row, RowUntokenizable, RowsFail, RowsEnd
  <1>5. CASE Close
    BY <1>5 DEF Close
  <1>6. CASE UNCHANGED vars
    BY <1>6 DEF vars
  <1>7. QED
    BY <1>1, <1>2, <1>3, <1>4, <1>5, <1>6 DEF Next, Scan

LEMMA AnswerInvariant == Spec => []AnswerOK
  <1>1. Init => AnswerOK
    BY DEF Init, AnswerOK
  <1>2. QED
    BY <1>1, StepAnswerOK, Inductive, PTL DEF Spec

(* The steps that end a call are steps of the promise.                     *)
LEMMA CloseImplements ==
  ASSUME IInv, AnswerOK, Close
  PROVE  Promise!Fail \/ Promise!FindNoPlan \/ Promise!Succeed
  <1> DEFINE request == [op |-> op, query |-> query, sets |-> sets, views |-> views]
  <1>1. /\ pc = "close" /\ pc' = "ended" /\ conn = "open" /\ conn' = "closed"
        /\ answer' = answer /\ listed' = listed /\ UNCHANGED request
        /\ outcome' = IF op = "test" THEN "ok" ELSE outcome
    BY DEF Close, EndWith, Goto, inputs, IInv, PhaseOK, Opened
  <1>2. op \in {"capture", "views", "test"} /\ outcome \in Outcomes
    BY DEF IInv, InputsOK, TypeOK
  <1>3. CASE op # "test" /\ outcome \in {"capture_error", "raw"}
    <2>1. ResultSeen' \in {Promise!Failure("capture_error"), Promise!Failure("raw")}
      BY <1>1, <1>3 DEF ResultSeen, Promise!Failure
    <2>2. QED
      BY <1>1, <2>1 DEF Promise!Fail
  <1>4. CASE op # "test" /\ outcome = "no_plan"
    <2>1. ResultSeen' = Promise!Failure("no_plan")
      BY <1>1, <1>4 DEF ResultSeen, Promise!Failure
    <2>2. op = "capture" /\ \A s \in DOMAIN sets : sets[s] # "plan"
      BY <1>2, <1>4 DEF AnswerOK, IInv, PlanIsFound
    <2>3. QED
      BY <1>1, <2>1, <2>2 DEF Promise!FindNoPlan
  <1>5. CASE op = "test" \/ outcome = "ok"
    <2>1. ResultSeen' = [kind |-> "ok", plan |-> answer, listed |-> listed]
      BY <1>1, <1>5 DEF ResultSeen
    <2>2. Promise!IsAnswer(ResultSeen')
      <3>1. CASE op = "capture"
        BY <1>5, <2>1, <3>1 DEF Promise!IsAnswer, AnswerOK
      <3>2. CASE op = "views"
        <4>1. listed \in Seq(Entries) /\ views \in Seq(TextKinds)
          BY DEF IInv, InputsOK
        <4>2. /\ Len(listed) = Len(views)
              /\ \A v \in DOMAIN views :
                   listed[v] = [view |-> v, body |-> views[v] = "select"]
          BY <1>5, <3>2 DEF IInv, ListingIsComplete
        <4>3. listed = [v \in DOMAIN views |->
                          [view |-> v, body |-> views[v] = "select"]]
          <5>1. DOMAIN views = 1 .. Len(listed) /\ DOMAIN listed = 1 .. Len(listed)
            BY <4>1, <4>2
          <5>2. listed = [v \in DOMAIN listed |-> listed[v]]
            BY <4>1
          <5>3. QED
            BY <4>2, <5>1, <5>2, Zenon
        <4>4. QED
          BY <2>1, <3>2, <4>3 DEF Promise!IsAnswer, AnswerOK
      <3>3. CASE op = "test"
        BY <2>1, <3>3 DEF Promise!IsAnswer, AnswerOK
      <3>4. QED
        BY <1>2, <3>1, <3>2, <3>3
    <2>3. QED
      BY <1>1, <2>2 DEF Promise!Succeed
  <1>6. QED
    BY <1>1, <1>2, <1>3, <1>4, <1>5 DEF AnswerOK, IInv, PhaseOK, Outcomes

LEMMA StepImplements ==
  ASSUME IInv, AnswerOK, Next
  PROVE  [Promise!CallNext]_(Promise!callVars)
  <1> USE DEF Goto, EndWith, Leave, inputs, ResultSeen, Promise!Failure
  <1>1. CASE Validate
    <2>1. conn = "none" /\ outcome = "none"
      BY <1>1 DEF Validate, IInv, PhaseOK
    <2>2. CASE query = "select"
      BY <1>1, <2>2 DEF Validate, Promise!callVars
    <2>3. CASE query # "select"
      BY <1>1, <2>1, <2>3 DEF Validate, Promise!CallNext, Promise!Refuse
    <2>4. QED
      BY <2>2, <2>3
  <1>2. CASE Connect
    <2>1. conn = "none" /\ outcome = "none" /\ query = "select"
      BY <1>2 DEF Connect, IInv, PhaseOK
    <2>2. CASE conn' = "open"
      BY <1>2, <2>1, <2>2 DEF Connect, Promise!CallNext, Promise!Open
    <2>3. CASE conn' = conn
      BY <1>2, <2>1, <2>3 DEF Connect, Promise!CallNext, Promise!Refuse
    <2>4. QED
      BY <1>2, <2>2, <2>3 DEF Connect
  <1>3. CASE SetTimeout
    <2>1. conn = "open"
      BY <1>3 DEF SetTimeout, IInv, PhaseOK, Opened
    <2>2. CASE pc' = "ended"
      BY <1>3, <2>1, <2>2 DEF SetTimeout, Promise!CallNext, Promise!Fail
    <2>3. CASE pc' # "ended"
      BY <1>3, <2>3 DEF SetTimeout, Promise!callVars
    <2>4. QED
      BY <2>2, <2>3
  <1>4. CASE Cursor \/ Execute \/ Scan \/ ListRows
    BY <1>4 DEF Cursor, Execute, Scan, ScanFinds, ScanMovesOn, ScanFails,
                ListRows, Row, RowUntokenizable, RowsFail, RowsEnd, Promise!callVars
  <1>5. CASE Close
    BY <1>5, CloseImplements DEF Promise!CallNext
  <1>6. QED
    BY <1>1, <1>2, <1>3, <1>4, <1>5 DEF Next

(* For any result sets, any catalog and a driver that may fail wherever it *)
(* can, the calls of db/ keep the promise of LiveCall to their callers.    *)
THEOREM CallsKeepTheirPromise == Spec => ImplementsLiveCall
  <1>1. Init => Promise!CallInit
    BY DEF Init, ResultSeen, Promise!CallInit, Promise!Failure
  <1>2. IInv /\ AnswerOK /\ [Next]_vars => [Promise!CallNext]_(Promise!callVars)
    <2> SUFFICES ASSUME IInv, AnswerOK, [Next]_vars
                 PROVE  [Promise!CallNext]_(Promise!callVars)
      OBVIOUS
    <2>1. CASE UNCHANGED vars
      BY <2>1 DEF vars, ResultSeen, Promise!callVars
    <2>2. QED
      BY <2>1, StepImplements
  <1>3. QED
    BY <1>1, <1>2, Inductive, AnswerInvariant, PTL
    DEF Spec, ImplementsLiveCall, Promise!CallSpec

=============================================================================
