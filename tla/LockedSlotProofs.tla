-------------------------- MODULE LockedSlotProofs --------------------------
(***************************************************************************)
(* Proofs about the stores for any set of threads and any set of values:   *)
(* the lock excludes, get() never answers None, and the locked code        *)
(* implements the atomic slot the route handlers are written against.      *)
(***************************************************************************)
EXTENDS LockedSlot, TLAPS

(* One thread's steps, named so that a proof can split on them.            *)
Step(t) ==
  \/ \E o \in Ops : Call(t, o)
  \/ Acquire(t)
  \/ InsideBlock(t)
  \/ Return(t)

LEMMA AnswersAreTyped ==
  ASSUME NEW kind, NEW val,
         \/ kind = "value" /\ val \in Values
         \/ kind \in {"raised", "yes", "no", "done"} /\ val = None
  PROVE  Answer(kind, val) \in Answers
BY DEF Answer, Answers

(* What the proofs carry from state to state: a thread inside the block    *)
(* owns the lock, and a thread that passed get()'s test still sees a       *)
(* value.                                                                  *)
LockInv ==
  /\ TypeOK
  /\ \A t \in Threads : pc[t] \in InBlock => owner = t
  /\ \A t \in Threads : pc[t] = "read" => slot # None /\ op[t].name = "get"

LEMMA InitLockInv == Init => LockInv
  <1> SUFFICES ASSUME Init PROVE LockInv
    OBVIOUS
  <1>1. NoOp \in Ops /\ NoAnswer \in Answers
    BY AnswersAreTyped DEF NoOp, NoAnswer, Ops
  <1>2. QED
    BY <1>1 DEF Init, LockInv, TypeOK, PCs, InBlock

LEMMA StepLockInv ==
  ASSUME LockInv, NEW t \in Threads, Step(t)
  PROVE  LockInv'
  <1> USE DEF LockInv, TypeOK, PCs, InBlock
  <1>0. t # NoOwner
    BY NoOwnerNotThread
  <1>1. ASSUME NEW o \in Ops, Call(t, o) PROVE LockInv'
    BY <1>1 DEF Call
  <1>2. CASE Acquire(t)
    BY <1>2, NoOwnerNotThread DEF Acquire
  <1>3. CASE Set(t)
    <2>1. op[t].arg \in Values
      BY <1>3 DEF Set, Ops
    <2>2. owner = t
      BY <1>3 DEF Set
    <2>3. \A u \in Threads : pc[u] = "read" => u = t
      BY <2>2
    <2>4. Answer("done", None) \in Answers
      BY AnswersAreTyped
    <2>5. QED
      BY <1>3, <2>1, <2>2, <2>3, <2>4 DEF Set, Finish
  <1>4. CASE Clear(t)
    <2>1. owner = t
      BY <1>4 DEF Clear
    <2>2. \A u \in Threads : pc[u] = "read" => u = t
      BY <2>1
    <2>3. Answer("done", None) \in Answers
      BY AnswersAreTyped
    <2>4. QED
      BY <1>4, <2>1, <2>2, <2>3 DEF Clear, Finish
  <1>5. CASE IsConnected(t)
    <2>1. Answer(IF slot # None THEN "yes" ELSE "no", None) \in Answers
      BY AnswersAreTyped
    <2>2. QED
      BY <1>5, <2>1 DEF IsConnected, Finish
  <1>6. CASE GetRaises(t)
    <2>1. Answer("raised", None) \in Answers
      BY AnswersAreTyped
    <2>2. QED
      BY <1>6, <2>1 DEF GetRaises, Finish
  <1>7. CASE GetPassesCheck(t)
    BY <1>7 DEF GetPassesCheck
  <1>8. CASE GetRead(t)
    <2>1. Answer("value", slot) \in Answers
      BY <1>8, AnswersAreTyped DEF GetRead
    <2>2. QED
      BY <1>8, <2>1 DEF GetRead, Finish
  <1>9. CASE Release(t)
    <2>1. \A u \in Threads : pc[u] \in InBlock => u = t
      BY <1>9 DEF Release
    <2>2. QED
      BY <1>9, <2>1 DEF Release
  <1>10. CASE Return(t)
    <2>1. NoOp \in Ops /\ NoAnswer \in Answers
      BY AnswersAreTyped DEF NoOp, NoAnswer, Ops
    <2>2. QED
      BY <1>10, <2>1 DEF Return
  <1>11. QED
    BY <1>1, <1>2, <1>3, <1>4, <1>5, <1>6, <1>7, <1>8, <1>9, <1>10
    DEF Step, InsideBlock

(* Who holds the lock, and what a thread between two reads may rely on.    *)
THEOREM LockInvariant == Spec => []LockInv
  <1>1. LockInv /\ [Next]_vars => LockInv'
    <2> SUFFICES ASSUME LockInv, [Next]_vars PROVE LockInv'
      OBVIOUS
    <2>1. CASE Next
      BY <2>1, StepLockInv DEF Next, Step
    <2>2. CASE UNCHANGED vars
      BY <2>2 DEF vars, LockInv, TypeOK
    <2>3. QED
      BY <2>1, <2>2
  <1>2. QED
    BY <1>1, InitLockInv, PTL DEF Spec

(* Every variable of a store keeps its type (session.py 42-68).            *)
THEOREM TypeCorrect == Spec => []TypeOK
  <1>1. LockInv => TypeOK
    BY DEF LockInv
  <1>2. QED
    BY <1>1, LockInvariant, PTL

(* Any number of request threads: at most one is inside a method's `with`  *)
(* block, and it is the lock's owner (session.py 53, 57, 63, 67).          *)
THEOREM StoreMutualExclusion == Spec => []MutualExclusion
  <1>1. LockInv => MutualExclusion
    BY DEF LockInv, MutualExclusion
  <1>2. QED
    BY <1>1, LockInvariant, PTL

(* get() never hands a handler None in place of connection parameters or   *)
(* of a result, whatever the other threads clear (session.py 56-60).       *)
THEOREM GetIsSafe == Spec => []GetNeverReturnsNone
  <1>1. LockInv => GetNeverReturnsNone
    <2> SUFFICES ASSUME LockInv, NEW t \in Threads
                 PROVE  /\ pc[t] = "read" => slot # None
                        /\ answer[t].kind = "value" => answer[t].val \in Values
      BY DEF GetNeverReturnsNone
    <2>1. answer[t] \in Answers
      BY DEF LockInv, TypeOK
    <2>2. QED
      BY <2>1 DEF LockInv, Answers
  <1>2. QED
    BY <1>1, LockInvariant, PTL

-----------------------------------------------------------------------------
(* The code implements the atomic slot.                                    *)

LEMMA InitImplements == Init => Abstract!Init
BY DEF Init, Abstract!Init, Phase, NoOp, NoAnswer, Answer,
       Abstract!NoOp, Abstract!NoAnswer, Abstract!Answer

(* A step that leaves slot, op and answer alone and keeps every thread's   *)
(* phase is a stutter of the abstract slot.                                *)
LEMMA PhaseChanges ==
  ASSUME LockInv, NEW t \in Threads, NEW to \in PCs,
         pc' = [pc EXCEPT ![t] = to]
  PROVE  /\ (to \in {"acquire", "body", "read"}
               /\ pc[t] \in {"acquire", "body", "read"}) => Phase' = Phase
         /\ (to = "returned" /\ pc[t] = "release") => Phase' = Phase
         /\ (to = "acquire" /\ pc[t] = "idle")
               => Phase' = [Phase EXCEPT ![t] = "called"]
         /\ (to = "release" /\ pc[t] \in {"body", "read"})
               => Phase' = [Phase EXCEPT ![t] = "returned"]
         /\ (to = "idle" /\ pc[t] = "returned")
               => Phase' = [Phase EXCEPT ![t] = "idle"]
BY DEF LockInv, TypeOK, PCs, Phase

LEMMA StepImplements ==
  ASSUME LockInv, NEW t \in Threads, Step(t)
  PROVE  [Abstract!Next]_(Abstract!vars)
  <1> DEFINE AbstractStep == [Abstract!Next]_(Abstract!vars)
  <1> USE DEF Abstract!vars, Abstract!Next
  <1>0. /\ pc[t] \in {"acquire", "body", "read"} => Phase[t] = "called"
        /\ pc[t] = "idle" => Phase[t] = "idle"
        /\ pc[t] \in {"release", "returned"} => Phase[t] = "returned"
    BY DEF Phase
  <1>1. ASSUME NEW o \in Ops, Call(t, o) PROVE AbstractStep
    <2>1. Phase' = [Phase EXCEPT ![t] = "called"]
      BY <1>1, PhaseChanges DEF Call, PCs
    <2>2. Abstract!Call(t, o)
      BY <1>0, <1>1, <2>1 DEF Call, Abstract!Call
    <2>3. QED
      BY <2>2 DEF Ops, Abstract!Ops
  <1>2. CASE Acquire(t) \/ GetPassesCheck(t) \/ Release(t)
    <2>1. Phase' = Phase
      BY <1>2, PhaseChanges DEF Acquire, GetPassesCheck, Release, PCs
    <2>2. QED
      BY <1>2, <2>1 DEF Acquire, GetPassesCheck, Release
  <1>3. CASE Set(t) \/ Clear(t) \/ IsConnected(t) \/ GetRaises(t) \/ GetRead(t)
    <2>1. /\ Phase' = [Phase EXCEPT ![t] = "returned"]
          /\ Phase[t] = "called"
      BY <1>0, <1>3, PhaseChanges
      DEF Set, Clear, IsConnected, GetRaises, GetRead, Finish, PCs
    <2>2. /\ answer' = [answer EXCEPT ![t] = Abstract!AnswerOf(op[t], slot)]
          /\ slot' = Abstract!SlotAfter(op[t], slot)
          /\ op' = op
      <3> USE DEF Finish, Answer, Abstract!Answer,
                  Abstract!AnswerOf, Abstract!GetAnswer, Abstract!SlotAfter
      <3>1. CASE Set(t)
        BY <3>1 DEF Set
      <3>2. CASE Clear(t)
        BY <3>2 DEF Clear
      <3>3. CASE IsConnected(t)
        BY <3>3 DEF IsConnected
      <3>4. CASE GetRaises(t)
        BY <3>4 DEF GetRaises
      <3>5. CASE GetRead(t)
        <4>1. slot # None /\ op[t].name = "get"
          BY <3>5 DEF GetRead, LockInv
        <4>2. QED
          BY <3>5, <4>1 DEF GetRead
      <3>6. QED
        BY <1>3, <3>1, <3>2, <3>3, <3>4, <3>5
    <2>3. Abstract!TakeEffect(t)
      BY <2>1, <2>2 DEF Abstract!TakeEffect
    <2>4. QED
      BY <2>3
  <1>4. CASE Return(t)
    <2>1. Phase' = [Phase EXCEPT ![t] = "idle"]
      BY <1>4, PhaseChanges DEF Return, PCs
    <2>2. Abstract!Return(t)
      BY <1>0, <1>4, <2>1
      DEF Return, Abstract!Return, NoOp, NoAnswer, Answer,
          Abstract!NoOp, Abstract!NoAnswer, Abstract!Answer
    <2>3. QED
      BY <2>2
  <1>5. QED
    BY <1>1, <1>2, <1>3, <1>4 DEF Step, InsideBlock

(* The lock-guarded stores are linearizable: seen from their callers,      *)
(* every method takes effect at one instant (session.py 52-68,             *)
(* last_result.py 40-52).                                                  *)
THEOREM StoreIsAtomic == Spec => ImplementsAtomicSlot
  <1>1. LockInv /\ [Next]_vars => [Abstract!Next]_(Abstract!vars)
    <2> SUFFICES ASSUME LockInv, [Next]_vars
                 PROVE  [Abstract!Next]_(Abstract!vars)
      OBVIOUS
    <2>1. CASE Next
      BY <2>1, StepImplements DEF Next, Step
    <2>2. CASE UNCHANGED vars
      BY <2>2 DEF vars, Abstract!vars, Phase
    <2>3. QED
      BY <2>1, <2>2
  <1>2. QED
    BY <1>1, InitImplements, LockInvariant, PTL
    DEF Spec, ImplementsAtomicSlot, Abstract!Spec

=============================================================================
