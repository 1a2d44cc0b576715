----------------------------- MODULE LockedSlot -----------------------------
(***************************************************************************)
(* SessionStore (web/session.py) and LastResultStore (web/last_result.py), *)
(* which have the same code: one attribute guarded by a threading.Lock.    *)
(* A step is one access to the lock or to the attribute.  `with` releases  *)
(* the lock on every way out of the body, the raise in get() included.     *)
(* get() reads the attribute twice, once to test it and once to return it; *)
(* the lock is what makes the two reads agree.                             *)
(***************************************************************************)

CONSTANTS
  Threads,   \* threads of the pool that call the store
  Values,    \* what the attribute can hold
  None,      \* Python's None
  NoOwner    \* the lock is free

ASSUME NoneNotValue == None \notin Values
ASSUME NoOwnerNotThread == NoOwner \notin Threads

VARIABLES
  owner,     \* the thread that holds _lock, or NoOwner
  slot,      \* _params, or _result in the other store
  pc,        \* pc[t]: where t is in the method it called
  op,        \* op[t]: the method and its argument
  answer     \* answer[t]: what the method returns or raises

vars == <<owner, slot, pc, op, answer>>

Ops == [name : {"set"}, arg : Values]
         \cup [name : {"get", "clear", "is_connected"}, arg : {None}]

Answers == [kind : {"value"}, val : Values]
             \cup [kind : {"raised", "yes", "no", "done"}, val : {None}]

Answer(kind, val) == [kind |-> kind, val |-> val]

(* What a thread outside every method holds: nothing it will use.          *)
NoOp == [name |-> "clear", arg |-> None]
NoAnswer == Answer("done", None)

PCs == {"idle", "acquire", "body", "read", "release", "returned"}

(* Program points inside the `with self._lock` block.                      *)
InBlock == {"body", "read", "release"}

Finish(t, kind, val) ==
  /\ answer' = [answer EXCEPT ![t] = Answer(kind, val)]
  /\ pc' = [pc EXCEPT ![t] = "release"]

-----------------------------------------------------------------------------

Init ==
  /\ owner = NoOwner
  /\ slot = None
  /\ pc = [t \in Threads |-> "idle"]
  /\ op = [t \in Threads |-> NoOp]
  /\ answer = [t \in Threads |-> NoAnswer]

Call(t, o) ==
  /\ pc[t] = "idle"
  /\ pc' = [pc EXCEPT ![t] = "acquire"]
  /\ op' = [op EXCEPT ![t] = o]
  /\ UNCHANGED <<owner, slot, answer>>

(* Mutant: the store without its lock.                                     *)
AcquireWithoutWaiting(t) ==
  /\ pc[t] = "acquire"
  /\ owner' = t
  /\ pc' = [pc EXCEPT ![t] = "body"]
  /\ UNCHANGED <<slot, op, answer>>

Acquire(t) ==
  /\ pc[t] = "acquire"
  /\ owner = NoOwner
  /\ owner' = t
  /\ pc' = [pc EXCEPT ![t] = "body"]
  /\ UNCHANGED <<slot, op, answer>>

Set(t) ==
  /\ pc[t] = "body" /\ op[t].name = "set"
  /\ slot' = op[t].arg
  /\ Finish(t, "done", None)
  /\ UNCHANGED <<owner, op>>

Clear(t) ==
  /\ pc[t] = "body" /\ op[t].name = "clear"
  /\ slot' = None
  /\ Finish(t, "done", None)
  /\ UNCHANGED <<owner, op>>

IsConnected(t) ==
  /\ pc[t] = "body" /\ op[t].name = "is_connected"
  /\ Finish(t, IF slot # None THEN "yes" ELSE "no", None)
  /\ UNCHANGED <<owner, slot, op>>

(* Mutant: get() waits for a value inside the block.                       *)
GetWaits(t) ==
  /\ pc[t] = "body" /\ op[t].name = "get"
  /\ slot = None
  /\ UNCHANGED vars

GetRaises(t) ==
  /\ pc[t] = "body" /\ op[t].name = "get"
  /\ slot = None
  /\ Finish(t, "raised", None)
  /\ UNCHANGED <<owner, slot, op>>

(* Mutant: the lock covers the test in get() but not the return.           *)
GetUnlocksAfterCheck(t) ==
  /\ pc[t] = "body" /\ op[t].name = "get"
  /\ slot # None
  /\ owner' = NoOwner
  /\ pc' = [pc EXCEPT ![t] = "read"]
  /\ UNCHANGED <<slot, op, answer>>

GetPassesCheck(t) ==
  /\ pc[t] = "body" /\ op[t].name = "get"
  /\ slot # None
  /\ pc' = [pc EXCEPT ![t] = "read"]
  /\ UNCHANGED <<owner, slot, op, answer>>

GetRead(t) ==
  /\ pc[t] = "read"
  /\ Finish(t, "value", slot)
  /\ UNCHANGED <<owner, slot, op>>

Release(t) ==
  /\ pc[t] = "release"
  /\ owner' = NoOwner
  /\ pc' = [pc EXCEPT ![t] = "returned"]
  /\ UNCHANGED <<slot, op, answer>>

Return(t) ==
  /\ pc[t] = "returned"
  /\ pc' = [pc EXCEPT ![t] = "idle"]
  /\ op' = [op EXCEPT ![t] = NoOp]
  /\ answer' = [answer EXCEPT ![t] = NoAnswer]
  /\ UNCHANGED <<owner, slot>>

(* The steps a thread takes inside a method once it holds the lock.        *)
InsideBlock(t) ==
  \/ Set(t) \/ Clear(t) \/ IsConnected(t)
  \/ GetRaises(t) \/ GetPassesCheck(t) \/ GetRead(t)
  \/ Release(t)

Next ==
  \E t \in Threads :
    \/ \E o \in Ops : Call(t, o)
    \/ Acquire(t)
    \/ InsideBlock(t)
    \/ Return(t)

(* A running thread is eventually scheduled.  Nothing is assumed about who *)
(* gets a contended lock: threading.Lock is not fair.                      *)
Spec == Init /\ [][Next]_vars /\ \A t \in Threads : WF_vars(InsideBlock(t))

-----------------------------------------------------------------------------

TypeOK ==
  /\ owner \in Threads \cup {NoOwner}
  /\ slot \in Values \cup {None}
  /\ pc \in [Threads -> PCs]
  /\ op \in [Threads -> Ops]
  /\ answer \in [Threads -> Answers]

(* The lock does its work: whoever is inside a `with self._lock` block     *)
(* owns the lock, so no two threads are inside one at once.                *)
MutualExclusion ==
  /\ \A t \in Threads : pc[t] \in InBlock => owner = t
  /\ \A t, u \in Threads : (pc[t] \in InBlock /\ pc[u] \in InBlock) => t = u

(* get() either raises or returns a stored value: a concurrent clear() can *)
(* not slip between its test of the attribute and its read of it, so no    *)
(* handler is handed None where it expects ConnectionParams or LastResult. *)
GetNeverReturnsNone ==
  \A t \in Threads :
    /\ pc[t] = "read" => slot # None
    /\ (pc[t] \in {"release", "returned"} /\ answer[t].kind = "value")
          => answer[t].val \in Values

(* A thread that enters the block leaves it, by return or by raise: the    *)
(* store never stays locked behind a NotConnectedError.                    *)
LockIsReleased ==
  \A t \in Threads : (owner = t) ~> (owner # t)

(* Every method is atomic: the code implements the abstract slot, the      *)
(* effect being the step that decides the method's answer.                 *)
Phase ==
  [t \in Threads |->
     IF pc[t] = "idle" THEN "idle"
     ELSE IF pc[t] \in {"release", "returned"} THEN "returned"
     ELSE "called"]

Abstract == INSTANCE AtomicSlot WITH phase <- Phase

ImplementsAtomicSlot == Abstract!Spec

=============================================================================
