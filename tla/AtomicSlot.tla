----------------------------- MODULE AtomicSlot -----------------------------
(***************************************************************************)
(* What the two in-memory stores of the web UI promise their callers:      *)
(* SessionStore (web/session.py) holds the connection parameters of the    *)
(* session, LastResultStore (web/last_result.py) the latest query result.  *)
(* Both are one slot, empty or full, and every method is atomic: between   *)
(* a thread's call and its return there is one instant at which the whole  *)
(* method takes effect.  The handlers in WebApp are written over this      *)
(* promise; LockedSlot is the code that keeps it.                          *)
(***************************************************************************)

CONSTANTS
  Threads,   \* threads of Starlette's pool that run the sync route handlers
  Values,    \* what the slot can hold (ConnectionParams, LastResult)
  None       \* Python's None, not a value: the slot is empty

VARIABLES
  slot,      \* the stored value, or None
  phase,     \* phase[t]: "idle", "called" or "returned"
  op,        \* op[t]: the method t called, with its argument
  answer     \* answer[t]: what that method returned or raised

vars == <<slot, phase, op, answer>>

(* The methods of the stores.  LastResultStore has no is_connected.        *)
Ops == [name : {"set"}, arg : Values]
         \cup [name : {"get", "clear", "is_connected"}, arg : {None}]

(* How a method ends: get returns the value or raises NotConnectedError    *)
(* (NoResultAvailableError in the other store), is_connected says yes or   *)
(* no, set and clear just return.                                          *)
Answers == [kind : {"value"}, val : Values]
             \cup [kind : {"raised", "yes", "no", "done"}, val : {None}]

Answer(kind, val) == [kind |-> kind, val |-> val]

(* What a thread outside every method holds: nothing it will use.          *)
NoOp == [name |-> "clear", arg |-> None]
NoAnswer == Answer("done", None)

GetAnswer(s) == IF s = None THEN Answer("raised", None) ELSE Answer("value", s)

AnswerOf(o, s) ==
  IF o.name = "get" THEN GetAnswer(s)
  ELSE IF o.name = "is_connected"
       THEN Answer(IF s = None THEN "no" ELSE "yes", None)
       ELSE Answer("done", None)

SlotAfter(o, s) ==
  IF o.name = "set" THEN o.arg ELSE IF o.name = "clear" THEN None ELSE s

-----------------------------------------------------------------------------

Init ==
  /\ slot = None
  /\ phase = [t \in Threads |-> "idle"]
  /\ op = [t \in Threads |-> NoOp]
  /\ answer = [t \in Threads |-> NoAnswer]

Call(t, o) ==
  /\ phase[t] = "idle"
  /\ phase' = [phase EXCEPT ![t] = "called"]
  /\ op' = [op EXCEPT ![t] = o]
  /\ UNCHANGED <<slot, answer>>

TakeEffect(t) ==
  /\ phase[t] = "called"
  /\ phase' = [phase EXCEPT ![t] = "returned"]
  /\ answer' = [answer EXCEPT ![t] = AnswerOf(op[t], slot)]
  /\ slot' = SlotAfter(op[t], slot)
  /\ UNCHANGED op

Return(t) ==
  /\ phase[t] = "returned"
  /\ phase' = [phase EXCEPT ![t] = "idle"]
  /\ op' = [op EXCEPT ![t] = NoOp]
  /\ answer' = [answer EXCEPT ![t] = NoAnswer]
  /\ UNCHANGED slot

Next ==
  \E t \in Threads :
    \/ \E o \in Ops : Call(t, o)
    \/ TakeEffect(t)
    \/ Return(t)

Spec == Init /\ [][Next]_vars

=============================================================================
