------------------------------- MODULE LiveCall -----------------------------
(***************************************************************************)
(* What a live call promises its caller (cli.py, web/app.py), without the  *)
(* driver calls it is made of: it is refused before anything is sent, or   *)
(* it opens one connection and ends with that connection given up and      *)
(* either an error or the whole answer.  Capture implements it.            *)
(***************************************************************************)
EXTENDS Naturals, Sequences

VARIABLES
  request,     \* the call, the text, and what the server holds for it
  connection,  \* "none", "open", "closed", or "lost": open in nobody's hands
  result       \* what the caller gets; its kind is "none" until then

callVars == <<request, connection, result>>

Failure(kind) == [kind |-> kind, plan |-> 0, listed |-> <<>>]

(* A set that begins like a plan; every view with the body it allows; the  *)
(* mere fact that a connection can be opened.                              *)
IsAnswer(r) ==
  CASE request.op = "capture" ->
         \E s \in DOMAIN request.sets :
           /\ request.sets[s] \in {"lookalike", "plan"}
           /\ r = [kind |-> "ok", plan |-> s, listed |-> <<>>]
    [] request.op = "views" ->
         r = [kind |-> "ok", plan |-> 0,
              listed |-> [v \in DOMAIN request.views |->
                            [view |-> v, body |-> request.views[v] = "select"]]]
    [] OTHER -> r = [kind |-> "ok", plan |-> 0, listed |-> <<>>]

CallInit == connection = "none" /\ result = Failure("none")

(* Nothing was sent: the text is no single SELECT, the settings are no     *)
(* use, or nobody answers.                                                 *)
Refuse ==
  /\ connection = "none" /\ result.kind = "none"
  /\ \/ request.query = "other" /\ result' = Failure("rejected")
     \/ request.query = "select" /\ result' = Failure("capture_error")
     \/ request.query # "other" /\ result' = Failure("raw")
  /\ UNCHANGED <<request, connection>>

Open ==
  /\ connection = "none" /\ result.kind = "none"
  /\ request.query = "select"
  /\ connection' = "open"
  /\ UNCHANGED <<request, result>>

(* A connection is lost only where connect() itself fails after opening it.*)
Fail ==
  /\ connection = "open"
  /\ \/ connection' = "closed" /\ result' \in {Failure("capture_error"), Failure("raw")}
     \/ connection' = "lost" /\ result' = Failure("raw")
  /\ UNCHANGED request

FindNoPlan ==
  /\ connection = "open"
  /\ request.op = "capture"
  /\ \A s \in DOMAIN request.sets : request.sets[s] # "plan"
  /\ connection' = "closed"
  /\ result' = Failure("no_plan")
  /\ UNCHANGED request

Succeed ==
  /\ connection = "open"
  /\ connection' = "closed"
  /\ IsAnswer(result')
  /\ UNCHANGED request

CallNext == Refuse \/ Open \/ Fail \/ FindNoPlan \/ Succeed

CallSpec == CallInit /\ [][CallNext]_callVars

=============================================================================
