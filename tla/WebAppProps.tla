---------------------------- MODULE WebAppProps -----------------------------
(***************************************************************************)
(* What the API of the web UI should guarantee while its requests          *)
(* interleave.                                                             *)
(***************************************************************************)
EXTENDS WebApp

VARIABLES
  tested,        \* parameters a connect_fn call has succeeded with
  straddles,     \* queries in flight when the session was cleared under them
  cacheStraddles \* lastResult was stored by such a query

history == <<tested, straddles, cacheStraddles>>

AfterSnapshot == {"query_capture", "query_analyse", "query_cache"}

(* What a step adds to the history, which no step of the API reads.        *)
Record ==
  /\ tested' = tested \cup {req[w].params : w \in
       {v \in Workers : pc[v] = "connect_test" /\ pc'[v] = "connect_store"}}
  /\ straddles' = {w \in Workers :
       /\ pc'[w] # "idle"
       /\ w \in straddles \/ (session' = None /\ pc[w] \in AfterSnapshot)}
  /\ cacheStraddles' =
       IF lastResult' = None THEN FALSE
       ELSE IF \E w \in Workers : pc[w] = "query_cache" /\ pc'[w] # pc[w]
       THEN \E w \in straddles : pc[w] = "query_cache" /\ pc'[w] # pc[w]
       ELSE cacheStraddles

RecordedInit ==
  Init /\ tested = {} /\ straddles = {} /\ cacheStraddles = FALSE

RecordedNext == Next /\ Record

RecordedSpec ==
  /\ RecordedInit /\ [][RecordedNext]_<<vars, history>>
  /\ \A w \in Workers : WF_vars(Timed(w))

-----------------------------------------------------------------------------

StateTypeOK ==
  /\ session \in Params \cup {None}
  /\ lastResult \in Results \cup {None}
  /\ pc \in [Workers -> PCs]
  /\ req \in [Workers -> Requests \cup {NoRequest}]
  /\ params \in [Workers -> Params \cup {None}]
  /\ result \in [Workers -> Results \cup {None}]
  /\ reply \in [Workers -> Replies]

HistoryTypeOK ==
  /\ tested \subseteq Params
  /\ straddles \subseteq Workers
  /\ cacheStraddles \in BOOLEAN

(* The stores, the handlers' locals and the history keep their types.      *)
TypeOK == StateTypeOK /\ HistoryTypeOK

(* Parameters are stored and used only after a connection was opened with  *)
(* them: a failed POST /api/connection leaves the session as it was, and   *)
(* no handler ever runs on parameters nobody tested.                       *)
OnlyTestedParamsInUse ==
  /\ session # None => session \in tested
  /\ \A w \in Workers : params[w] # None => params[w] \in tested

(* A report names the database its plan was captured on, even when the     *)
(* session changes while the query runs.                                   *)
ReportNamesItsDatabase ==
  /\ lastResult # None => lastResult.label = lastResult.source
  /\ \A w \in Workers :
       (pc[w] = "answered" /\ reply[w].result # None)
          => reply[w].result.label = reply[w].result.source

BetweenClears == \E w \in Workers : pc[w] = "clear_result"

(* The only way a result survives its disconnect is a query that was in    *)
(* flight when the session was cleared; DELETE's order, session first,     *)
(* leaves no other window, whatever connects, queries and disconnects      *)
(* overlap.                                                                *)
StaleResultOnlyFromStraddlingQuery ==
  (session = None /\ ~BetweenClears /\ lastResult # None) => cacheStraddles

(* app.py 246: "A cached result from a now-disconnected database shouldn't *)
(* be propose-fixable".  A query in flight during the DELETE breaks it.    *)
NoResultAfterDisconnect ==
  (session = None /\ ~BetweenClears) => lastResult = None

(* GET /api/connection answers whether or not a session exists (the route  *)
(* test of "before connect" expects connected = False).  A DELETE between  *)
(* the handler's two store calls makes it answer 500.                      *)
StatusAlwaysAnswers ==
  \A w \in Workers :
    (pc[w] = "answered" /\ req[w].kind = "status")
      => reply[w].status \in {200, NoStatus}

(* Every request is answered, or cut off by the end of the process, unless *)
(* it waits itself for a call without a timeout: no handler waits for      *)
(* another one, and one that never returns holds up nobody else.           *)
EveryRequestAnswered ==
  \A w \in Workers : (pc[w] # "idle") ~> (pc[w] = "answered" \/ Endless(w))

=============================================================================
