------------------------------- MODULE WebApp -------------------------------
(***************************************************************************)
(* The JSON API of the local web UI (web/app.py).  Starlette runs each     *)
(* sync handler on a thread of its pool, so requests interleave between    *)
(* any two accesses to what they share: the session (SessionStore) and the *)
(* last query result (LastResultStore).  A step is one store method or one *)
(* call that leaves the process (SQL Server, Ollama); the stores are       *)
(* atomic because LockedSlot implements AtomicSlot.                        *)
(*                                                                         *)
(* ConnectionParams are told apart by identity only.  A query result is    *)
(* the connection its plan was captured on (source), the database name     *)
(* its summary carries (label), and the query.                             *)
(***************************************************************************)

CONSTANTS
  Workers,   \* pool threads, each serving one request at a time
  Params,    \* connection parameters a user may submit
  Queries,   \* query bodies
  Untimed,   \* parameters whose timeout_s rounds to 0: no timeout at all
  None       \* Python's None

ASSUME UntimedAreParams == Untimed \subseteq Params

VARIABLES
  session,      \* SessionStore._params
  lastResult,   \* LastResultStore._result
  pc,           \* pc[w]: the next step of w's handler
  req,          \* req[w]: the request w serves
  params,       \* params[w]: the handler's local `params`
  result,       \* result[w]: the handler's plan, then its summary and findings
  reply         \* reply[w]: the response, once pc[w] = "answered"

stores == <<session, lastResult>>
vars == <<session, lastResult, pc, req, params, result, reply>>

-----------------------------------------------------------------------------
(* Requests and replies.                                                   *)

NoRequest == [kind |-> "none", params |-> None, query |-> None, narrate |-> FALSE]

Requests ==
  [kind : {"connect"}, params : Params, query : {None}, narrate : {FALSE}]
    \cup [kind : {"status", "disconnect", "views", "propose_fix"},
          params : {None}, query : {None}, narrate : {FALSE}]
    \cup [kind : {"query"}, params : {None}, query : Queries, narrate : BOOLEAN]

Results == [source : Params, label : Params \cup {None}, query : Queries]

ASSUME NoneIsNothing == None \notin Params \cup Queries \cup Results

Statuses == {200, 204, 400, 409, 422, 500, 502}

(* What a client sees when the connection breaks before a response.        *)
NoStatus == 0

Replies == [status : Statuses \cup {NoStatus}, conn : Params \cup {None},
            result : Results \cup {None}]

NoReply == [status |-> 200, conn |-> None, result |-> None]
Broken == [NoReply EXCEPT !.status = NoStatus]

(* The first step of each handler.                                         *)
FirstStep(kind) ==
  IF kind = "connect" THEN "connect_test"
  ELSE IF kind = "status" THEN "status_check"
  ELSE IF kind = "disconnect" THEN "clear_session"
  ELSE IF kind = "views" THEN "views_session"
  ELSE IF kind = "query" THEN "query_session"
  ELSE "fix_result"

PCs == {"idle", "connect_test", "connect_store", "status_check", "status_read",
        "clear_session", "clear_result", "views_session", "views_list",
        "query_session", "query_capture", "query_analyse", "query_cache",
        "query_narrate", "fix_result", "fix_ask", "answered"}

Goto(w, to) == pc' = [pc EXCEPT ![w] = to]

(* The handler returns (or raises HTTPException, or anything else, which   *)
(* the catch-all handler turns into a 500).                                *)
Answer(w, status, conn, res) ==
  /\ reply' = [reply EXCEPT ![w] =
                 [status |-> status, conn |-> conn, result |-> res]]
  /\ Goto(w, "answered")

Fail(w, status) == Answer(w, status, None, None)

-----------------------------------------------------------------------------

Init ==
  /\ session = None
  /\ lastResult = None
  /\ pc = [w \in Workers |-> "idle"]
  /\ req = [w \in Workers |-> NoRequest]
  /\ params = [w \in Workers |-> None]
  /\ result = [w \in Workers |-> None]
  /\ reply = [w \in Workers |-> NoReply]

(* A request reaches a free pool thread.                                   *)
Arrive(w, r) ==
  /\ pc[w] = "idle"
  /\ req' = [req EXCEPT ![w] = r]
  /\ Goto(w, FirstStep(r.kind))
  /\ UNCHANGED <<stores, params, result, reply>>

(* The response goes out, whether or not anybody still waits for it; the   *)
(* thread and its locals are free again.                                   *)
Deliver(w) ==
  /\ pc[w] = "answered"
  /\ Goto(w, "idle")
  /\ req' = [req EXCEPT ![w] = NoRequest]
  /\ params' = [params EXCEPT ![w] = None]
  /\ result' = [result EXCEPT ![w] = None]
  /\ reply' = [reply EXCEPT ![w] = NoReply]
  /\ UNCHANGED stores

(* The process ends, whatever its threads are doing, and is started again: *)
(* the stores are module variables, and every open request is cut off.     *)
Restart ==
  /\ session' = None /\ lastResult' = None
  /\ pc' = [w \in Workers |-> IF pc[w] = "idle" THEN "idle" ELSE "answered"]
  /\ reply' = [w \in Workers |-> IF pc[w] = "idle" THEN NoReply ELSE Broken]
  /\ params' = [w \in Workers |-> None]
  /\ result' = [w \in Workers |-> None]
  /\ UNCHANGED req

-----------------------------------------------------------------------------
(* POST /api/connection: test the parameters, then store them.             *)

(* Mutant: the parameters are stored before they are tested.               *)
ConnectStoresFirst(w) ==
  /\ pc[w] = "connect_test"
  /\ session' = req[w].params
  /\ \/ Goto(w, "connect_store") /\ UNCHANGED reply
     \/ Fail(w, 400)
  /\ UNCHANGED <<lastResult, req, params, result>>

(* connect_fn and close() succeed, or raise DBCaptureError (400), or a     *)
(* driver exception connect() does not wrap (500).                         *)
ConnectTest(w) ==
  /\ pc[w] = "connect_test"
  /\ \/ Goto(w, "connect_store") /\ UNCHANGED reply
     \/ \E status \in {400, 500} : Fail(w, status)
  /\ UNCHANGED <<stores, req, params, result>>

ConnectStore(w) ==
  /\ pc[w] = "connect_store"
  /\ session' = req[w].params
  /\ Answer(w, 200, req[w].params, None)
  /\ UNCHANGED <<lastResult, req, params, result>>

-----------------------------------------------------------------------------
(* GET /api/connection: is_connected(), then get(): two store calls.       *)

StatusCheck(w) ==
  /\ pc[w] = "status_check"
  /\ IF session = None THEN Answer(w, 200, None, None)
     ELSE Goto(w, "status_read") /\ UNCHANGED reply
  /\ UNCHANGED <<stores, req, params, result>>

(* NotConnectedError is not caught here: the catch-all handler answers.    *)
StatusRead(w) ==
  /\ pc[w] = "status_read"
  /\ IF session = None THEN Fail(w, 500) ELSE Answer(w, 200, session, None)
  /\ UNCHANGED <<stores, req, params, result>>

-----------------------------------------------------------------------------
(* DELETE /api/connection: clear the session, then the last result.        *)

ClearSession(w) ==
  /\ pc[w] = "clear_session"
  /\ session' = None
  /\ Goto(w, "clear_result")
  /\ UNCHANGED <<lastResult, req, params, result, reply>>

(* Mutant: disconnecting forgets the last result store.                    *)
ClearResultForgotten(w) ==
  /\ pc[w] = "clear_result"
  /\ Answer(w, 204, None, None)
  /\ UNCHANGED <<stores, req, params, result>>

ClearResult(w) ==
  /\ pc[w] = "clear_result"
  /\ lastResult' = None
  /\ Answer(w, 204, None, None)
  /\ UNCHANGED <<session, req, params, result>>

-----------------------------------------------------------------------------
(* GET /api/views: snapshot the parameters, then list the views.           *)

(* Mutant: the caller is handed None.                                      *)
RequireNothing(w, next) ==
  /\ params' = [params EXCEPT ![w] = session]
  /\ Goto(w, next)
  /\ UNCHANGED reply

(* _require_connection: 409 without a session.                             *)
RequireConnection(w, next) ==
  IF session = None THEN Fail(w, 409) /\ UNCHANGED params
  ELSE /\ params' = [params EXCEPT ![w] = session]
       /\ Goto(w, next)
       /\ UNCHANGED reply

ViewsSession(w) ==
  /\ pc[w] = "views_session"
  /\ RequireConnection(w, "views_list")
  /\ UNCHANGED <<stores, req, result>>

ViewsList(w) ==
  /\ pc[w] = "views_list"
  /\ \/ Answer(w, 200, params[w], None)
     \/ \E status \in {502, 500} : Fail(w, status)
  /\ UNCHANGED <<stores, req, params, result>>

-----------------------------------------------------------------------------
(* POST /api/query: snapshot, capture, analyse, cache, narrate.            *)

QuerySession(w) ==
  /\ pc[w] = "query_session"
  /\ RequireConnection(w, "query_capture")
  /\ UNCHANGED <<stores, req, result>>

(* capture_fn returns the plan, or raises QueryValidationError (422),      *)
(* DBCaptureError (502) or something nobody wraps (500).                   *)
QueryCapture(w) ==
  /\ pc[w] = "query_capture"
  /\ \/ /\ result' = [result EXCEPT ![w] =
               [source |-> params[w], label |-> None, query |-> req[w].query]]
        /\ Goto(w, "query_analyse")
        /\ UNCHANGED reply
     \/ /\ \E status \in {422, 502, 500} : Fail(w, status)
        /\ UNCHANGED result
  /\ UNCHANGED <<stores, req, params>>

(* Mutant: the label is read from the store when the plan has come back.   *)
AnalyseRereadsSession(w) ==
  /\ pc[w] = "query_analyse"
  /\ result' = [result EXCEPT ![w].label = session]
  /\ Goto(w, "query_cache")
  /\ UNCHANGED <<stores, req, params, reply>>

(* parse_plan_xml, evaluate and summarize_plan: pure, on locals only.      *)
QueryAnalyse(w) ==
  /\ pc[w] = "query_analyse"
  /\ \/ /\ result' = [result EXCEPT ![w].label = params[w]]
        /\ Goto(w, "query_cache")
        /\ UNCHANGED reply
     \/ /\ Fail(w, 500)
        /\ UNCHANGED result
  /\ UNCHANGED <<stores, req, params>>

QueryCache(w) ==
  /\ pc[w] = "query_cache"
  /\ lastResult' = result[w]
  /\ IF req[w].narrate THEN Goto(w, "query_narrate") /\ UNCHANGED reply
     ELSE Answer(w, 200, None, result[w])
  /\ UNCHANGED <<session, req, params, result>>

(* Mutant: a failed narration starts the query over.                       *)
NarrateRetriesQuery(w) ==
  /\ pc[w] = "query_narrate"
  /\ \/ Answer(w, 200, None, result[w])
     \/ Goto(w, "query_capture") /\ UNCHANGED reply
  /\ UNCHANGED <<stores, req, params, result>>

(* get_narration degrades in place, or lets an exception through (500).    *)
QueryNarrate(w) ==
  /\ pc[w] = "query_narrate"
  /\ Answer(w, 200, None, result[w]) \/ Fail(w, 500)
  /\ UNCHANGED <<stores, req, params, result>>

-----------------------------------------------------------------------------
(* POST /api/propose-fix: snapshot the last result, then ask the model.    *)

(* _require_last_result: 409 without one.                                  *)
RequireLastResult(w, next) ==
  IF lastResult = None THEN Fail(w, 409) /\ UNCHANGED result
  ELSE /\ result' = [result EXCEPT ![w] = lastResult]
       /\ Goto(w, next)
       /\ UNCHANGED reply

FixResult(w) ==
  /\ pc[w] = "fix_result"
  /\ RequireLastResult(w, "fix_ask")
  /\ UNCHANGED <<stores, req, params>>

FixAsk(w) ==
  /\ pc[w] = "fix_ask"
  /\ Answer(w, 200, None, result[w]) \/ Fail(w, 500)
  /\ UNCHANGED <<stores, req, params, result>>

-----------------------------------------------------------------------------

(* A step of the handler w runs.                                           *)
Handle(w) ==
  \/ ConnectTest(w) \/ ConnectStore(w)
  \/ StatusCheck(w) \/ StatusRead(w)
  \/ ClearSession(w) \/ ClearResult(w)
  \/ ViewsSession(w) \/ ViewsList(w)
  \/ QuerySession(w) \/ QueryCapture(w) \/ QueryAnalyse(w)
  \/ QueryCache(w) \/ QueryNarrate(w)
  \/ FixResult(w) \/ FixAsk(w)

(* w waits for SQL Server on a connection without a timeout: connect_fn,   *)
(* list_views_fn or capture_fn may never return.                           *)
Endless(w) ==
  \/ pc[w] = "connect_test" /\ req[w].params \in Untimed
  \/ pc[w] \in {"views_list", "query_capture"} /\ params[w] \in Untimed

Next ==
  \/ \E w \in Workers :
       \/ \E r \in Requests : Arrive(w, r)
       \/ Handle(w)
       \/ Deliver(w)
  \/ Restart

(* A running handler keeps running: connecting, executing and asking the   *)
(* model all have timeouts, after which they raise.  A timeout_s of 0,     *)
(* which an empty field of the page becomes, is none.                      *)
Timed(w) == Handle(w) /\ ~Endless(w)

Spec == Init /\ [][Next]_vars /\ \A w \in Workers : WF_vars(Timed(w))

=============================================================================
