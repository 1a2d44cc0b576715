------------------------------- MODULE Capture ------------------------------
(***************************************************************************)
(* One live call to SQL Server: capture_plan_xml (db/capture.py),          *)
(* list_views (db/catalog.py) or the connection test of POST               *)
(* /api/connection (web/app.py), with connect (db/connection.py), the      *)
(* query validator (db/query_safety.py) and a driver that may raise at     *)
(* every call but close().  A step is one driver call or one row.          *)
(***************************************************************************)
EXTENDS Integers, Sequences

CONSTANTS
  ResultSets,   \* the lists of result sets a batch may produce
  Catalogs      \* the lists of view definitions a database may hold

(* What the first row of a result set can be: no row description at all,   *)
(* no row, an ordinary row, one string that begins like a plan because the *)
(* query selects stored plans, or the plan of this execution.              *)
SetKinds == {"no_columns", "empty", "data", "lookalike", "plan"}

(* What sqlglot makes of a text: a single SELECT (for a definition: a      *)
(* CREATE VIEW over one), something it parses or rejects with ParseError,  *)
(* or something its tokenizer raises TokenError for.                       *)
TextKinds == {"select", "other", "untokenizable"}

ASSUME SetsAreLists == ResultSets \subseteq Seq(SetKinds)
ASSUME CatalogsAreLists == Catalogs \subseteq Seq(TextKinds)

VARIABLES
  op,        \* "capture", "views" or "test"
  query,     \* what the query text is
  sets,      \* the result sets of this execution
  views,     \* the definitions of this database's views
  pc,
  conn,      \* "none", "open", "closed", or "lost": open, but nobody holds it
  at,        \* the result set, or catalog row, the cursor is on
  answer,    \* the set whose first row is returned, or 0
  listed,    \* the ViewRefs so far: definition row and body (or none)
  outcome    \* how the call ends: see Outcomes

vars == <<op, query, sets, views, pc, conn, at, answer, listed, outcome>>
inputs == <<op, query, sets, views>>

(* "rejected" is QueryValidationError; "capture_error" and "no_plan" are   *)
(* DBCaptureError; "raw" is any exception nobody wraps.                    *)
Outcomes == {"none", "ok", "rejected", "capture_error", "no_plan", "raw"}

Goto(to) == pc' = to

(* The call is over before a connection was handed over.                   *)
EndWith(o) == outcome' = o /\ Goto("ended")

(* An exception or a return inside the try: `finally` comes next.          *)
Leave(o) == outcome' = o /\ Goto("close")

-----------------------------------------------------------------------------

Init ==
  /\ op \in {"capture", "views", "test"}
  /\ query \in IF op = "capture" THEN TextKinds ELSE {"select"}
  /\ sets \in IF op = "capture" THEN ResultSets ELSE {<<>>}
  /\ views \in IF op = "views" THEN Catalogs ELSE {<<>>}
  /\ pc = IF op = "capture" THEN "validate" ELSE "connect"
  /\ conn = "none"
  /\ at = 1
  /\ answer = 0
  /\ listed = <<>>
  /\ outcome = "none"

(* Mutant: validation catches nothing and lets the text through.           *)
ValidateLater ==
  /\ pc = "validate"
  /\ Goto("connect")
  /\ UNCHANGED <<inputs, conn, at, answer, listed, outcome>>

(* validate_select_only: a rejection, or a TokenError it does not catch.   *)
Validate ==
  /\ pc = "validate"
  /\ \/ query = "select" /\ Goto("connect") /\ UNCHANGED outcome
     \/ query = "other" /\ EndWith("rejected")
     \/ query = "untokenizable" /\ EndWith("raw")
  /\ UNCHANGED <<inputs, conn, at, answer, listed>>

(* pyodbc.connect: the one driver call of connect() that is wrapped.       *)
(* Before it, round() fails on a timeout that is infinite or no number.    *)
Connect ==
  /\ pc = "connect"
  /\ \/ conn' = "open" /\ Goto("set_timeout") /\ UNCHANGED outcome
     \/ UNCHANGED conn /\ EndWith("capture_error")
     \/ UNCHANGED conn /\ EndWith("raw")
  /\ UNCHANGED <<inputs, at, answer, listed>>

(* connection.timeout = ...: a driver error here leaves connect() raw, and *)
(* the connection is in nobody's hands.                                    *)
SetTimeout ==
  /\ pc = "set_timeout"
  /\ \/ UNCHANGED <<conn, outcome>> /\ Goto(IF op = "test" THEN "close" ELSE "cursor")
     \/ conn' = "lost" /\ EndWith("raw")
  /\ UNCHANGED <<inputs, at, answer, listed>>

(* Mutant: connection.cursor() is called before the try.                   *)
CursorOutsideTry ==
  /\ pc = "cursor"
  /\ \/ Goto("execute") /\ UNCHANGED outcome
     \/ EndWith("raw")
  /\ UNCHANGED <<inputs, conn, at, answer, listed>>

(* connection.cursor(), inside the outer try only.                         *)
Cursor ==
  /\ pc = "cursor"
  /\ \/ Goto("execute") /\ UNCHANGED outcome
     \/ Leave("raw")
  /\ UNCHANGED <<inputs, conn, at, answer, listed>>

(* Mutant: the error path returns without going through `finally`.         *)
ExecuteSkipsFinally ==
  /\ pc = "execute"
  /\ \/ Goto(IF op = "capture" THEN "scan" ELSE "rows") /\ UNCHANGED outcome
     \/ EndWith("capture_error")
  /\ UNCHANGED <<inputs, conn, at, answer, listed>>

(* Mutant: a failed execution is tried again, for ever.                    *)
ExecuteRetries ==
  /\ pc = "execute"
  /\ Goto(IF op = "capture" THEN "scan" ELSE "rows") \/ Goto("cursor")
  /\ UNCHANGED <<inputs, conn, at, answer, listed, outcome>>

Execute ==
  /\ pc = "execute"
  /\ \/ Goto(IF op = "capture" THEN "scan" ELSE "rows") /\ UNCHANGED outcome
     \/ Leave("capture_error")
  /\ UNCHANGED <<inputs, conn, at, answer, listed>>

-----------------------------------------------------------------------------
(* _find_showplan_xml: fetchone() on each result set, nextset() between.   *)

LooksLikePlan == at <= Len(sets) /\ sets[at] \in {"lookalike", "plan"}

(* Mutant: a set without a row ends the search.                            *)
ScanGivesUpOnEmpty ==
  /\ pc = "scan" /\ ~LooksLikePlan
  /\ \/ /\ at < Len(sets) /\ sets[at] # "empty"
        /\ at' = at + 1
        /\ UNCHANGED <<pc, outcome>>
     \/ /\ at >= Len(sets) \/ sets[at] = "empty"
        /\ UNCHANGED at
        /\ Leave("no_plan")
  /\ UNCHANGED <<inputs, conn, answer, listed>>

ScanFinds ==
  /\ pc = "scan" /\ LooksLikePlan
  /\ answer' = at
  /\ Leave("ok")
  /\ UNCHANGED <<inputs, conn, at, listed>>

ScanMovesOn ==
  /\ pc = "scan" /\ ~LooksLikePlan
  /\ \/ /\ at < Len(sets)
        /\ at' = at + 1
        /\ UNCHANGED <<pc, outcome>>
     \/ /\ at >= Len(sets)
        /\ UNCHANGED at
        /\ Leave("no_plan")
  /\ UNCHANGED <<inputs, conn, answer, listed>>

(* fetchone() or nextset() raises.                                         *)
ScanFails ==
  /\ pc = "scan"
  /\ Leave("capture_error")
  /\ UNCHANGED <<inputs, conn, at, answer, listed>>

-----------------------------------------------------------------------------
(* list_views: one row at a time, each definition parsed as it comes.      *)

(* Mutant: a driver error while fetching ends the listing quietly.         *)
RowsFailQuietly ==
  /\ pc = "rows"
  /\ Leave("ok")
  /\ UNCHANGED <<inputs, conn, at, answer, listed>>

RowsFail ==
  /\ pc = "rows"
  /\ Leave("capture_error")
  /\ UNCHANGED <<inputs, conn, at, answer, listed>>

(* _extract_select_body gives the body, or None when the definition is     *)
(* NULL, does not parse or is no CREATE VIEW over a SELECT.                *)
Row ==
  /\ pc = "rows" /\ at <= Len(views)
  /\ views[at] # "untokenizable"
  /\ listed' = Append(listed, [view |-> at, body |-> views[at] = "select"])
  /\ at' = at + 1
  /\ UNCHANGED <<inputs, pc, conn, answer, outcome>>

(* TokenError: neither _extract_select_body nor list_views catches it.     *)
RowUntokenizable ==
  /\ pc = "rows" /\ at <= Len(views)
  /\ views[at] = "untokenizable"
  /\ Leave("raw")
  /\ UNCHANGED <<inputs, conn, at, answer, listed>>

RowsEnd ==
  /\ pc = "rows" /\ at > Len(views)
  /\ Leave("ok")
  /\ UNCHANGED <<inputs, conn, at, answer, listed>>

-----------------------------------------------------------------------------

(* Mutant: a tested connection ends without an answer.                     *)
CloseKeepsOutcome ==
  /\ pc = "close"
  /\ conn' = "closed"
  /\ EndWith(outcome)
  /\ UNCHANGED <<inputs, at, answer, listed>>

(* `finally: connection.close()`, and close() after a connection test;     *)
(* pyodbc ignores the errors of the disconnect, so this call does not fail.*)
Close ==
  /\ pc = "close"
  /\ conn' = "closed"
  /\ EndWith(IF op = "test" THEN "ok" ELSE outcome)
  /\ UNCHANGED <<inputs, at, answer, listed>>

Scan == ScanFinds \/ ScanMovesOn \/ ScanFails

ListRows == Row \/ RowUntokenizable \/ RowsFail \/ RowsEnd

Next ==
  \/ Validate \/ Connect \/ SetTimeout \/ Cursor \/ Execute
  \/ Scan \/ ListRows
  \/ Close

Spec == Init /\ [][Next]_vars

-----------------------------------------------------------------------------

TypeOK ==
  /\ pc \in {"validate", "connect", "set_timeout", "cursor", "execute", "scan",
             "rows", "close", "ended"}
  /\ conn \in {"none", "open", "closed", "lost"}
  /\ at \in 1 .. Len(sets) + Len(views) + 1
  /\ answer \in 0 .. Len(sets)
  /\ outcome \in Outcomes
  /\ (pc = "ended") => (outcome # "none")

(* query_safety.py 25: a rejection is "always raised before any network    *)
(* call": no connection is opened, and nothing executed, for a text that   *)
(* is not a single SELECT.                                                 *)
NothingOpensForABadQuery ==
  query # "select" => conn = "none" /\ pc \notin {"connect", "execute"}

(* Whatever the driver raises and wherever, a connection that connect()    *)
(* handed over is closed when the call ends.                               *)
HandedOverConnectionIsClosed ==
  pc = "ended" => conn # "open"

(* A plan the server sent is found behind any number of empty, ordinary or *)
(* column-less result sets: "No <ShowPlanXML> result set found" is said    *)
(* only when there is none.                                                *)
PlanIsFound ==
  outcome = "no_plan" => \A s \in DOMAIN sets : sets[s] # "plan"

(* Listing the views is all or nothing: an answer holds every view of the  *)
(* database, in catalog order, and a view whose definition is no plain     *)
(* SELECT only loses its body.                                             *)
ListingIsComplete ==
  (op = "views" /\ outcome = "ok") =>
    /\ Len(listed) = Len(views)
    /\ \A v \in DOMAIN views :
         listed[v] = [view |-> v, body |-> views[v] = "select"]

-----------------------------------------------------------------------------

(* What the caller has of the call: nothing before it ended, and of a call *)
(* that failed nothing it had gathered.                                    *)
ResultSeen ==
  [kind   |-> IF pc = "ended" THEN outcome ELSE "none",
   plan   |-> IF pc = "ended" /\ outcome = "ok" THEN answer ELSE 0,
   listed |-> IF pc = "ended" /\ outcome = "ok" THEN listed ELSE <<>>]

Promise == INSTANCE LiveCall WITH
  request    <- [op |-> op, query |-> query, sets |-> sets, views |-> views],
  connection <- conn,
  result     <- ResultSeen

(* The calls of capture.py, catalog.py and connection.py, failing where    *)
(* they may, keep the promise the callers build on: refused unsent, failed *)
(* with the connection given up, or answered in full.                      *)
ImplementsLiveCall == Promise!CallSpec

=============================================================================
