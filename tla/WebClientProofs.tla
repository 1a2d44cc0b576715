--------------------------- MODULE WebClientProofs --------------------------
(***************************************************************************)
(* Proofs about the page in front of the API, for any number of pool       *)
(* threads, connections, queries and pending requests, with or without a   *)
(* server that is stopped and started again.                               *)
(***************************************************************************)
EXTENDS WebClient, TLAPS

-----------------------------------------------------------------------------
(* The inductive invariant, in parts.                                      *)

Pages ==
  [screen : {"blank", "wizard", "workspace"}, pill : Params \cup {None},
   views : SUBSET Params, lastFindings : ResultsOrNone, report : ResultsOrNone,
   fixes : SUBSET [of : ResultsOrNone, labels : ResultsOrNone],
   overlay : BOOLEAN, connectBtn : BOOLEAN]

ServerTypeOK ==
  /\ session \in Params \cup {None}
  /\ lastResult \in ResultsOrNone
  /\ pc \in [Workers -> Server!PCs]
  /\ req \in [Workers -> Server!Requests \cup {Server!NoRequest}]
  /\ params \in [Workers -> Params \cup {None}]
  /\ result \in [Workers -> ResultsOrNone]
  /\ reply \in [Workers -> Server!Replies]

PageTypeOK ==
  /\ page \in Pages
  /\ outbox \subseteq [handler : Handlers, request : Server!Requests]
  /\ wait \in [Workers -> Handlers \cup {Nobody}]

(* The steps of the server's handler that each handler of the page awaits. *)
StepsFor(h) ==
  IF h = "connect" THEN {"connect_test", "connect_store", "answered"}
  ELSE IF h = "init" THEN {"status_check", "status_read", "answered"}
  ELSE IF h \in {"init_views", "connect_views"}
       THEN {"views_session", "views_list", "answered"}
  ELSE IF h = "disconnect" THEN {"clear_session", "clear_result", "answered"}
  ELSE IF h = "run"
       THEN {"query_session", "query_capture", "query_analyse", "query_cache",
             "query_narrate", "answered"}
  ELSE {"fix_result", "fix_ask", "answered"}

(* A handler of the page waits for the endpoint it has called.             *)
RightEndpoint ==
  /\ \A m \in outbox : Server!FirstStep(m.request.kind) \in StepsFor(m.handler)
  /\ \A w \in Workers : wait[w] # Nobody => pc[w] \in StepsFor(wait[w])

(* What a thread's program point says about its request, locals and reply. *)
LocalsOK(w) ==
  /\ pc[w] \in {"connect_test", "connect_store"} => req[w].params \in Params
  /\ pc[w] \in {"query_session", "query_capture", "query_analyse",
                "query_cache", "query_narrate"} => req[w].query \in Queries
  /\ pc[w] \in {"views_list", "query_capture", "query_analyse"}
       => params[w] \in Params
  /\ pc[w] \in {"query_analyse", "query_cache", "query_narrate", "fix_ask"}
       => result[w] \in Server!Results

RepliesOK(w) ==
  (pc[w] = "answered" /\ OK(w)) =>
    /\ wait[w] \in {"connect", "init_views", "connect_views"}
         => reply[w].conn \in Params
    /\ wait[w] \in {"run", "propose", "propose_detached"}
         => reply[w].result \in Server!Results

(* The report on the page is of the findings the labels come from, and a   *)
(* proposal that is still to be shown was asked from that report.          *)
ReportOK ==
  /\ page.report # None => page.report = page.lastFindings
  /\ "propose" \in Pending => page.report # None
  /\ FixesBelongToReport

IndInv ==
  /\ ServerTypeOK /\ PageTypeOK
  /\ RightEndpoint
  /\ \A w \in Workers : LocalsOK(w) /\ RepliesOK(w)
  /\ ReportOK

-----------------------------------------------------------------------------
(* What holds beyond that of a page that is loaded again only when it      *)
(* waits for nothing.                                                      *)

(* Of the handlers of H, at most one is pending.                           *)
AtMostOne(H) ==
  /\ \A u, v \in Workers : wait[u] \in H /\ wait[v] \in H => u = v
  /\ \A m, n \in outbox : m.handler \in H /\ n.handler \in H => m = n
  /\ \A w \in Workers, m \in outbox : ~(wait[w] \in H /\ m.handler \in H)

(* Every request the server is at was sent by the page that is open.       *)
Awaited == \A w \in Workers : pc[w] # "idle" => wait[w] # Nobody

(* The result that is cached is the one the page shows, or the page shows  *)
(* none; a proposal that is still to be shown is made for that result.     *)
CacheIsTheReport ==
  /\ AtMostOne({"run"})
  /\ "run" \in Pending => page.report = None
  /\ page.report # None => lastResult \in {page.report, None}
  /\ \A w \in Workers :
       /\ wait[w] = "run" /\ pc[w] = "query_narrate"
            => lastResult \in {result[w], None}
       /\ wait[w] = "run" /\ pc[w] = "answered" /\ OK(w)
            => lastResult \in {reply[w].result, None}
       /\ wait[w] = "propose" /\ pc[w] = "fix_ask" => result[w] = page.report
       /\ wait[w] = "propose" /\ pc[w] = "answered" /\ OK(w)
            => reply[w].result = page.report
  /\ FixesMatchTheirLabels

(* The connection the page names is the session, or one of them is none.   *)
PillIsTheSession ==
  /\ AtMostOne(WizardHandlers) /\ AtMostOne({"init"})
  /\ WizardHandlers \cap Pending # {} => ~page.connectBtn
  /\ page.screen = "blank" => Pending \subseteq {"init", Nobody}
  /\ "init" \in Pending => page.screen = "blank"
  /\ page.screen # "workspace" => page.pill = None
  /\ "connect" \in Pending => page.pill = None
  /\ \A w \in Workers :
       (wait[w] \in {"init", "connect"} /\ pc[w] = "answered" /\ OK(w)) =>
         reply[w].conn = None \/ session \in {reply[w].conn, None}
  /\ PageNamesNoOtherSession

QuietInv == Awaited /\ CacheIsTheReport /\ PillIsTheSession

-----------------------------------------------------------------------------
(* The records of the API.                                                 *)

LEMMA ReplyTyped ==
  /\ Server!NoReply \in Server!Replies /\ Server!Broken \in Server!Replies
  /\ Server!Broken.status \notin {200, 204}
  /\ Server!NoReply.result = None /\ Server!NoReply.conn = None
  /\ \A s \in Server!Statuses, c \in Params \cup {None}, r \in ResultsOrNone :
       [status |-> s, conn |-> c, result |-> r] \in Server!Replies
BY DEF Server!NoReply, Server!Broken, Server!Replies, Server!Statuses,
       Server!NoStatus, ResultsOrNone

LEMMA PlanTyped ==
  /\ \A p \in Params, q \in Queries :
       [source |-> p, label |-> None, query |-> q] \in Server!Results
  /\ \A p \in Params, r \in Server!Results : [r EXCEPT !.label = p] \in Server!Results
BY DEF Server!Results

LEMMA FirstStepTyped ==
  ASSUME NEW r \in Server!Requests
  PROVE  /\ Server!FirstStep(r.kind) \in
              {"connect_test", "status_check", "clear_session",
               "views_session", "query_session", "fix_result"}
         /\ Server!FirstStep(r.kind) = "connect_test" => r.params \in Params
         /\ Server!FirstStep(r.kind) = "query_session" => r.query \in Queries
BY DEF Server!Requests, Server!FirstStep

-----------------------------------------------------------------------------
(* What a step of the server's handler does, to what the page depends on.  *)

(* It is a step of one thread, between two of its steps for one endpoint.  *)
LEMMA ServeOthers ==
  ASSUME ServerTypeOK, NEW w \in Workers, Server!Handle(w), NEW u \in Workers, u # w
  PROVE  /\ pc'[u] = pc[u] /\ req'[u] = req[u] /\ params'[u] = params[u]
         /\ result'[u] = result[u] /\ reply'[u] = reply[u]
BY DEF ServerTypeOK, Server!stores, Server!Goto, Server!Answer, Server!Fail,
       Server!RequireConnection, Server!RequireLastResult, Server!Handle,
       Server!ConnectTest, Server!ConnectStore, Server!StatusCheck,
       Server!StatusRead, Server!ClearSession, Server!ClearResult,
       Server!ViewsSession, Server!ViewsList, Server!QuerySession,
       Server!QueryCapture, Server!QueryAnalyse, Server!QueryCache,
       Server!QueryNarrate, Server!FixResult, Server!FixAsk

LEMMA ServeTypes ==
  ASSUME ServerTypeOK, NEW w \in Workers, LocalsOK(w), Server!Handle(w)
  PROVE  /\ ServerTypeOK' /\ LocalsOK(w)'
         /\ pc[w] \notin {"idle", "answered"}
  <1> USE ReplyTyped
      DEF ServerTypeOK, LocalsOK, ResultsOrNone, Server!stores, Server!Goto,
          Server!Answer, Server!Fail, Server!RequireConnection,
          Server!RequireLastResult, Server!PCs, Server!Statuses
  <1>1. CASE Server!ConnectTest(w)
    BY <1>1 DEF Server!ConnectTest
  <1>2. CASE Server!ConnectStore(w)
    BY <1>2 DEF Server!ConnectStore
  <1>3. CASE Server!StatusCheck(w)
    BY <1>3 DEF Server!StatusCheck
  <1>4. CASE Server!StatusRead(w)
    BY <1>4 DEF Server!StatusRead
  <1>5. CASE Server!ClearSession(w)
    BY <1>5 DEF Server!ClearSession
  <1>6. CASE Server!ClearResult(w)
    BY <1>6 DEF Server!ClearResult
  <1>7. CASE Server!ViewsSession(w)
    BY <1>7 DEF Server!ViewsSession
  <1>8. CASE Server!ViewsList(w)
    BY <1>8 DEF Server!ViewsList
  <1>9. CASE Server!QuerySession(w)
    BY <1>9 DEF Server!QuerySession
  <1>10. CASE Server!QueryCapture(w)
    BY <1>10, PlanTyped DEF Server!QueryCapture
  <1>11. CASE Server!QueryAnalyse(w)
    BY <1>11, PlanTyped DEF Server!QueryAnalyse
  <1>12. CASE Server!QueryCache(w)
    BY <1>12 DEF Server!QueryCache
  <1>13. CASE Server!QueryNarrate(w)
    BY <1>13 DEF Server!QueryNarrate
  <1>14. CASE Server!FixResult(w)
    BY <1>14 DEF Server!FixResult
  <1>15. CASE Server!FixAsk(w)
    BY <1>15 DEF Server!FixAsk
  <1>16. QED
    BY <1>1, <1>2, <1>3, <1>4, <1>5, <1>6, <1>7, <1>8, <1>9, <1>10, <1>11,
       <1>12, <1>13, <1>14, <1>15 DEF Server!Handle

LEMMA ServeEndpoint ==
  ASSUME ServerTypeOK, NEW w \in Workers, LocalsOK(w), Server!Handle(w),
         NEW h \in Handlers, pc[w] \in StepsFor(h)
  PROVE  /\ pc'[w] \in StepsFor(h)
         /\ (pc'[w] = "answered" /\ OK(w)') =>
              /\ h \in {"connect", "init_views", "connect_views"}
                   => reply'[w].conn \in Params
              /\ h \in {"run", "propose", "propose_detached"}
                   => reply'[w].result \in Server!Results
  <1> USE DEF ServerTypeOK, LocalsOK, OK, Handlers, StepsFor, Server!stores,
              Server!Goto, Server!Answer, Server!Fail,
              Server!RequireConnection, Server!RequireLastResult
  <1>1. CASE Server!ConnectTest(w) \/ Server!ConnectStore(w)
    BY <1>1 DEF Server!ConnectTest, Server!ConnectStore
  <1>2. CASE Server!StatusCheck(w) \/ Server!StatusRead(w)
    BY <1>2 DEF Server!StatusCheck, Server!StatusRead
  <1>3. CASE Server!ClearSession(w) \/ Server!ClearResult(w)
    BY <1>3 DEF Server!ClearSession, Server!ClearResult
  <1>4. CASE Server!ViewsSession(w) \/ Server!ViewsList(w)
    BY <1>4 DEF Server!ViewsSession, Server!ViewsList
  <1>5. CASE Server!QuerySession(w) \/ Server!QueryCapture(w)
    BY <1>5 DEF Server!QuerySession, Server!QueryCapture
  <1>6. CASE Server!QueryAnalyse(w) \/ Server!QueryCache(w)
    BY <1>6 DEF Server!QueryAnalyse, Server!QueryCache
  <1>7. CASE Server!QueryNarrate(w)
    BY <1>7 DEF Server!QueryNarrate
  <1>8. CASE Server!FixResult(w) \/ Server!FixAsk(w)
    BY <1>8 DEF Server!FixResult, Server!FixAsk
  <1>9. QED
    BY <1>1, <1>2, <1>3, <1>4, <1>5, <1>6, <1>7, <1>8 DEF Server!Handle

(* What it does to the stores, and what of them it takes into its reply.   *)
LEMMA ServeStores ==
  ASSUME ServerTypeOK, NEW w \in Workers, LocalsOK(w), Server!Handle(w)
  PROVE  /\ session' \in {session, None} \/ pc[w] = "connect_store"
         /\ pc[w] = "connect_store" => reply'[w].conn = session'
         /\ pc[w] \in {"status_check", "status_read"} /\ pc'[w] = "answered"
              => reply'[w].conn \in {session, None} /\ session' = session
         /\ lastResult' \in {lastResult, None} \/ pc[w] = "query_cache"
         /\ pc[w] = "query_cache" /\ pc'[w] = "query_narrate"
              => lastResult' = result'[w]
         /\ pc[w] = "query_cache" /\ pc'[w] = "answered"
              => lastResult' = reply'[w].result
         /\ pc'[w] = "query_narrate" => pc[w] = "query_cache"
         /\ pc'[w] = "answered" /\ OK(w)' /\ pc[w] \in {"query_narrate", "fix_ask"}
              => reply'[w].result = result[w]
         /\ pc'[w] = "fix_ask" => result'[w] = lastResult /\ lastResult # None
         /\ pc[w] \in {"query_session", "query_capture", "query_analyse",
                       "fix_result"} /\ pc'[w] = "answered" => ~OK(w)'
         /\ pc'[w] = "answered" /\ OK(w)' => pc[w] # "connect_test"
  <1> USE DEF ServerTypeOK, LocalsOK, OK, Server!stores, Server!Goto,
              Server!Answer, Server!Fail, Server!RequireConnection,
              Server!RequireLastResult
  <1>1. CASE Server!ConnectTest(w) \/ Server!ConnectStore(w)
    BY <1>1 DEF Server!ConnectTest, Server!ConnectStore
  <1>2. CASE Server!StatusCheck(w) \/ Server!StatusRead(w)
    BY <1>2 DEF Server!StatusCheck, Server!StatusRead
  <1>3. CASE Server!ClearSession(w) \/ Server!ClearResult(w)
    BY <1>3 DEF Server!ClearSession, Server!ClearResult
  <1>4. CASE Server!ViewsSession(w) \/ Server!ViewsList(w)
    BY <1>4 DEF Server!ViewsSession, Server!ViewsList
  <1>5. CASE Server!QuerySession(w) \/ Server!QueryCapture(w)
    BY <1>5 DEF Server!QuerySession, Server!QueryCapture
  <1>6. CASE Server!QueryAnalyse(w) \/ Server!QueryCache(w)
    BY <1>6 DEF Server!QueryAnalyse, Server!QueryCache
  <1>7. CASE Server!QueryNarrate(w)
    BY <1>7 DEF Server!QueryNarrate
  <1>8. CASE Server!FixResult(w) \/ Server!FixAsk(w)
    BY <1>8 DEF Server!FixResult, Server!FixAsk
  <1>9. QED
    BY <1>1, <1>2, <1>3, <1>4, <1>5, <1>6, <1>7, <1>8 DEF Server!Handle

-----------------------------------------------------------------------------
(* What the page sends and waits for.                                      *)

LEMMA PendingIs ==
  \A h : h \in Pending <=>
    (\E w \in Workers : wait[w] = h) \/ (\E m \in outbox : m.handler = h)
BY DEF Pending

(* Detaching changes the proposals that are pending and nothing else.      *)
LEMMA Detached ==
  ASSUME PageTypeOK
  PROVE  /\ DetachedWait \in [Workers -> Handlers \cup {Nobody}]
         /\ DetachedOutbox \subseteq [handler : Handlers, request : Server!Requests]
         /\ \A w \in Workers :
              \/ DetachedWait[w] = wait[w] /\ wait[w] # "propose"
              \/ DetachedWait[w] = "propose_detached" /\ wait[w] = "propose"
         /\ \A m \in DetachedOutbox :
              \/ m \in outbox /\ m.handler # "propose"
              \/ /\ m.handler = "propose_detached"
                 /\ \E n \in outbox : n.handler = "propose" /\ n.request = m.request
BY DEF PageTypeOK, DetachedWait, DetachedOutbox, Detach, Handlers

(* h sends a request to the endpoint it will wait for.                     *)
Sends(h, before) ==
  \E r \in Server!Requests :
    /\ outbox' = before \cup Send(h, r)
    /\ Server!FirstStep(r.kind) \in StepsFor(h)

LEMMA PlainTyped ==
  /\ \A k \in {"status", "disconnect", "views", "propose_fix"} :
       Plain(k) \in Server!Requests
  /\ Server!FirstStep(Plain("status").kind) = "status_check"
  /\ Server!FirstStep(Plain("disconnect").kind) = "clear_session"
  /\ Server!FirstStep(Plain("views").kind) = "views_session"
  /\ Server!FirstStep(Plain("propose_fix").kind) = "fix_result"
BY DEF Server!Requests, Server!FirstStep, Plain, Request

LEMMA SubmitSends ==
  ASSUME NEW p \in Params, SubmitWizard(p)
  PROVE  Sends("connect", outbox)
  <1> DEFINE r == Request("connect", p, None, FALSE)
  <1>1. r \in Server!Requests
    BY DEF Request, Server!Requests
  <1>2. Server!FirstStep(r.kind) = "connect_test"
    BY DEF Request, Server!FirstStep
  <1>3. outbox' = outbox \cup Send("connect", r)
    BY DEF SubmitWizard
  <1> HIDE DEF r
  <1>4. QED
    BY <1>1, <1>2, <1>3 DEF Sends, StepsFor

LEMMA RunSends ==
  ASSUME NEW q \in Queries, NEW n \in BOOLEAN, ClickRun(q, n)
  PROVE  Sends("run", DetachedOutbox)
  <1> DEFINE r == Request("query", None, q, n)
  <1>1. r \in Server!Requests
    BY DEF Request, Server!Requests
  <1>2. Server!FirstStep(r.kind) = "query_session"
    BY DEF Request, Server!FirstStep
  <1>3. outbox' = DetachedOutbox \cup Send("run", r)
    BY DEF ClickRun
  <1> HIDE DEF r
  <1>4. QED
    BY <1>1, <1>2, <1>3 DEF Sends, StepsFor

-----------------------------------------------------------------------------
(* The invariant of every page, action by action.                          *)

LEMMA InitIndInv == Init => IndInv
  <1> SUFFICES ASSUME Init PROVE IndInv
    OBVIOUS
  <1> USE DEF Init, Server!Init, FreshPage, Send
  <1>1. ServerTypeOK
    BY ReplyTyped DEF ServerTypeOK, Server!PCs, ResultsOrNone
  <1>2. PageTypeOK /\ RightEndpoint
    BY PlainTyped DEF PageTypeOK, RightEndpoint, Pages, ResultsOrNone, Handlers, StepsFor
  <1>3. \A w \in Workers : LocalsOK(w) /\ RepliesOK(w)
    BY DEF LocalsOK, RepliesOK
  <1>4. ReportOK
    BY PendingIs DEF ReportOK, FixesBelongToReport, Nobody
  <1>5. QED
    BY <1>1, <1>2, <1>3, <1>4 DEF IndInv

LEMMA DispatchIndInv ==
  ASSUME IndInv, NEW w \in Workers, NEW h \in Handlers, Dispatch(w, h)
  PROVE  IndInv'
  <1> PICK m \in outbox : /\ m.handler = h
                          /\ Server!Arrive(w, m.request)
                          /\ outbox' = outbox \ {m}
                          /\ wait' = [wait EXCEPT ![w] = m.handler]
                          /\ UNCHANGED page
    BY DEF Dispatch
  <1> USE DEF IndInv, Server!Arrive, Server!Goto, Server!stores
  <1>1. m.request \in Server!Requests /\ h # Nobody
    BY DEF PageTypeOK, Handlers, Nobody
  <1>2. ServerTypeOK'
    BY <1>1, FirstStepTyped DEF ServerTypeOK, Server!PCs
  <1>3. PageTypeOK' /\ RightEndpoint'
    BY DEF PageTypeOK, RightEndpoint, ServerTypeOK
  <1>4. \A u \in Workers : LocalsOK(u)' /\ RepliesOK(u)'
    BY <1>1, FirstStepTyped DEF ServerTypeOK, PageTypeOK, LocalsOK, RepliesOK, OK
  <1>5. ReportOK'
    BY PendingIs DEF ReportOK, FixesBelongToReport, PageTypeOK, Pending
  <1>6. QED
    BY <1>2, <1>3, <1>4, <1>5

LEMMA RefuseIndInv ==
  ASSUME IndInv, NEW w \in Workers, NEW h \in Handlers, Refuse(w, h)
  PROVE  IndInv'
  <1> USE DEF IndInv, Refuse
  <1>1. ServerTypeOK'
    BY ReplyTyped DEF ServerTypeOK, Server!PCs
  <1>2. PageTypeOK' /\ RightEndpoint'
    BY DEF PageTypeOK, RightEndpoint, ServerTypeOK, StepsFor, Nobody
  <1>3. \A u \in Workers : LocalsOK(u)' /\ RepliesOK(u)'
    BY ReplyTyped DEF ServerTypeOK, PageTypeOK, LocalsOK, RepliesOK, OK
  <1>4. ReportOK'
    BY PendingIs DEF ReportOK, FixesBelongToReport, PageTypeOK, Pending
  <1>5. QED
    BY <1>1, <1>2, <1>3, <1>4

LEMMA RestartIndInv == ASSUME IndInv, RestartServer PROVE IndInv'
  <1> USE DEF IndInv, RestartServer, Server!Restart
  <1>1. ServerTypeOK'
    BY ReplyTyped DEF ServerTypeOK, Server!PCs, ResultsOrNone
  <1>2. PageTypeOK' /\ RightEndpoint'
    BY DEF PageTypeOK, RightEndpoint, ServerTypeOK, StepsFor
  <1>3. \A u \in Workers : LocalsOK(u)' /\ RepliesOK(u)'
    BY ReplyTyped DEF LocalsOK, RepliesOK, OK
  <1>4. ReportOK'
    BY DEF ReportOK, FixesBelongToReport, Pending
  <1>5. QED
    BY <1>1, <1>2, <1>3, <1>4

LEMMA ServeIndInv ==
  ASSUME IndInv, NEW w \in Workers, Serve(w)
  PROVE  IndInv'
  <1> USE DEF IndInv, Serve
  <1>1. ServerTypeOK' /\ LocalsOK(w)'
    BY ServeTypes
  <1>2. PageTypeOK' /\ ReportOK'
    BY DEF PageTypeOK, ReportOK, FixesBelongToReport, Pending
  <1>3. \A u \in Workers : u # w => LocalsOK(u)' /\ RepliesOK(u)'
    BY ServeOthers DEF LocalsOK, RepliesOK, OK
  <1>4. RightEndpoint'
    BY ServeOthers, ServeEndpoint DEF RightEndpoint, PageTypeOK
  <1>5. RepliesOK(w)'
    BY ServeEndpoint DEF RightEndpoint, PageTypeOK, RepliesOK, Nobody
  <1>6. QED
    BY <1>1, <1>2, <1>3, <1>4, <1>5

(* The user does something: the server is not touched.                     *)
LEMMA SubmitIndInv ==
  ASSUME IndInv, NEW p \in Params, SubmitWizard(p) PROVE IndInv'
  <1> PICK r \in Server!Requests :
        /\ outbox' = outbox \cup Send("connect", r)
        /\ Server!FirstStep(r.kind) \in StepsFor("connect")
    BY SubmitSends DEF Sends
  <1>0. /\ UNCHANGED <<server, wait>>
        /\ page' = [page EXCEPT !.connectBtn = FALSE]
    BY DEF SubmitWizard
  <1> USE <1>0 DEF IndInv, Send, server
  <1>1. ServerTypeOK' /\ \A w \in Workers : LocalsOK(w)' /\ RepliesOK(w)'
    BY DEF ServerTypeOK, LocalsOK, RepliesOK, OK
  <1>2. PageTypeOK'
    <2>1. page' \in Pages
      BY DEF PageTypeOK, Pages
    <2>2. QED
      BY <2>1 DEF PageTypeOK, Handlers
  <1>3. RightEndpoint'
    BY DEF RightEndpoint
  <1>4. ReportOK'
    <2>1. "propose" \in Pending' => "propose" \in Pending
      BY DEF Pending
    <2>2. UNCHANGED <<page.report, page.fixes, page.lastFindings>>
      BY DEF PageTypeOK, Pages
    <2>3. QED
      BY <2>1, <2>2 DEF ReportOK, FixesBelongToReport
  <1>5. QED
    BY <1>1, <1>2, <1>3, <1>4

LEMMA DisconnectIndInv == ASSUME IndInv, ClickDisconnect PROVE IndInv'
  <1> USE PlainTyped DEF IndInv, Send, server, ClickDisconnect
  <1>1. ServerTypeOK' /\ \A w \in Workers : LocalsOK(w)' /\ RepliesOK(w)'
    BY DEF ServerTypeOK, LocalsOK, RepliesOK, OK
  <1>2. PageTypeOK' /\ RightEndpoint'
    BY DEF PageTypeOK, RightEndpoint, Handlers, StepsFor
  <1>3. ReportOK'
    BY DEF ReportOK, FixesBelongToReport, Pending
  <1>4. QED
    BY <1>1, <1>2, <1>3

LEMMA ClickRunIndInv ==
  ASSUME IndInv, NEW q \in Queries, NEW n \in BOOLEAN, ClickRun(q, n) PROVE IndInv'
  <1> PICK r \in Server!Requests :
        /\ outbox' = DetachedOutbox \cup Send("run", r)
        /\ Server!FirstStep(r.kind) \in StepsFor("run")
    BY RunSends DEF Sends
  <1>0. /\ UNCHANGED server /\ wait' = DetachedWait
        /\ page' = [page EXCEPT !.report = None, !.fixes = {}, !.overlay = TRUE]
    BY DEF ClickRun
  <1> USE <1>0, Detached DEF IndInv, Send, server
  <1>1. ServerTypeOK' /\ \A w \in Workers : LocalsOK(w)' /\ RepliesOK(w)'
    BY DEF ServerTypeOK, LocalsOK, RepliesOK, OK
  <1>2. PageTypeOK'
    <2>1. page' \in Pages
      BY DEF PageTypeOK, Pages, ResultsOrNone
    <2>2. QED
      BY <2>1 DEF PageTypeOK, Handlers
  <1>3. RightEndpoint'
    BY DEF RightEndpoint, StepsFor, Nobody
  <1>4. ReportOK'
    <2>1. "propose" \notin Pending'
      BY DEF Pending
    <2>2. page'.report = None /\ page'.fixes = {}
      BY DEF PageTypeOK, Pages
    <2>3. QED
      BY <2>1, <2>2 DEF ReportOK, FixesBelongToReport
  <1>5. QED
    BY <1>1, <1>2, <1>3, <1>4

LEMMA ClickProposeIndInv == ASSUME IndInv, ClickPropose PROVE IndInv'
  <1> USE PlainTyped DEF IndInv, Send, server, ClickPropose
  <1>1. ServerTypeOK' /\ \A w \in Workers : LocalsOK(w)' /\ RepliesOK(w)'
    BY DEF ServerTypeOK, LocalsOK, RepliesOK, OK
  <1>2. PageTypeOK'
    <2>1. page' \in Pages
      BY DEF PageTypeOK, Pages
    <2>2. QED
      BY <2>1 DEF PageTypeOK, Handlers
  <1>3. RightEndpoint'
    BY DEF RightEndpoint, StepsFor
  <1>4. ReportOK'
    BY DEF ReportOK, FixesBelongToReport, PageTypeOK, Pages
  <1>5. QED
    BY <1>1, <1>2, <1>3, <1>4

LEMMA ReloadIndInv == ASSUME IndInv, Reload PROVE IndInv'
  <1> USE PlainTyped DEF IndInv, Send, server, Reload, FreshPage
  <1>1. ServerTypeOK' /\ \A w \in Workers : LocalsOK(w)' /\ RepliesOK(w)'
    BY DEF ServerTypeOK, LocalsOK, RepliesOK, OK, Nobody
  <1>2. PageTypeOK' /\ RightEndpoint'
    BY DEF PageTypeOK, Pages, ResultsOrNone, Handlers, RightEndpoint, StepsFor
  <1>3. ReportOK'
    <2>1. "propose" \notin Pending'
      BY DEF Pending, Nobody
    <2>2. QED
      BY <2>1 DEF ReportOK, FixesBelongToReport
  <1>4. QED
    BY <1>1, <1>2, <1>3

-----------------------------------------------------------------------------
(* A response arrives.                                                     *)

LEMMA DeliverTypes ==
  ASSUME ServerTypeOK, NEW w \in Workers, Server!Deliver(w),
         \A u \in Workers : LocalsOK(u)
  PROVE  /\ ServerTypeOK' /\ \A u \in Workers : LocalsOK(u)'
         /\ session' = session /\ lastResult' = lastResult
         /\ pc[w] = "answered" /\ pc'[w] = "idle"
         /\ \A u \in Workers : u # w =>
              /\ pc'[u] = pc[u] /\ result'[u] = result[u] /\ reply'[u] = reply[u]
  <1> USE DEF Server!Deliver, Server!Goto, Server!stores, ServerTypeOK
  <1>1. ServerTypeOK'
    BY ReplyTyped DEF ResultsOrNone, Server!PCs
  <1>2. \A u \in Workers : LocalsOK(u)'
    BY DEF LocalsOK
  <1>3. QED
    BY <1>1, <1>2

(* The handlers that leave the proposals that are pending as they are.     *)
LEMMA ReceiveFrame ==
  ASSUME IndInv, NEW w \in Workers, Server!Deliver(w),
         wait' = [wait EXCEPT ![w] = Nobody] \/ wait' = [DetachedWait EXCEPT ![w] = Nobody],
         \/ UNCHANGED outbox
         \/ outbox' = DetachedOutbox
         \/ \E h \in {"init_views", "connect_views"} :
              outbox' = outbox \cup Send(h, Plain("views")),
         page' \in Pages
  PROVE  /\ PageTypeOK' /\ RightEndpoint'
         /\ \A u \in Workers : RepliesOK(u)'
         /\ "propose" \in Pending' => "propose" \in Pending
  <1> USE DeliverTypes, Detached DEF IndInv
  <1>1. PageTypeOK'
    BY PlainTyped DEF PageTypeOK, Send, Handlers
  <1>2. RightEndpoint'
    BY PlainTyped DEF RightEndpoint, PageTypeOK, Send, StepsFor, Handlers, Nobody
  <1>3. \A u \in Workers : RepliesOK(u)'
    BY DEF RepliesOK, OK, PageTypeOK
  <1>4. "propose" \in Pending' => "propose" \in Pending
    BY PendingIs DEF Pending, PageTypeOK, Send, Nobody
  <1>5. QED
    BY <1>1, <1>2, <1>3, <1>4

(* The page with the workspace or the wizard on it, and the sidebar empty. *)
LEMMA ScreenChanges ==
  ASSUME NEW p \in Pages
  PROVE  /\ \A c \in Params :
              LET q == [Connected(p, c) EXCEPT !.views = {}]
              IN /\ q \in Pages
                 /\ q.report = p.report /\ q.fixes = p.fixes /\ q.lastFindings = p.lastFindings
         /\ Disconnected(p) \in Pages
         /\ LET q == Disconnected(p)
            IN q.report = p.report /\ q.fixes = p.fixes /\ q.lastFindings = p.lastFindings
  <1>1. ASSUME NEW c \in Params
        PROVE  LET q == [Connected(p, c) EXCEPT !.views = {}]
               IN /\ q \in Pages
                  /\ q.report = p.report /\ q.fixes = p.fixes /\ q.lastFindings = p.lastFindings
    BY DEF Pages, Connected
  <1>2. /\ Disconnected(p) \in Pages
        /\ LET q == Disconnected(p)
           IN q.report = p.report /\ q.fixes = p.fixes /\ q.lastFindings = p.lastFindings
    BY DEF Pages, Disconnected
  <1>3. QED
    BY <1>1, <1>2

LEMMA ReceiveIndInv == ASSUME IndInv, NEW w \in Workers, Receive(w) PROVE IndInv'
  <1> USE DEF IndInv, Receive
  <1>0. ServerTypeOK' /\ \A u \in Workers : LocalsOK(u)'
    BY DeliverTypes
  <1>1. SUFFICES /\ PageTypeOK' /\ RightEndpoint' /\ ReportOK'
                 /\ \A u \in Workers : RepliesOK(u)'
    BY <1>0
  <1>2. /\ wait[w] # Nobody => wait[w] \in Handlers
        /\ reply[w] \in Server!Replies
        /\ pc[w] = "answered"
    BY DeliverTypes DEF PageTypeOK, ServerTypeOK
  <1>3. CASE OnInit(w)
    <2>1. reply[w].conn \in Params \cup {None}
      BY <1>2 DEF Server!Replies
    <2>2. /\ page' \in Pages
          /\ UNCHANGED <<page.report, page.fixes, page.lastFindings>>
      <3>1. page \in Pages
        BY DEF PageTypeOK
      <3>2. \/ /\ reply[w].conn \in Params
               /\ page' = [Connected(page, reply[w].conn) EXCEPT !.views = {}]
            \/ page' = Disconnected(page)
        BY <1>3, <2>1 DEF OnInit, LoadViews
      <3>3. QED
        BY <3>1, <3>2, ScreenChanges
    <2>3. QED
      BY <1>3, <2>2, ReceiveFrame DEF OnInit, LoadViews, ReportOK, FixesBelongToReport
  <1>4. CASE OnConnect(w)
    <2>1. OK(w) => reply[w].conn \in Params
      BY <1>2, <1>4 DEF OnConnect, RepliesOK
    <2>2. /\ page' \in Pages
          /\ UNCHANGED <<page.report, page.fixes, page.lastFindings>>
      <3>1. page \in Pages
        BY DEF PageTypeOK
      <3>2. CASE OK(w)
        <4>1. page' = [Connected(page, reply[w].conn) EXCEPT !.views = {}]
          BY <1>4, <3>2 DEF OnConnect, LoadViews
        <4>2. QED
          BY <2>1, <3>1, <3>2, <4>1, ScreenChanges
      <3>3. CASE ~OK(w)
        <4>1. page' = [page EXCEPT !.connectBtn = TRUE]
          BY <1>4, <3>3 DEF OnConnect
        <4>2. QED
          BY <3>1, <4>1 DEF Pages
      <3>4. QED
        BY <3>2, <3>3
    <2>3. QED
      BY <1>4, <2>2, ReceiveFrame DEF OnConnect, LoadViews, ReportOK, FixesBelongToReport
  <1>5. CASE OnViews(w)
    <2>1. OK(w) => reply[w].conn \in Params
      BY <1>2, <1>5 DEF OnViews, RepliesOK
    <2>2. /\ page' \in Pages
          /\ UNCHANGED <<page.report, page.fixes, page.lastFindings>>
      BY <1>5, <2>1 DEF OnViews, PageTypeOK, Pages
    <2>3. QED
      BY <1>5, <2>2, ReceiveFrame DEF OnViews, ReportOK, FixesBelongToReport
  <1>6. CASE OnDisconnect(w)
    <2>1. page' \in Pages /\ page'.report = None /\ page'.fixes = {}
      BY <1>6 DEF OnDisconnect, NoReport, Disconnected, PageTypeOK, Pages, ResultsOrNone
    <2>2. "propose" \notin Pending'
      BY <1>6, Detached DEF OnDisconnect, Pending, PageTypeOK, Nobody
    <2>3. QED
      BY <1>6, <2>1, <2>2, ReceiveFrame DEF OnDisconnect, ReportOK, FixesBelongToReport
  <1>7. CASE OnReport(w)
    <2>1. reply[w].result \in Server!Results
      BY <1>2, <1>7 DEF OnReport, RepliesOK
    <2>2. /\ page' \in Pages /\ page'.fixes = {}
          /\ page'.report = page'.lastFindings
      BY <1>7, <2>1 DEF OnReport, PageTypeOK, Pages, ResultsOrNone
    <2>3. "propose" \notin Pending'
      BY <1>7, Detached DEF OnReport, Pending, PageTypeOK, Nobody
    <2>4. QED
      BY <1>7, <2>2, <2>3, ReceiveFrame DEF OnReport, ReportOK, FixesBelongToReport
  <1>8. CASE OnRunFailed(w)
    <2>1. /\ page' \in Pages
          /\ UNCHANGED <<page.report, page.fixes, page.lastFindings>>
      BY <1>8 DEF OnRunFailed, PageTypeOK, Pages
    <2>2. QED
      BY <1>8, <2>1, ReceiveFrame DEF OnRunFailed, ReportOK, FixesBelongToReport
  <1>9. CASE OnPropose(w)
    <2>1. /\ OK(w) => reply[w].result \in Server!Results
          /\ wait[w] = "propose" => page.report = page.lastFindings
      BY <1>2, <1>9, PendingIs DEF OnPropose, RepliesOK, ReportOK
    <2> DEFINE shown == IF OK(w) /\ wait[w] = "propose"
                        THEN page.fixes \cup {[of |-> reply[w].result,
                                               labels |-> page.lastFindings]}
                        ELSE page.fixes
    <2>2. page' = [page EXCEPT !.overlay = FALSE, !.fixes = shown]
      BY <1>9 DEF OnPropose, PageTypeOK, Pages
    <2>3. /\ shown \subseteq [of : ResultsOrNone, labels : ResultsOrNone]
          /\ \A f \in shown : f \in page.fixes \/ f.labels = page.report
      BY <2>1 DEF PageTypeOK, Pages, ResultsOrNone
    <2> HIDE DEF shown
    <2>4. /\ page' \in Pages
          /\ UNCHANGED <<page.report, page.lastFindings>>
          /\ \A f \in page'.fixes : f \in page.fixes \/ f.labels = page.report
      BY <2>2, <2>3 DEF PageTypeOK, Pages
    <2>5. PageTypeOK' /\ RightEndpoint' /\ \A u \in Workers : RepliesOK(u)'
      BY <1>9, <2>4, ReceiveFrame DEF OnPropose
    <2>6. ReportOK'
      BY <1>9, <2>4, ReceiveFrame DEF OnPropose, ReportOK, FixesBelongToReport
    <2>7. QED
      BY <2>5, <2>6
  <1>10. CASE OnNobody(w)
    <2>1. PageTypeOK' /\ ReportOK'
      BY <1>10 DEF OnNobody, PageTypeOK, ReportOK, FixesBelongToReport, Pending
    <2>2. RightEndpoint' /\ \A u \in Workers : RepliesOK(u)'
      BY <1>10, DeliverTypes DEF OnNobody, RightEndpoint, RepliesOK, OK
    <2>3. QED
      BY <2>1, <2>2
  <1>11. QED
    BY <1>3, <1>4, <1>5, <1>6, <1>7, <1>8, <1>9, <1>10

LEMMA UnchangedIndInv == IndInv /\ UNCHANGED vars => IndInv'
BY DEF IndInv, vars, server, ServerTypeOK, PageTypeOK, RightEndpoint, LocalsOK,
       RepliesOK, OK, ReportOK, FixesBelongToReport, Pending

LEMMA NextIndInv == IndInv /\ [Next]_vars => IndInv'
  <1> SUFFICES ASSUME IndInv, [Next]_vars PROVE IndInv'
    OBVIOUS
  <1>1. CASE User
    BY <1>1, ClientBounds, SubmitIndInv, DisconnectIndInv, ClickRunIndInv,
       ClickProposeIndInv, ReloadIndInv DEF User
  <1>2. ASSUME NEW w \in Workers, NEW h \in Handlers, Dispatch(w, h) \/ Refuse(w, h)
        PROVE  IndInv'
    BY <1>2, DispatchIndInv, RefuseIndInv
  <1>3. ASSUME NEW w \in Workers, Serve(w) \/ Receive(w) PROVE IndInv'
    BY <1>3, ServeIndInv, ReceiveIndInv
  <1>4. CASE RestartServer
    BY <1>4, RestartIndInv
  <1>5. CASE UNCHANGED vars
    BY <1>5, UnchangedIndInv
  <1>6. QED
    BY <1>1, <1>2, <1>3, <1>4, <1>5 DEF Next

(* What page, pending requests and server say of each other at any time.   *)
THEOREM Inductive == Spec => []IndInv
BY InitIndInv, NextIndInv, PTL DEF Spec

(* Whatever is pending, lost or cut off, the page, the requests and the    *)
(* handlers that wait keep their types.                                    *)
THEOREM TypeCorrect == Spec => []TypeOK
  <1>1. IndInv => TypeOK
    BY DEF IndInv, PageTypeOK, Pages, TypeOK
  <1>2. QED
    BY <1>1, Inductive, PTL

(* Also of a page that is loaded again while requests are pending: the     *)
(* fixes it shows are labelled from the report they are shown under.       *)
THEOREM FixesStayWithTheirReport == Spec => []FixesBelongToReport
  <1>1. IndInv => FixesBelongToReport
    BY DEF IndInv, ReportOK
  <1>2. QED
    BY <1>1, Inductive, PTL

-----------------------------------------------------------------------------
(* A page that is loaded again only when it waits for nothing.  Pending    *)
(* handlers are counted first: they move, end or start one at a time.      *)

LEMMA CountMoved ==
  ASSUME PageTypeOK, NEW H, AtMostOne(H), NEW w \in Workers, wait[w] \notin H,
         NEW m \in outbox, outbox' = outbox \ {m},
         wait' = [wait EXCEPT ![w] = m.handler]
  PROVE  AtMostOne(H)'
BY DEF PageTypeOK, AtMostOne

LEMMA CountFewer ==
  ASSUME NEW H, AtMostOne(H),
         \A w \in Workers : wait'[w] \in H => wait'[w] = wait[w],
         \A m \in outbox' : m.handler \in H => m \in outbox
  PROVE  AtMostOne(H)'
BY DEF AtMostOne

LEMMA CountFirst ==
  ASSUME NEW H, H \cap Pending = {}, NEW h, NEW r,
         \A w \in Workers : wait'[w] \in H => wait'[w] = wait[w],
         \A m \in outbox' : m.handler \in H => m \in outbox \cup Send(h, r)
  PROVE  AtMostOne(H)'
BY PendingIs DEF AtMostOne, Send

(* The thread that is at a step serves the handler that awaits its end.    *)
LEMMA ServedFor ==
  ASSUME IndInv, Awaited, NEW w \in Workers
  PROVE  /\ pc[w] \in {"query_session", "query_capture", "query_analyse",
                        "query_cache", "query_narrate"} => wait[w] = "run"
         /\ pc[w] \in {"connect_test", "connect_store"} => wait[w] = "connect"
         /\ pc[w] \in {"status_check", "status_read"} => wait[w] = "init"
         /\ pc[w] = "idle" => wait[w] = Nobody
BY DEF IndInv, PageTypeOK, ServerTypeOK, RightEndpoint, Awaited, StepsFor, Handlers, Server!PCs

LEMMA InitQuietInv == Init => QuietInv
  <1> SUFFICES ASSUME Init PROVE QuietInv
    OBVIOUS
  <1> USE DEF Init, Server!Init, FreshPage, Send
  <1>1. Awaited
    BY DEF Awaited
  <1>2. \A h : h \in Pending => h \in {"init", Nobody}
    BY PendingIs
  <1>3. \A H : Nobody \notin H => AtMostOne(H)
    BY DEF AtMostOne
  <1>4. CacheIsTheReport
    BY <1>2, <1>3 DEF CacheIsTheReport, FixesMatchTheirLabels, Nobody
  <1>5. PillIsTheSession
    BY <1>2, <1>3 DEF PillIsTheSession, PageNamesNoOtherSession, WizardHandlers, Nobody
  <1>6. QED
    BY <1>1, <1>4, <1>5 DEF QuietInv

(* The requests the server is at are the page's.                           *)
LEMMA NextAwaited ==
  ASSUME IndInv, Awaited, ~ReloadWhenBusy, [Next]_vars
  PROVE  Awaited'
  <1> USE DEF IndInv, ServerTypeOK, PageTypeOK, Awaited
  <1>1. CASE User
    <2>1. pc' = pc
      BY <1>1 DEF User, SubmitWizard, ClickDisconnect, ClickRun, ClickPropose,
                  Reload, server
    <2>2. \A w \in Workers : wait'[w] = Nobody => wait[w] = Nobody
      BY <1>1, Detached DEF User, SubmitWizard, ClickDisconnect, ClickRun,
                  ClickPropose, Reload, Nobody
    <2>3. QED
      BY <2>1, <2>2
  <1>2. ASSUME NEW w \in Workers, NEW h \in Handlers, Dispatch(w, h)
        PROVE  Awaited'
    BY <1>2 DEF Dispatch, Server!Arrive, Server!Goto, Handlers, Nobody
  <1>3. ASSUME NEW w \in Workers, NEW h \in Handlers, Refuse(w, h)
        PROVE  Awaited'
    BY <1>3 DEF Refuse, Handlers, Nobody
  <1>4. ASSUME NEW w \in Workers, Serve(w) PROVE Awaited'
    BY <1>4, ServeOthers, ServeTypes DEF Serve
  <1>5. ASSUME NEW w \in Workers, Receive(w) PROVE Awaited'
    <2>1. /\ pc'[w] = "idle"
          /\ \A u \in Workers : u # w => pc'[u] = pc[u]
      BY <1>5, DeliverTypes DEF Receive
    <2>2. \A u \in Workers : u # w => (wait'[u] = Nobody => wait[u] = Nobody)
      BY <1>5, Detached DEF Receive, OnInit, OnConnect, OnViews, OnDisconnect,
                  OnReport, OnRunFailed, OnPropose, OnNobody, Nobody
    <2>3. QED
      BY <2>1, <2>2
  <1>6. CASE RestartServer
    BY <1>6 DEF RestartServer, Server!Restart
  <1>7. CASE UNCHANGED vars
    BY <1>7 DEF vars, server
  <1>8. QED
    BY <1>1, <1>2, <1>3, <1>4, <1>5, <1>6, <1>7 DEF Next

-----------------------------------------------------------------------------
(* The cached result and the report.                                       *)

(* A step that shows and caches no result, and neither ends nor starts a   *)
(* query.                                                                  *)
LEMMA CacheFrame ==
  ASSUME CacheIsTheReport,
         \/ page'.report = page.report
         \/ page'.report = None /\ \A u \in Workers : wait'[u] # "propose",
         \A f \in page'.fixes : f \in page.fixes \/ f.of = f.labels,
         lastResult' \in {lastResult, None},
         AtMostOne({"run"})', "run" \in Pending' => "run" \in Pending,
         \A u \in Workers :
           \/ wait'[u] \notin {"run", "propose"}
           \/ pc'[u] \notin {"query_narrate", "fix_ask", "answered"}
           \/ pc'[u] = "answered" /\ ~OK(u)'
           \/ /\ wait'[u] = wait[u] /\ pc'[u] = pc[u]
              /\ result'[u] = result[u] /\ reply'[u] = reply[u]
  PROVE  CacheIsTheReport'
BY DEF CacheIsTheReport, FixesMatchTheirLabels, OK

LEMMA UserCache ==
  ASSUME IndInv, Awaited, CacheIsTheReport, ~ReloadWhenBusy, User
  PROVE  CacheIsTheReport'
  <1> USE DEF IndInv, Send, server
  <1>1. ASSUME NEW p \in Params, SubmitWizard(p) PROVE CacheIsTheReport'
    <2> PICK r \in Server!Requests : outbox' = outbox \cup Send("connect", r)
      BY <1>1, SubmitSends DEF Sends
    <2>1. AtMostOne({"run"})' /\ ("run" \in Pending' => "run" \in Pending)
      BY <1>1, CountFewer, PendingIs DEF SubmitWizard, CacheIsTheReport, Pending
    <2>2. QED
      BY <1>1, <2>1, CacheFrame DEF SubmitWizard, PageTypeOK, Pages
  <1>2. CASE ClickDisconnect
    <2>1. AtMostOne({"run"})' /\ ("run" \in Pending' => "run" \in Pending)
      BY <1>2, CountFewer, PendingIs DEF ClickDisconnect, CacheIsTheReport, Pending
    <2>2. QED
      BY <1>2, <2>1, CacheFrame DEF ClickDisconnect
  <1>3. CASE ClickPropose
    <2>1. AtMostOne({"run"})' /\ ("run" \in Pending' => "run" \in Pending)
      BY <1>3, CountFewer, PendingIs DEF ClickPropose, CacheIsTheReport, Pending
    <2>2. QED
      BY <1>3, <2>1, CacheFrame DEF ClickPropose, PageTypeOK, Pages
  <1>4. ASSUME NEW q \in Queries, NEW n \in Narrate, ClickRun(q, n)
        PROVE  CacheIsTheReport'
    <2> PICK r \in Server!Requests : outbox' = DetachedOutbox \cup Send("run", r)
      BY <1>4, ClientBounds, RunSends DEF Sends
    <2>1. "run" \notin Pending /\ wait' = DetachedWait
      BY <1>4 DEF ClickRun
    <2>2. AtMostOne({"run"})'
      BY <2>1, Detached, CountFirst
    <2>3. page'.report = None /\ page'.fixes = {}
      BY <1>4 DEF ClickRun, PageTypeOK, Pages
    <2>4. \A u \in Workers : wait'[u] \notin {"run", "propose"}
      BY <2>1, Detached, PendingIs
    <2>5. QED
      BY <2>2, <2>3, <2>4 DEF CacheIsTheReport, FixesMatchTheirLabels
  <1>5. CASE Reload
    <2>1. \A u \in Workers : wait'[u] = Nobody
      BY <1>5 DEF Reload
    <2>2. page'.report = None /\ page'.fixes = {}
      BY <1>5 DEF Reload, FreshPage
    <2>3. AtMostOne({"run"})'
      BY <1>5, <2>1 DEF Reload, AtMostOne, Nobody
    <2>4. QED
      BY <2>1, <2>2, <2>3 DEF CacheIsTheReport, FixesMatchTheirLabels, Nobody
  <1>6. QED
    BY <1>1, <1>2, <1>3, <1>4, <1>5 DEF User

(* A request is taken by a thread, refused, or cut off by a restart.       *)
LEMMA TransportCache ==
  ASSUME IndInv, Awaited, CacheIsTheReport,
         \/ \E w \in Workers, h \in Handlers : Dispatch(w, h) \/ Refuse(w, h)
         \/ RestartServer
  PROVE  CacheIsTheReport'
  <1> USE DEF IndInv
  <1>1. ASSUME NEW w \in Workers, NEW h \in Handlers, Dispatch(w, h) \/ Refuse(w, h)
        PROVE  CacheIsTheReport'
    <2> PICK m \in outbox : /\ m.handler = h /\ outbox' = outbox \ {m}
                            /\ wait' = [wait EXCEPT ![w] = m.handler]
      BY <1>1 DEF Dispatch, Refuse
    <2>1. pc[w] = "idle" /\ wait[w] = Nobody
      BY <1>1, ServedFor DEF Dispatch, Refuse, Server!Arrive
    <2>2. AtMostOne({"run"})'
      BY <2>1, CountMoved DEF CacheIsTheReport, Nobody
    <2>3. "run" \in Pending' => "run" \in Pending
      BY PendingIs DEF Pending, PageTypeOK
    <2>4. /\ UNCHANGED <<lastResult, page>>
          /\ \/ pc'[w] \notin {"query_narrate", "fix_ask", "answered"}
             \/ pc'[w] = "answered" /\ ~OK(w)'
      <3>1. CASE Dispatch(w, h)
        BY <3>1, FirstStepTyped DEF Dispatch, Server!Arrive, Server!Goto,
           Server!stores, ServerTypeOK, PageTypeOK
      <3>2. CASE Refuse(w, h)
        BY <3>2, ReplyTyped DEF Refuse, OK, ServerTypeOK
      <3>3. QED
        BY <1>1, <3>1, <3>2
    <2>5. \A u \in Workers : u # w =>
            /\ wait'[u] = wait[u] /\ pc'[u] = pc[u]
            /\ result'[u] = result[u] /\ reply'[u] = reply[u]
      BY <1>1 DEF Dispatch, Refuse, Server!Arrive, Server!Goto, PageTypeOK, ServerTypeOK
    <2>6. QED
      BY <2>2, <2>3, <2>4, <2>5, CacheFrame
  <1>2. CASE RestartServer
    <2>1. \A u \in Workers : pc'[u] = "idle" \/ (pc'[u] = "answered" /\ ~OK(u)')
      BY <1>2, ReplyTyped DEF RestartServer, Server!Restart, OK
    <2>2. AtMostOne({"run"})' /\ ("run" \in Pending' => "run" \in Pending)
      BY <1>2 DEF RestartServer, CacheIsTheReport, AtMostOne, Pending
    <2>3. QED
      BY <1>2, <2>1, <2>2, CacheFrame DEF RestartServer, Server!Restart
  <1>3. QED
    BY <1>1, <1>2

(* What the server caches is the report that is awaited; what it proposes  *)
(* for is the report from which the proposal was asked.                    *)
LEMMA ServeCache ==
  ASSUME IndInv, Awaited, CacheIsTheReport, NEW w \in Workers, Serve(w)
  PROVE  CacheIsTheReport'
  <1> USE DEF IndInv, Serve, CacheIsTheReport
  <1>0. /\ ServerTypeOK /\ LocalsOK(w) /\ Server!Handle(w)
        /\ UNCHANGED <<page, outbox, wait>>
    OBVIOUS
  <1>1. AtMostOne({"run"})' /\ ("run" \in Pending' <=> "run" \in Pending)
    BY DEF AtMostOne, Pending
  <1>2. pc[w] = "query_cache" => wait[w] = "run"
    BY ServedFor
  <1>3. wait[w] = "run" => page.report = None /\ \A u \in Workers : u # w => wait[u] # "run"
    BY PendingIs DEF AtMostOne
  <1>4. wait[w] = "propose" => page.report # None
    BY PendingIs DEF ReportOK
  <1>5. page.report # None => lastResult' \in {page.report, None}
    BY <1>0, <1>2, <1>3, ServeStores
  <1>6. ASSUME NEW u \in Workers, u # w
        PROVE  /\ wait[u] = "run" /\ pc'[u] = "query_narrate"
                    => lastResult' \in {result'[u], None}
               /\ wait[u] = "run" /\ pc'[u] = "answered" /\ OK(u)'
                    => lastResult' \in {reply'[u].result, None}
               /\ wait[u] = "propose" /\ pc'[u] = "fix_ask" => result'[u] = page.report
               /\ wait[u] = "propose" /\ pc'[u] = "answered" /\ OK(u)'
                    => reply'[u].result = page.report
    BY <1>0, <1>2, <1>3, <1>6, ServeOthers, ServeStores DEF OK
  <1>7. /\ wait[w] = "run" /\ pc'[w] = "query_narrate"
             => lastResult' \in {result'[w], None}
        /\ wait[w] = "run" /\ pc'[w] = "answered" /\ OK(w)'
             => lastResult' \in {reply'[w].result, None}
    <2>1. wait[w] = "run" => pc[w] \in StepsFor("run")
      BY DEF RightEndpoint, Nobody
    <2>2. QED
      BY <1>0, <2>1, ServeStores, ServeTypes DEF StepsFor
  <1>8. /\ wait[w] = "propose" /\ pc'[w] = "fix_ask" => result'[w] = page.report
        /\ wait[w] = "propose" /\ pc'[w] = "answered" /\ OK(w)'
             => reply'[w].result = page.report
    <2>1. wait[w] = "propose" => pc[w] \in StepsFor("propose")
      BY DEF RightEndpoint, Nobody
    <2>2. QED
      BY <1>0, <1>4, <2>1, ServeStores, ServeTypes DEF StepsFor
  <1>9. QED
    BY <1>0, <1>1, <1>5, <1>6, <1>7, <1>8 DEF FixesMatchTheirLabels

(* The report that arrives is the result that is cached, if one is still.  *)
LEMMA ReceiveCache ==
  ASSUME IndInv, Awaited, CacheIsTheReport, NEW w \in Workers, Receive(w)
  PROVE  CacheIsTheReport'
  <1> USE DEF IndInv, Receive
  <1>0. /\ Server!Deliver(w) /\ lastResult' = lastResult /\ pc[w] = "answered"
        /\ \A u \in Workers : u # w =>
             /\ pc'[u] = pc[u] /\ result'[u] = result[u] /\ reply'[u] = reply[u]
    BY DeliverTypes
  <1>1. ASSUME wait' = [wait EXCEPT ![w] = Nobody]
               \/ wait' = [DetachedWait EXCEPT ![w] = Nobody],
               \A m \in outbox' : m.handler = "run" => m \in outbox
        PROVE  /\ AtMostOne({"run"})' /\ ("run" \in Pending' => "run" \in Pending)
               /\ \A u \in Workers :
                    wait'[u] \in {"run", "propose"} => u # w /\ wait'[u] = wait[u]
    <2>1. \A u \in Workers :
            wait'[u] \in {"run", "propose"} => u # w /\ wait'[u] = wait[u]
      BY <1>1, Detached DEF PageTypeOK, Nobody
    <2>2. AtMostOne({"run"})'
      BY <1>1, <2>1, CountFewer DEF CacheIsTheReport
    <2>3. QED
      BY <1>1, <2>1, <2>2, PendingIs DEF Pending
  <1>2. CASE OnInit(w) \/ OnConnect(w) \/ OnViews(w)
    <2>1. page'.report = page.report /\ page'.fixes = page.fixes
      BY <1>2 DEF OnInit, OnConnect, OnViews, LoadViews, Connected, Disconnected,
                  PageTypeOK, Pages
    <2>2. /\ wait' = [wait EXCEPT ![w] = Nobody]
          /\ \A m \in outbox' : m.handler = "run" => m \in outbox
      BY <1>2 DEF OnInit, OnConnect, OnViews, LoadViews, Send
    <2>3. QED
      BY <1>0, <1>1, <2>1, <2>2, CacheFrame
  <1>3. CASE OnRunFailed(w)
    <2>1. page'.report = page.report /\ page'.fixes = page.fixes
      BY <1>3 DEF OnRunFailed, PageTypeOK, Pages
    <2>2. QED
      BY <1>0, <1>1, <1>3, <2>1, CacheFrame DEF OnRunFailed
  <1>4. CASE OnDisconnect(w)
    <2>1. page'.report = None /\ page'.fixes = {}
      BY <1>4 DEF OnDisconnect, NoReport, Disconnected, PageTypeOK, Pages
    <2>2. /\ wait' = [DetachedWait EXCEPT ![w] = Nobody]
          /\ \A m \in outbox' : m.handler = "run" => m \in outbox
          /\ \A u \in Workers : wait'[u] # "propose"
      BY <1>4, Detached DEF OnDisconnect, Nobody
    <2>3. QED
      BY <1>0, <1>1, <2>1, <2>2, CacheFrame
  <1>5. CASE OnReport(w)
    <2>1. /\ page'.report = reply[w].result /\ page'.fixes = {}
          /\ lastResult \in {reply[w].result, None}
      BY <1>0, <1>5 DEF OnReport, CacheIsTheReport, PageTypeOK, Pages
    <2>2. /\ wait' = [DetachedWait EXCEPT ![w] = Nobody]
          /\ \A m \in outbox' : m.handler = "run" => m \in outbox
          /\ \A u \in Workers : wait'[u] # "propose"
      BY <1>5, Detached DEF OnReport, Nobody
    <2>3. \A u \in Workers : wait'[u] # "run"
      BY <1>1, <1>5, <2>2 DEF OnReport, CacheIsTheReport, AtMostOne
    <2>4. \A m \in outbox' : m.handler # "run"
      BY <1>5, <2>2 DEF OnReport, CacheIsTheReport, AtMostOne
    <2>5. QED
      BY <1>0, <1>1, <2>1, <2>2, <2>3, <2>4, PendingIs
      DEF CacheIsTheReport, FixesMatchTheirLabels, Pending
  <1>6. CASE OnPropose(w)
    <2>1. wait[w] = "propose" /\ OK(w) => reply[w].result = page.lastFindings
      BY <1>0, PendingIs DEF CacheIsTheReport, ReportOK
    <2> DEFINE shown == IF OK(w) /\ wait[w] = "propose"
                        THEN page.fixes \cup {[of |-> reply[w].result,
                                               labels |-> page.lastFindings]}
                        ELSE page.fixes
    <2>2. page' = [page EXCEPT !.overlay = FALSE, !.fixes = shown]
      BY <1>6 DEF OnPropose, PageTypeOK, Pages
    <2>3. \A f \in shown : f \in page.fixes \/ f.of = f.labels
      BY <2>1
    <2> HIDE DEF shown
    <2>4. /\ page'.report = page.report
          /\ \A f \in page'.fixes : f \in page.fixes \/ f.of = f.labels
      BY <2>2, <2>3 DEF PageTypeOK, Pages
    <2>5. QED
      BY <1>0, <1>1, <1>6, <2>4, CacheFrame DEF OnPropose
  <1>7. CASE OnNobody(w)
    <2>1. \A u \in Workers : wait'[u] \in {"run", "propose"} => u # w
      BY <1>7 DEF OnNobody, Nobody
    <2>2. AtMostOne({"run"})' /\ ("run" \in Pending' => "run" \in Pending)
      BY <1>7 DEF OnNobody, CacheIsTheReport, AtMostOne, Pending
    <2>3. QED
      BY <1>0, <1>7, <2>1, <2>2, CacheFrame DEF OnNobody
  <1>8. QED
    BY <1>2, <1>3, <1>4, <1>5, <1>6, <1>7

LEMMA NextCache ==
  ASSUME IndInv, Awaited, CacheIsTheReport, ~ReloadWhenBusy, [Next]_vars
  PROVE  CacheIsTheReport'
  <1>1. CASE UNCHANGED vars
    BY <1>1 DEF vars, server, CacheIsTheReport, AtMostOne, Pending, OK,
                FixesMatchTheirLabels
  <1>2. QED
    BY <1>1, UserCache, TransportCache, ServeCache, ReceiveCache DEF Next

-----------------------------------------------------------------------------
(* The session and the connection the page names.                          *)

(* A step that connects nobody and shows no other section.                 *)
LEMMA PillFrame ==
  ASSUME PillIsTheSession,
         page'.screen = page.screen, page'.pill = page.pill,
         page'.connectBtn = page.connectBtn, session' \in {session, None},
         AtMostOne(WizardHandlers)', AtMostOne({"init"})',
         \A h \in Pending' :
           \/ h \in Pending \/ h = Nobody
           \/ page.screen # "blank" /\ h \in WorkspaceHandlers \cup {"disconnect"},
         \A u \in Workers :
           \/ wait'[u] \notin {"init", "connect"}
           \/ pc'[u] # "answered"
           \/ ~OK(u)'
           \/ wait'[u] = wait[u] /\ pc'[u] = pc[u] /\ reply'[u] = reply[u]
  PROVE  PillIsTheSession'
BY DEF PillIsTheSession, PageNamesNoOtherSession, OK, WizardHandlers,
       WorkspaceHandlers, Nobody

LEMMA UserPill ==
  ASSUME IndInv, Awaited, PillIsTheSession, ~ReloadWhenBusy, User
  PROVE  PillIsTheSession'
  <1> USE DEF IndInv, server
  <1>1. ASSUME NEW p \in Params, SubmitWizard(p) PROVE PillIsTheSession'
    <2> PICK r \in Server!Requests : outbox' = outbox \cup Send("connect", r)
      BY <1>1, SubmitSends DEF Sends
    <2>1. /\ page.screen = "wizard" /\ page.connectBtn
          /\ page'.screen = page.screen /\ page'.pill = page.pill
          /\ ~page'.connectBtn
          /\ UNCHANGED <<server, wait>>
      BY <1>1 DEF SubmitWizard, PageTypeOK, Pages
    <2>2. WizardHandlers \cap Pending = {} /\ page.pill = None /\ "init" \notin Pending
      BY <2>1 DEF PillIsTheSession
    <2>3. AtMostOne(WizardHandlers)'
      BY <2>1, <2>2, CountFirst
    <2>4. "init" \notin Pending' /\ AtMostOne({"init"})'
      BY <2>1, <2>2, PendingIs DEF Pending, AtMostOne, Send
    <2>5. QED
      BY <2>1, <2>2, <2>3, <2>4 DEF PillIsTheSession, PageNamesNoOtherSession, OK
  <1>2. CASE ClickDisconnect
    <2>1. AtMostOne(WizardHandlers)' /\ AtMostOne({"init"})'
      BY <1>2, CountFewer DEF ClickDisconnect, PillIsTheSession, Send, WizardHandlers
    <2>2. \A h \in Pending' : h \in Pending \/ h = "disconnect"
      BY <1>2 DEF ClickDisconnect, Pending, Send
    <2>3. QED
      BY <1>2, <2>1, <2>2, PillFrame DEF ClickDisconnect
  <1>3. CASE ClickPropose
    <2>1. AtMostOne(WizardHandlers)' /\ AtMostOne({"init"})'
      BY <1>3, CountFewer DEF ClickPropose, PillIsTheSession, Send, WizardHandlers
    <2>2. \A h \in Pending' : h \in Pending \/ h = "propose"
      BY <1>3 DEF ClickPropose, Pending, Send
    <2>3. QED
      BY <1>3, <2>1, <2>2, PillFrame DEF ClickPropose, WorkspaceHandlers, PageTypeOK, Pages
  <1>4. ASSUME NEW q \in Queries, NEW n \in Narrate, ClickRun(q, n)
        PROVE  PillIsTheSession'
    <2> PICK r \in Server!Requests : outbox' = DetachedOutbox \cup Send("run", r)
      BY <1>4, ClientBounds, RunSends DEF Sends
    <2>1. /\ page.screen = "workspace" /\ wait' = DetachedWait
          /\ UNCHANGED server
          /\ page'.screen = page.screen /\ page'.pill = page.pill
          /\ page'.connectBtn = page.connectBtn
      BY <1>4 DEF ClickRun, PageTypeOK, Pages
    <2>2. AtMostOne(WizardHandlers)' /\ AtMostOne({"init"})'
      BY <2>1, Detached, CountFewer DEF PillIsTheSession, Send, WizardHandlers
    <2>3. \A h \in Pending' : h \in Pending \/ h \in {"run", "propose_detached"}
      BY <2>1, Detached, PendingIs DEF Pending, Send
    <2>4. QED
      BY <2>1, <2>2, <2>3, Detached, PillFrame DEF WorkspaceHandlers
  <1>5. CASE Reload
    <2>1. /\ page' = FreshPage /\ \A u \in Workers : wait'[u] = Nobody
          /\ outbox' = Send("init", Plain("status"))
      BY <1>5 DEF Reload
    <2>2. AtMostOne(WizardHandlers)' /\ AtMostOne({"init"})'
      BY <2>1 DEF AtMostOne, Send, WizardHandlers, Nobody
    <2>3. \A h \in Pending' : h \in {"init", Nobody}
      BY <2>1 DEF Pending, Send
    <2>4. QED
      BY <2>1, <2>2, <2>3 DEF PillIsTheSession, PageNamesNoOtherSession, FreshPage,
         WizardHandlers, Nobody
  <1>6. QED
    BY <1>1, <1>2, <1>3, <1>4, <1>5 DEF User

LEMMA TransportPill ==
  ASSUME IndInv, Awaited, PillIsTheSession,
         \/ \E w \in Workers, h \in Handlers : Dispatch(w, h) \/ Refuse(w, h)
         \/ RestartServer
  PROVE  PillIsTheSession'
  <1> USE DEF IndInv
  <1>1. ASSUME NEW w \in Workers, NEW h \in Handlers, Dispatch(w, h) \/ Refuse(w, h)
        PROVE  PillIsTheSession'
    <2> PICK m \in outbox : /\ m.handler = h /\ outbox' = outbox \ {m}
                            /\ wait' = [wait EXCEPT ![w] = m.handler]
      BY <1>1 DEF Dispatch, Refuse
    <2>1. pc[w] = "idle" /\ wait[w] = Nobody
      BY <1>1, ServedFor DEF Dispatch, Refuse, Server!Arrive
    <2>2. AtMostOne(WizardHandlers)' /\ AtMostOne({"init"})'
      BY <2>1, CountMoved DEF PillIsTheSession, WizardHandlers, Nobody
    <2>3. \A k \in Pending' : k \in Pending \/ k = Nobody
      BY DEF Pending, PageTypeOK
    <2>4. /\ UNCHANGED <<session, page>>
          /\ pc'[w] = "answered" => ~OK(w)'
      <3>1. CASE Dispatch(w, h)
        BY <3>1, FirstStepTyped DEF Dispatch, Server!Arrive, Server!Goto,
           Server!stores, ServerTypeOK, PageTypeOK
      <3>2. CASE Refuse(w, h)
        BY <3>2, ReplyTyped DEF Refuse, OK, ServerTypeOK
      <3>3. QED
        BY <1>1, <3>1, <3>2
    <2>5. \A u \in Workers : u # w =>
            wait'[u] = wait[u] /\ pc'[u] = pc[u] /\ reply'[u] = reply[u]
      BY <1>1 DEF Dispatch, Refuse, Server!Arrive, Server!Goto, PageTypeOK, ServerTypeOK
    <2>6. QED
      BY <2>2, <2>3, <2>4, <2>5, PillFrame
  <1>2. CASE RestartServer
    <2>1. \A u \in Workers : pc'[u] = "answered" => ~OK(u)'
      BY <1>2, ReplyTyped DEF RestartServer, Server!Restart, OK
    <2>2. /\ AtMostOne(WizardHandlers)' /\ AtMostOne({"init"})'
          /\ \A h \in Pending' : h \in Pending
      BY <1>2 DEF RestartServer, PillIsTheSession, AtMostOne, Pending
    <2>3. QED
      BY <1>2, <2>1, <2>2, PillFrame DEF RestartServer, Server!Restart
  <1>3. QED
    BY <1>1, <1>2

(* Who stores a session answers with it; meanwhile the page names none.    *)
LEMMA ServePill ==
  ASSUME IndInv, Awaited, PillIsTheSession, NEW w \in Workers, Serve(w)
  PROVE  PillIsTheSession'
  <1> USE DEF IndInv, Serve, PillIsTheSession
  <1>0. /\ ServerTypeOK /\ LocalsOK(w) /\ Server!Handle(w)
        /\ UNCHANGED <<page, outbox, wait>>
    OBVIOUS
  <1>1. /\ AtMostOne(WizardHandlers)' /\ AtMostOne({"init"})'
        /\ Pending' = Pending
    BY DEF AtMostOne, Pending
  <1>2. CASE pc[w] = "connect_store"
    <2>1. wait[w] = "connect" /\ page.pill = None
      BY <1>2, ServedFor, PendingIs
    <2>2. \A u \in Workers : u # w => wait[u] \notin {"init", "connect"}
      BY <2>1, PendingIs DEF AtMostOne, WizardHandlers, Nobody
    <2>3. reply'[w].conn = session'
      BY <1>0, <1>2, ServeStores
    <2>4. QED
      BY <1>0, <1>1, <2>1, <2>2, <2>3 DEF PageNamesNoOtherSession
  <1>3. CASE pc[w] # "connect_store"
    <2>1. session' \in {session, None}
      BY <1>0, <1>3, ServeStores
    <2>2. \A u \in Workers : u # w => pc'[u] = pc[u] /\ reply'[u] = reply[u]
      BY <1>0, ServeOthers
    <2>3. wait[w] \in {"init", "connect"} /\ pc'[w] = "answered" /\ OK(w)'
            => reply'[w].conn = None \/ session' \in {reply'[w].conn, None}
      <3>1. wait[w] \in {"init", "connect"} => pc[w] \in StepsFor(wait[w])
        BY DEF RightEndpoint, Nobody
      <3>2. QED
        BY <1>0, <1>3, <3>1, ServeStores, ServeTypes DEF StepsFor
    <2>4. QED
      BY <1>0, <1>1, <2>1, <2>2, <2>3 DEF PageNamesNoOtherSession, OK
  <1>4. QED
    BY <1>2, <1>3

(* A response to the page that first asks for the session, or to the       *)
(* wizard: nothing else of the kind is pending.                            *)
LEMMA ReceivePill ==
  ASSUME IndInv, Awaited, PillIsTheSession, NEW w \in Workers, Receive(w)
  PROVE  PillIsTheSession'
  <1> USE DEF IndInv, Receive
  <1>0. /\ Server!Deliver(w) /\ session' = session /\ pc[w] = "answered"
        /\ \A u \in Workers : u # w => pc'[u] = pc[u] /\ reply'[u] = reply[u]
    BY DeliverTypes
  <1>1. ASSUME wait' = [wait EXCEPT ![w] = Nobody]
               \/ wait' = [DetachedWait EXCEPT ![w] = Nobody],
               \A m \in outbox' : m \in outbox \/ m.handler = "propose_detached"
        PROVE  /\ AtMostOne(WizardHandlers)' /\ AtMostOne({"init"})'
               /\ \A u \in Workers : wait'[u] \in WizardHandlers \cup {"init"}
                    => u # w /\ wait'[u] = wait[u]
    <2>1. \A u \in Workers : wait'[u] \in WizardHandlers \cup {"init"}
            => u # w /\ wait'[u] = wait[u]
      BY <1>1, Detached DEF PageTypeOK, WizardHandlers, Nobody
    <2>2. QED
      BY <1>1, <2>1, CountFewer DEF PillIsTheSession, WizardHandlers
  <1>2. CASE OnInit(w)
    <2>1. /\ page.screen = "blank"
          /\ \A h \in Pending : h \in {"init", Nobody}
          /\ \A u \in Workers : u # w => wait[u] # "init"
          /\ \A m \in outbox : m.handler # "init"
      BY <1>2, PendingIs DEF OnInit, PillIsTheSession, AtMostOne
    <2>2. \A m \in outbox : FALSE
      BY <2>1, PendingIs DEF PageTypeOK, Handlers, Nobody
    <2>3. wait' = [wait EXCEPT ![w] = Nobody]
      BY <1>2 DEF OnInit
    <2>4. \A u \in Workers : wait'[u] = Nobody
      BY <2>1, <2>3, PendingIs DEF PageTypeOK
    <2>5. CASE OK(w) /\ reply[w].conn # None
      <3>1. /\ page'.screen = "workspace" /\ page'.pill = reply[w].conn
            /\ page'.connectBtn = page.connectBtn
            /\ outbox' = outbox \cup Send("init_views", Plain("views"))
        BY <1>2, <2>5 DEF OnInit, LoadViews, Connected, PageTypeOK, Pages
      <3>2. session \in {reply[w].conn, None}
        BY <1>0, <1>2, <2>5 DEF OnInit, PillIsTheSession
      <3>3. \A h \in Pending' : h \in {"init_views", Nobody}
        BY <2>2, <2>4, <3>1 DEF Pending, Send
      <3>4. AtMostOne(WizardHandlers)' /\ AtMostOne({"init"})'
        BY <2>2, <2>4, <3>1 DEF AtMostOne, Send, WizardHandlers, Nobody
      <3>5. QED
        BY <1>0, <2>4, <3>1, <3>2, <3>3, <3>4
        DEF PillIsTheSession, PageNamesNoOtherSession, WizardHandlers, Nobody
    <2>6. CASE ~(OK(w) /\ reply[w].conn # None)
      <3>1. /\ page'.screen = "wizard" /\ page'.pill = None
            /\ outbox' = outbox
        BY <1>2, <2>6 DEF OnInit, Disconnected, PageTypeOK, Pages
      <3>2. \A h \in Pending' : h = Nobody
        BY <2>2, <2>4, <3>1 DEF Pending
      <3>3. AtMostOne(WizardHandlers)' /\ AtMostOne({"init"})'
        BY <2>2, <2>4, <3>1 DEF AtMostOne, WizardHandlers, Nobody
      <3>4. QED
        BY <2>4, <3>1, <3>2, <3>3
        DEF PillIsTheSession, PageNamesNoOtherSession, WizardHandlers, Nobody
    <2>7. QED
      BY <2>5, <2>6
  <1>3. CASE OnConnect(w)
    <2>1. /\ wait[w] = "connect" /\ wait' = [wait EXCEPT ![w] = Nobody]
          /\ page.screen # "blank" /\ "init" \notin Pending
      BY <1>3, PendingIs DEF OnConnect, PillIsTheSession, Nobody
    <2>2. /\ \A u \in Workers : wait'[u] \notin WizardHandlers
          /\ \A m \in outbox : m.handler \notin WizardHandlers
      BY <2>1 DEF PillIsTheSession, AtMostOne, PageTypeOK, WizardHandlers, Nobody
    <2>3. \A h \in Pending' : h \in Pending \/ h \in {"connect_views", Nobody}
      BY <1>3, <2>1 DEF OnConnect, LoadViews, Send, Pending, PageTypeOK
    <2>4. "init" \notin Pending' /\ AtMostOne({"init"})'
      BY <2>1, <2>3, PendingIs DEF AtMostOne, Pending, Nobody
    <2>5. CASE OK(w)
      <3>1. /\ page'.screen = "workspace" /\ page'.pill = reply[w].conn
            /\ page'.connectBtn = page.connectBtn
            /\ outbox' = outbox \cup Send("connect_views", Plain("views"))
        BY <1>3, <2>5 DEF OnConnect, LoadViews, Connected, PageTypeOK, Pages
      <3>2. reply[w].conn = None \/ session \in {reply[w].conn, None}
        BY <1>0, <2>1, <2>5 DEF PillIsTheSession
      <3>3. AtMostOne(WizardHandlers)'
        BY <2>2, <3>1 DEF AtMostOne, Send
      <3>4. "connect" \notin Pending'
        BY <2>2, <3>1 DEF Pending, Send, WizardHandlers
      <3>5. ~page'.connectBtn
        BY <2>1, <3>1, PendingIs DEF PillIsTheSession, WizardHandlers
      <3>6. \A u \in Workers : wait'[u] \notin {"init", "connect"}
        BY <2>2, <2>4 DEF Pending, WizardHandlers
      <3>7. QED
        BY <1>0, <2>4, <3>1, <3>2, <3>3, <3>4, <3>5, <3>6
        DEF PillIsTheSession, PageNamesNoOtherSession
    <2>6. CASE ~OK(w)
      <3>1. /\ page'.screen = page.screen /\ page'.pill = page.pill
            /\ outbox' = outbox
        BY <1>3, <2>6 DEF OnConnect, PageTypeOK, Pages
      <3>2. AtMostOne(WizardHandlers)' /\ WizardHandlers \cap Pending' = {}
        BY <2>2, <3>1 DEF AtMostOne, Pending
      <3>3. \A u \in Workers : wait'[u] \notin {"init", "connect"}
        BY <2>2, <2>4 DEF Pending, WizardHandlers
      <3>4. QED
        BY <1>0, <2>1, <2>4, <3>1, <3>2, <3>3
        DEF PillIsTheSession, PageNamesNoOtherSession, WizardHandlers
    <2>7. QED
      BY <2>5, <2>6
  <1>4. CASE OnViews(w)
    <2>1. /\ wait[w] \in {"init_views", "connect_views"} /\ outbox' = outbox
          /\ wait' = [wait EXCEPT ![w] = Nobody]
          /\ page'.screen = page.screen /\ page'.pill = page.pill
          /\ page'.connectBtn = (page.connectBtn \/ wait[w] = "connect_views")
      BY <1>4 DEF OnViews, PageTypeOK, Pages
    <2>2. /\ AtMostOne(WizardHandlers)' /\ AtMostOne({"init"})'
          /\ \A u \in Workers : wait'[u] \in WizardHandlers \cup {"init"}
               => u # w /\ wait'[u] = wait[u]
          /\ \A h \in Pending' : h \in Pending \/ h = Nobody
      BY <1>1, <2>1 DEF Pending, PageTypeOK
    <2>3. CASE wait[w] = "init_views"
      BY <1>0, <2>1, <2>2, <2>3, PillFrame DEF WizardHandlers, PageTypeOK, Pages
    <2>4. CASE wait[w] = "connect_views"
      <3>1. WizardHandlers \cap Pending' = {}
        BY <2>1, <2>4, PendingIs
        DEF PillIsTheSession, AtMostOne, Pending, PageTypeOK, WizardHandlers, Nobody
      <3>2. QED
        BY <1>0, <2>1, <2>2, <3>1
        DEF PillIsTheSession, PageNamesNoOtherSession, OK, WizardHandlers, Nobody
    <2>5. QED
      BY <2>1, <2>3, <2>4
  <1>5. CASE OnDisconnect(w)
    <2>1. /\ wait' = [DetachedWait EXCEPT ![w] = Nobody] /\ outbox' = DetachedOutbox
          /\ page'.screen = "wizard" /\ page'.pill = None
          /\ page'.connectBtn = page.connectBtn
      BY <1>5 DEF OnDisconnect, NoReport, Disconnected, PageTypeOK, Pages
    <2>2. "init" \notin Pending
      BY <1>5, PendingIs DEF OnDisconnect, PillIsTheSession, Nobody
    <2>3. \A h \in Pending' : h \in Pending \/ h \in {"propose_detached", Nobody}
      BY <2>1, Detached DEF Pending
    <2>4. /\ AtMostOne(WizardHandlers)' /\ AtMostOne({"init"})'
          /\ \A u \in Workers : wait'[u] \in WizardHandlers \cup {"init"}
               => u # w /\ wait'[u] = wait[u]
      BY <1>1, <2>1, Detached
    <2>5. QED
      BY <1>0, <2>1, <2>2, <2>3, <2>4
      DEF PillIsTheSession, PageNamesNoOtherSession, OK, WizardHandlers, Nobody
  <1>6. CASE OnReport(w) \/ OnRunFailed(w) \/ OnPropose(w)
    <2>1. /\ page'.screen = page.screen /\ page'.pill = page.pill
          /\ page'.connectBtn = page.connectBtn
      BY <1>6 DEF OnReport, OnRunFailed, OnPropose, PageTypeOK, Pages
    <2>2. /\ \/ wait' = [wait EXCEPT ![w] = Nobody]
             \/ wait' = [DetachedWait EXCEPT ![w] = Nobody]
          /\ outbox' \in {outbox, DetachedOutbox}
      BY <1>6 DEF OnReport, OnRunFailed, OnPropose
    <2>3. page.screen # "blank"
      BY <1>6, PendingIs DEF OnReport, OnRunFailed, OnPropose, PillIsTheSession, Nobody
    <2>4. \A h \in Pending' : h \in Pending \/ h \in {"propose_detached", Nobody}
      BY <2>2, Detached DEF Pending, PageTypeOK
    <2>5. /\ AtMostOne(WizardHandlers)' /\ AtMostOne({"init"})'
          /\ \A u \in Workers : wait'[u] \in WizardHandlers \cup {"init"}
               => u # w /\ wait'[u] = wait[u]
      BY <1>1, <2>2, Detached
    <2>6. QED
      BY <1>0, <2>1, <2>3, <2>4, <2>5, PillFrame DEF WizardHandlers, WorkspaceHandlers
  <1>7. CASE OnNobody(w)
    <2>1. /\ wait[w] = Nobody /\ UNCHANGED <<page, outbox, wait>>
      BY <1>7 DEF OnNobody
    <2>2. /\ AtMostOne(WizardHandlers)' /\ AtMostOne({"init"})'
          /\ Pending' = Pending
      BY <2>1 DEF PillIsTheSession, AtMostOne, Pending
    <2>3. \A u \in Workers : wait'[u] \in {"init", "connect"} => u # w
      BY <2>1 DEF Nobody
    <2>4. QED
      BY <1>0, <2>1, <2>2, <2>3, PillFrame
  <1>8. QED
    BY <1>2, <1>3, <1>4, <1>5, <1>6, <1>7

LEMMA NextPill ==
  ASSUME IndInv, Awaited, PillIsTheSession, ~ReloadWhenBusy, [Next]_vars
  PROVE  PillIsTheSession'
  <1>1. CASE UNCHANGED vars
    BY <1>1 DEF vars, server, PillIsTheSession, AtMostOne, Pending, OK,
                PageNamesNoOtherSession
  <1>2. QED
    BY <1>1, UserPill, TransportPill, ServePill, ReceivePill DEF Next

-----------------------------------------------------------------------------

(* As long as a page is not loaded again while its requests are pending,   *)
(* its pill, report and cache are those of one session.                    *)
THEOREM QuietInductive == ~ReloadWhenBusy => (Spec => []QuietInv)
  <1> SUFFICES ASSUME ~ReloadWhenBusy PROVE Spec => []QuietInv
    OBVIOUS
  <1>1. IndInv /\ QuietInv /\ [Next]_vars => QuietInv'
    BY NextAwaited, NextCache, NextPill DEF QuietInv
  <1>2. QED
    BY <1>1, Inductive, InitQuietInv, PTL DEF Spec

(* The model's fixes are for the findings whose labels they carry: the     *)
(* result that is cached when a proposal is asked for is the report, and   *)
(* no answer to an earlier report is shown under a later one.              *)
THEOREM FixesAreLabelledRight == ~ReloadWhenBusy => (Spec => []FixesMatchTheirLabels)
  <1>1. QuietInv => FixesMatchTheirLabels
    BY DEF QuietInv, CacheIsTheReport
  <1>2. QED
    BY <1>1, QuietInductive, PTL

(* However connects, disconnects, restarts and late answers interleave,    *)
(* the page does not name one connection while the server runs queries on  *)
(* another.                                                                *)
THEOREM PageAndServerAgree == ~ReloadWhenBusy => (Spec => []PageNamesNoOtherSession)
  <1>1. QuietInv => PageNamesNoOtherSession
    BY DEF QuietInv, PillIsTheSession
  <1>2. QED
    BY <1>1, QuietInductive, PTL

=============================================================================
