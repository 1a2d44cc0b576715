------------------------------ MODULE WebClient -----------------------------
(***************************************************************************)
(* The page (web/static/app.js) in front of the API of WebApp.  The page   *)
(* is one event loop: a handler runs up to its next `await fetch`, and the *)
(* rest of it when the response arrives.  While it waits, the user may     *)
(* press whatever is on the screen and enabled.  The overlay, up while a   *)
(* query or a proposal runs, stops the mouse and not the keyboard: what    *)
(* guards a control is its `disabled` flag and the section it is in.       *)
(* Loading the page again forgets every variable of it, while the requests *)
(* it sent go on in the server.  The server may end and be started again   *)
(* under an open page, and a request may find nobody listening.            *)
(***************************************************************************)
EXTENDS Integers, FiniteSets

CONSTANTS
  Workers, Params, Queries, Untimed, None,
  Narrate,         \* settings of the narrate checkbox that are tried
  MaxDisconnects,  \* bound: DELETEs pending at once (the button stays enabled)
  ReloadWhenBusy,  \* the page may be loaded again while requests are pending
  ServerStops      \* the server may end under an open page, and start again

ASSUME ClientBounds ==
  /\ MaxDisconnects \in Nat /\ Narrate \subseteq BOOLEAN
  /\ {ReloadWhenBusy, ServerStops} \subseteq BOOLEAN

VARIABLES
  session, lastResult, pc, req, params, result, reply,   \* see WebApp
  page,      \* what the page shows and the variables of its script
  outbox,    \* requests sent that no pool thread has taken yet
  wait       \* wait[w]: the handler that awaits the response of w

Server == INSTANCE WebApp

server == <<session, lastResult, pc, req, params, result, reply>>
vars == <<server, page, outbox, wait>>

(* The asynchronous handlers, by the fetch they are waiting for.           *)
(* "propose_detached" is handleProposeFix once the container and the note  *)
(* it holds have been removed from the report.                             *)
Handlers == {"init", "init_views", "connect", "connect_views", "disconnect",
             "run", "propose", "propose_detached"}
Nobody == "nobody"

Request(kind, p, q, narrate) ==
  [kind |-> kind, params |-> p, query |-> q, narrate |-> narrate]
Plain(kind) == Request(kind, None, None, FALSE)

FreshPage ==
  [screen       |-> "blank",   \* "blank", "wizard" or "workspace"
   pill         |-> None,      \* the connection the pill names
   views        |-> {},        \* connections whose views are in the sidebar
   lastFindings |-> None,      \* the result lastFindings is taken from
   report       |-> None,      \* the result in the report element
   fixes        |-> {},        \* [of, labels] of the proposals shown in it
   overlay      |-> FALSE,     \* the overlay is up
   connectBtn   |-> TRUE]      \* Test & Connect is enabled

(* The handlers of this page that wait for a response.                     *)
Pending == {wait[w] : w \in Workers} \cup {m.handler : m \in outbox}

Send(handler, request) == {[handler |-> handler, request |-> request]}

(* Mutant: the container is looked up when the answer arrives.             *)
DetachNever(h) == h

(* The report is emptied or replaced under a proposal that is pending.     *)
Detach(h) == IF h = "propose" THEN "propose_detached" ELSE h
DetachedOutbox == {[m EXCEPT !.handler = Detach(@)] : m \in outbox}
DetachedWait == [w \in Workers |-> Detach(wait[w])]

-----------------------------------------------------------------------------

Init ==
  /\ Server!Init
  /\ page = FreshPage
  /\ outbox = Send("init", Plain("status"))
  /\ wait = [w \in Workers |-> Nobody]

(* A request of the page reaches a pool thread, in any order.              *)
Dispatch(w, handler) ==
  \E m \in outbox :
    /\ m.handler = handler
    /\ Server!Arrive(w, m.request)
    /\ outbox' = outbox \ {m}
    /\ wait' = [wait EXCEPT ![w] = m.handler]
    /\ UNCHANGED page

(* Nobody listens: the fetch rejects, and w stands for an exchange without *)
(* a thread.                                                               *)
Refuse(w, handler) ==
  \E m \in outbox :
    /\ ServerStops /\ pc[w] = "idle" /\ m.handler = handler
    /\ pc' = [pc EXCEPT ![w] = "answered"]
    /\ reply' = [reply EXCEPT ![w] = Server!Broken]
    /\ outbox' = outbox \ {m}
    /\ wait' = [wait EXCEPT ![w] = m.handler]
    /\ UNCHANGED <<session, lastResult, req, params, result, page>>

RestartServer ==
  /\ ServerStops /\ Server!Restart
  /\ UNCHANGED <<page, outbox, wait>>

Serve(w) ==
  /\ Server!Handle(w)
  /\ UNCHANGED <<page, outbox, wait>>

-----------------------------------------------------------------------------
(* What the user does.  A button stays disabled while its own handler      *)
(* runs; Disconnect never is.                                              *)

(* Mutant: Test & Connect is not disabled.                                 *)
SubmitWizardAgain(p) ==
  /\ page.screen = "wizard"
  /\ outbox' = outbox \cup Send("connect", Request("connect", p, None, FALSE))
  /\ UNCHANGED <<server, page, wait>>

SubmitWizard(p) ==
  /\ page.screen = "wizard" /\ page.connectBtn
  /\ page' = [page EXCEPT !.connectBtn = FALSE]
  /\ outbox' = outbox \cup Send("connect", Request("connect", p, None, FALSE))
  /\ UNCHANGED <<server, wait>>

ClickDisconnect ==
  /\ page.screen = "workspace"
  /\ Cardinality({w \in Workers : wait[w] = "disconnect"}) < MaxDisconnects
  /\ Send("disconnect", Plain("disconnect")) \cap outbox = {}
  /\ outbox' = outbox \cup Send("disconnect", Plain("disconnect"))
  /\ UNCHANGED <<server, page, wait>>

(* The report element is emptied; lastFindings is not.                     *)
ClickRun(q, n) ==
  /\ page.screen = "workspace" /\ "run" \notin Pending
  /\ page' = [page EXCEPT !.report = None, !.fixes = {}, !.overlay = TRUE]
  /\ outbox' = DetachedOutbox \cup Send("run", Request("query", None, q, n))
  /\ wait' = DetachedWait
  /\ UNCHANGED server

(* The button is part of the report.                                       *)
ClickPropose ==
  /\ page.screen = "workspace" /\ page.report # None
  /\ "propose" \notin Pending
  /\ page' = [page EXCEPT !.overlay = TRUE]
  /\ outbox' = outbox \cup Send("propose", Plain("propose_fix"))
  /\ UNCHANGED <<server, wait>>

(* The page is loaded again, and the old one is gone.  Requests already    *)
(* with the server go on there; nobody waits for them any more.            *)
Reload ==
  /\ page.screen # "blank"
  /\ ReloadWhenBusy \/ (outbox = {} /\ \A w \in Workers : wait[w] = Nobody)
  /\ page' = FreshPage
  /\ outbox' = Send("init", Plain("status"))
  /\ wait' = [w \in Workers |-> Nobody]
  /\ UNCHANGED server

-----------------------------------------------------------------------------
(* What the page does with a response: the rest of the handler.            *)

OK(w) == reply[w].status \in {200, 204}

(* loadViews up to its fetch: the list is emptied.                         *)
LoadViews(handler, p) ==
  /\ page' = [p EXCEPT !.views = {}]
  /\ outbox' = outbox \cup Send(handler, Plain("views"))

(* renderConnected.                                                        *)
Connected(p, c) == [p EXCEPT !.screen = "workspace", !.pill = c]
Disconnected(p) == [p EXCEPT !.screen = "wizard", !.pill = None]

(* What is left of a page whose report element has been emptied.           *)
NoReport(p) == [p EXCEPT !.report = None, !.fixes = {}]

OnInit(w) ==
  /\ wait[w] = "init"
  /\ IF OK(w) /\ reply[w].conn # None
     THEN LoadViews("init_views", Connected(page, reply[w].conn))
     ELSE page' = Disconnected(page) /\ UNCHANGED outbox
  /\ wait' = [wait EXCEPT ![w] = Nobody]

(* Mutant: the button comes back on success only.                          *)
OnConnectForgetsFinally(w) ==
  /\ wait[w] = "connect"
  /\ IF OK(w)
     THEN LoadViews("connect_views", Connected(page, reply[w].conn))
     ELSE UNCHANGED <<page, outbox>>
  /\ wait' = [wait EXCEPT ![w] = Nobody]

OnConnect(w) ==
  /\ wait[w] = "connect"
  /\ IF OK(w)
     THEN LoadViews("connect_views", Connected(page, reply[w].conn))
     ELSE page' = [page EXCEPT !.connectBtn = TRUE] /\ UNCHANGED outbox
  /\ wait' = [wait EXCEPT ![w] = Nobody]

(* Mutant: the answer is not checked.                                      *)
OnViewsUnchecked(w) ==
  /\ wait[w] \in {"init_views", "connect_views"}
  /\ page' = [page EXCEPT !.views = @ \cup {reply[w].conn},
                          !.connectBtn = @ \/ wait[w] = "connect_views"]
  /\ wait' = [wait EXCEPT ![w] = Nobody]
  /\ UNCHANGED outbox

(* The rest of loadViews: the views are appended to the list; after a      *)
(* connect, the wizard's `finally` runs too.                               *)
OnViews(w) ==
  /\ wait[w] \in {"init_views", "connect_views"}
  /\ page' = [page EXCEPT
       !.views = IF OK(w) THEN @ \cup {reply[w].conn} ELSE @,
       !.connectBtn = @ \/ wait[w] = "connect_views"]
  /\ wait' = [wait EXCEPT ![w] = Nobody]
  /\ UNCHANGED outbox

(* Mutant: the report is only hidden with its section.                     *)
OnDisconnectKeepsReport(w) ==
  /\ wait[w] = "disconnect"
  /\ page' = Disconnected([page EXCEPT !.lastFindings = None])
  /\ wait' = [wait EXCEPT ![w] = Nobody]
  /\ UNCHANGED outbox

(* Whatever the answer, the page looks disconnected.                       *)
OnDisconnect(w) ==
  /\ wait[w] = "disconnect"
  /\ page' = Disconnected([NoReport(page) EXCEPT !.lastFindings = None])
  /\ outbox' = DetachedOutbox
  /\ wait' = [DetachedWait EXCEPT ![w] = Nobody]

(* renderReport; then `finally`.                                           *)
OnReport(w) ==
  /\ wait[w] = "run" /\ OK(w)
  /\ page' = [page EXCEPT !.report = reply[w].result, !.fixes = {},
                          !.lastFindings = reply[w].result, !.overlay = FALSE]
  /\ outbox' = DetachedOutbox
  /\ wait' = [DetachedWait EXCEPT ![w] = Nobody]

(* Mutant: the overlay comes down on success only.                         *)
OnRunFailedForgetsFinally(w) ==
  /\ wait[w] = "run" /\ ~OK(w)
  /\ wait' = [wait EXCEPT ![w] = Nobody]
  /\ UNCHANGED <<page, outbox>>

(* The error banner; then `finally`.                                       *)
OnRunFailed(w) ==
  /\ wait[w] = "run" /\ ~OK(w)
  /\ page' = [page EXCEPT !.overlay = FALSE]
  /\ wait' = [wait EXCEPT ![w] = Nobody]
  /\ UNCHANGED outbox

(* renderProposedFixes labels each fix by lastFindings[finding_index] and  *)
(* appends to the container it was asked from; then `finally`.             *)
OnPropose(w) ==
  /\ wait[w] \in {"propose", "propose_detached"}
  /\ page' = [page EXCEPT !.overlay = FALSE,
       !.fixes = IF OK(w) /\ wait[w] = "propose"
                 THEN @ \cup {[of |-> reply[w].result, labels |-> page.lastFindings]}
                 ELSE @]
  /\ wait' = [wait EXCEPT ![w] = Nobody]
  /\ UNCHANGED outbox

OnNobody(w) ==
  /\ wait[w] = Nobody
  /\ UNCHANGED <<page, outbox, wait>>

Receive(w) ==
  /\ Server!Deliver(w)
  /\ \/ OnInit(w) \/ OnConnect(w) \/ OnViews(w) \/ OnDisconnect(w)
     \/ OnReport(w) \/ OnRunFailed(w) \/ OnPropose(w) \/ OnNobody(w)

-----------------------------------------------------------------------------

User ==
  \/ \E p \in Params : SubmitWizard(p)
  \/ ClickDisconnect
  \/ \E q \in Queries, n \in Narrate : ClickRun(q, n)
  \/ ClickPropose
  \/ Reload

Next ==
  \/ User
  \/ \E w \in Workers :
       \/ \E h \in Handlers : Dispatch(w, h) \/ Refuse(w, h)
       \/ Serve(w)
       \/ Receive(w)
  \/ RestartServer

(* A handler that runs keeps running and its response is delivered.  No    *)
(* request waits for a thread for ever: Starlette's pool has far more      *)
(* threads than a page has requests, so the few workers of a model are     *)
(* shared fairly between the wizard's requests and the workspace's.        *)
(* The user may do nothing.                                                *)
WizardHandlers == {"connect", "connect_views"}
WorkspaceHandlers == {"run", "propose", "propose_detached"}

Spec ==
  /\ Init /\ [][Next]_vars
  /\ \A w \in Workers : WF_vars(Serve(w)) /\ WF_vars(Receive(w))
  /\ \A H \in {WizardHandlers, WorkspaceHandlers} :
       SF_vars(\E w \in Workers, h \in H : Dispatch(w, h))

-----------------------------------------------------------------------------

ResultsOrNone == Server!Results \cup {None}

TypeOK ==
  /\ page.screen \in {"blank", "wizard", "workspace"}
  /\ page.pill \in Params \cup {None}
  /\ page.views \subseteq Params
  /\ page.lastFindings \in ResultsOrNone /\ page.report \in ResultsOrNone
  /\ page.fixes \subseteq [of : ResultsOrNone, labels : ResultsOrNone]
  /\ {page.overlay, page.connectBtn} \subseteq BOOLEAN
  /\ \A m \in outbox : m.handler \in Handlers /\ m.request \in Server!Requests
  /\ wait \in [Workers -> Handlers \cup {Nobody}]

(* models.py 75: a fix's finding_index is "position in the findings list   *)
(* passed to propose_fixes".  The page labels fixes with the findings it   *)
(* showed last, the server proposes for the result it cached last: the two *)
(* are the same list.                                                      *)
FixesMatchTheirLabels ==
  \A f \in page.fixes : f.of = f.labels

(* The fixes on the page are about the report they are shown under.        *)
FixesBelongToReport ==
  \A f \in page.fixes : f.labels = page.report

(* The page never names a connection while the server would run a query on *)
(* another one, whatever is pending.  (It may be behind: Disconnect        *)
(* pressed twice lets a late DELETE clear a session opened since, and a    *)
(* late answer hide one.)                                                  *)
PageNamesNoOtherSession ==
  page.pill = session \/ page.pill = None \/ session = None

Quiet == outbox = {} /\ \A w \in Workers : pc[w] = "idle"

(* README: the sidebar lists the views of the connected database.          *)
SidebarIsOfTheConnection ==
  (Quiet /\ page.screen = "workspace") => page.views \subseteq {page.pill}

(* The overlay never stays: whatever happens to the request it waits for,  *)
(* the page can be used again.                                             *)
OverlayGoesAway == page.overlay ~> ~page.overlay

(* The connect button comes back, so a failed connect can be tried again.  *)
ConnectButtonComesBack == ~page.connectBtn ~> page.connectBtn

=============================================================================
