---------------------------- MODULE WebAppProofs ----------------------------
(***************************************************************************)
(* Proofs about the API for any number of pool threads, any connection     *)
(* parameters and any queries.                                             *)
(***************************************************************************)
EXTENDS WebAppProps, TLAPS

-----------------------------------------------------------------------------
(* The inductive invariant, in parts.                                      *)

(* What a worker's program point says about its request and locals.        *)
LocalsOK(w) ==
  /\ pc[w] \in {"connect_test", "connect_store"} => req[w].params \in Params
  /\ pc[w] = "connect_store" => req[w].params \in tested
  /\ pc[w] \in AfterSnapshot \cup {"query_session"} => req[w].query \in Queries
  /\ pc[w] \in AfterSnapshot \cup {"views_list"} => params[w] # None
  /\ pc[w] = "query_analyse" => result[w] # None /\ result[w].source = params[w]
  /\ pc[w] \in {"query_cache", "query_narrate", "fix_ask"}
       => result[w] # None /\ result[w].label = result[w].source

(* What a worker's locals and reply owe the properties.                    *)
LocalsSafe(w) ==
  /\ params[w] # None => params[w] \in tested
  /\ (pc[w] = "answered" /\ reply[w].result # None)
       => reply[w].result.label = reply[w].result.source

(* A query in flight that no clear has straddled still has its session: a  *)
(* session disappears only by a clear, which marks the queries in flight.  *)
UnstraddledHasSession ==
  \A w \in Workers :
    (pc[w] \in AfterSnapshot /\ w \notin straddles) => session # None

StoresSafe ==
  /\ session # None => session \in tested
  /\ lastResult # None => lastResult.label = lastResult.source

(* A step of one request.                                                  *)
Step(w) == (\E r \in Requests : Arrive(w, r)) \/ Handle(w) \/ Deliver(w)

IndInv ==
  /\ TypeOK
  /\ \A w \in Workers : LocalsOK(w) /\ LocalsSafe(w)
  /\ StoresSafe
  /\ UnstraddledHasSession
  /\ StaleResultOnlyFromStraddlingQuery

-----------------------------------------------------------------------------
(* The records the handlers build and take apart.                          *)

LEMMA ReplyTyped ==
  /\ NoReply \in Replies /\ Broken \in Replies
  /\ NoReply.result = None /\ Broken.result = None
  /\ \A s \in Statuses, c \in Params \cup {None}, r \in Results \cup {None} :
       [status |-> s, conn |-> c, result |-> r] \in Replies
BY DEF NoReply, Broken, Replies, Statuses, NoStatus

LEMMA CaptureTyped ==
  ASSUME NEW p \in Params, NEW q \in Queries
  PROVE  [source |-> p, label |-> None, query |-> q] \in Results
BY DEF Results

LEMMA AnalyseTyped ==
  ASSUME NEW p \in Params, NEW r \in Results
  PROVE  /\ [r EXCEPT !.label = p] \in Results
         /\ [r EXCEPT !.label = p].label = p
         /\ [r EXCEPT !.label = p].source = r.source
BY DEF Results

LEMMA RequestTyped ==
  ASSUME NEW r \in Requests
  PROVE  /\ FirstStep(r.kind) \in
              {"connect_test", "status_check", "clear_session",
               "views_session", "query_session", "fix_result"}
         /\ FirstStep(r.kind) = "connect_test" => r.params \in Params
         /\ FirstStep(r.kind) = "query_session" => r.query \in Queries
BY DEF Requests, FirstStep

-----------------------------------------------------------------------------
(* Every step keeps the types.                                             *)

LEMMA StepTypeOK ==
  ASSUME StateTypeOK, NEW w \in Workers, LocalsOK(w), Step(w)
  PROVE  StateTypeOK'
  <1> USE ReplyTyped
      DEF StateTypeOK, LocalsOK, stores, Goto, Answer, Fail, RequireConnection,
          RequireLastResult, PCs, AfterSnapshot, Statuses
  <1>0. ASSUME NEW r \in Requests, Arrive(w, r) PROVE StateTypeOK'
    BY <1>0, RequestTyped DEF Arrive
  <1>1. CASE ConnectTest(w)
    BY <1>1 DEF ConnectTest
  <1>2. CASE ConnectStore(w)
    BY <1>2 DEF ConnectStore
  <1>3. CASE StatusCheck(w)
    BY <1>3 DEF StatusCheck
  <1>4. CASE StatusRead(w)
    BY <1>4 DEF StatusRead
  <1>5. CASE ClearSession(w)
    BY <1>5 DEF ClearSession
  <1>6. CASE ClearResult(w)
    BY <1>6 DEF ClearResult
  <1>7. CASE ViewsSession(w)
    BY <1>7 DEF ViewsSession
  <1>8. CASE ViewsList(w)
    BY <1>8 DEF ViewsList
  <1>9. CASE QuerySession(w)
    BY <1>9 DEF QuerySession
  <1>10. CASE QueryCapture(w)
    BY <1>10, CaptureTyped DEF QueryCapture
  <1>11. CASE QueryAnalyse(w)
    <2>1. result[w] \in Results /\ params[w] \in Params
      BY <1>11 DEF QueryAnalyse
    <2>2. [result[w] EXCEPT !.label = params[w]] \in Results
      BY <2>1, AnalyseTyped
    <2>3. result' \in [Workers -> Results \cup {None}]
      BY <1>11, <2>2 DEF QueryAnalyse
    <2>4. pc' \in [Workers -> PCs] /\ reply' \in [Workers -> Replies]
      BY <1>11 DEF QueryAnalyse
    <2>5. QED
      BY <1>11, <2>3, <2>4 DEF QueryAnalyse
  <1>12. CASE QueryCache(w)
    BY <1>12 DEF QueryCache
  <1>13. CASE QueryNarrate(w)
    BY <1>13 DEF QueryNarrate
  <1>14. CASE FixResult(w)
    BY <1>14 DEF FixResult
  <1>15. CASE FixAsk(w)
    BY <1>15 DEF FixAsk
  <1>16. CASE Deliver(w)
    BY <1>16 DEF Deliver
  <1>20. QED
    BY <1>0, <1>1, <1>2, <1>3, <1>4, <1>5, <1>6, <1>7, <1>8, <1>9, <1>10, <1>11, <1>12, <1>13, <1>14, <1>15, <1>16 DEF Handle, Step

(* The history is of its types whatever happens to the requests.           *)
LEMMA RecordTypeOK ==
  ASSUME HistoryTypeOK, \A w \in Workers : LocalsOK(w), Record
  PROVE  HistoryTypeOK' /\ tested \subseteq tested'
BY DEF HistoryTypeOK, LocalsOK, Record

-----------------------------------------------------------------------------
(* A step of one worker leaves the locals of the others alone.             *)

LEMMA StepFrame ==
  ASSUME StateTypeOK, NEW w \in Workers, NEW u \in Workers, u # w,
         Step(w)
  PROVE  /\ pc'[u] = pc[u] /\ req'[u] = req[u] /\ params'[u] = params[u]
         /\ result'[u] = result[u] /\ reply'[u] = reply[u]
  <1> USE DEF StateTypeOK, stores, Goto, Answer, Fail, RequireConnection,
             RequireLastResult
  <1>1. CASE \E r \in Requests : Arrive(w, r)
    BY <1>1 DEF Arrive
  <1>2. CASE Deliver(w)
    BY <1>2 DEF Deliver
  <1>3. CASE Handle(w)
    BY <1>3 DEF Handle, ConnectTest, ConnectStore, StatusCheck, StatusRead, ClearSession, ClearResult, 
       ViewsSession, ViewsList, QuerySession, QueryCapture, QueryAnalyse, 
       QueryCache, QueryNarrate, FixResult, FixAsk
  <1>4. QED
    BY <1>1, <1>2, <1>3 DEF Step

(* A step keeps the invariant of the worker that takes it.                 *)
LEMMA StepOwnLocals ==
  ASSUME StateTypeOK, StateTypeOK', NEW w \in Workers, LocalsOK(w), LocalsSafe(w),
         StoresSafe, Step(w), Record
  PROVE  LocalsOK(w)' /\ LocalsSafe(w)'
  <1> USE NoneIsNothing
      DEF StateTypeOK, LocalsOK, LocalsSafe, StoresSafe, Record, stores,
          Goto, Answer, Fail, RequireConnection, RequireLastResult, AfterSnapshot
  <1>0. ASSUME NEW r \in Requests, Arrive(w, r)
        PROVE  LocalsOK(w)' /\ LocalsSafe(w)'
    BY <1>0, RequestTyped DEF Arrive
  <1>1. CASE ConnectTest(w)
    BY <1>1 DEF ConnectTest
  <1>2. CASE ConnectStore(w)
    BY <1>2 DEF ConnectStore
  <1>3. CASE StatusCheck(w)
    BY <1>3 DEF StatusCheck
  <1>4. CASE StatusRead(w)
    BY <1>4 DEF StatusRead
  <1>5. CASE ClearSession(w)
    BY <1>5 DEF ClearSession
  <1>6. CASE ClearResult(w)
    BY <1>6 DEF ClearResult
  <1>7. CASE ViewsSession(w)
    BY <1>7 DEF ViewsSession
  <1>8. CASE ViewsList(w)
    BY <1>8 DEF ViewsList
  <1>9. CASE QuerySession(w)
    BY <1>9 DEF QuerySession
  <1>10. CASE QueryCapture(w)
    <2>1. CASE pc'[w] = "answered"
      BY <1>10, <2>1 DEF QueryCapture
    <2>2. CASE pc'[w] = "query_analyse"
      <3>1. params[w] \in Params /\ req[w].query \in Queries
        BY <1>10 DEF QueryCapture
      <3>2. result'[w] = [source |-> params[w], label |-> None, query |-> req[w].query]
        BY <1>10, <2>2 DEF QueryCapture
      <3>3. result'[w] # None /\ result'[w].source = params[w]
        BY <3>1, <3>2, CaptureTyped
      <3>4. QED
        BY <1>10, <2>2, <3>3 DEF QueryCapture
    <2>3. QED
      BY <1>10, <2>1, <2>2 DEF QueryCapture
  <1>11. CASE QueryAnalyse(w)
    <2>1. CASE pc'[w] = "answered"
      BY <1>11, <2>1 DEF QueryAnalyse
    <2>2. CASE pc'[w] = "query_cache"
      <3>1. result[w] \in Results /\ params[w] \in Params
        BY <1>11 DEF QueryAnalyse
      <3>2. result'[w] = [result[w] EXCEPT !.label = params[w]]
        BY <1>11, <2>2 DEF QueryAnalyse
      <3>3. result'[w] # None /\ result'[w].label = result'[w].source
        BY <1>11, <3>1, <3>2, AnalyseTyped DEF QueryAnalyse
      <3>4. QED
        BY <1>11, <2>2, <3>3 DEF QueryAnalyse
    <2>3. QED
      BY <1>11, <2>1, <2>2 DEF QueryAnalyse
  <1>12. CASE QueryCache(w)
    BY <1>12 DEF QueryCache
  <1>13. CASE QueryNarrate(w)
    BY <1>13 DEF QueryNarrate
  <1>14. CASE FixResult(w)
    BY <1>14 DEF FixResult
  <1>15. CASE FixAsk(w)
    BY <1>15 DEF FixAsk
  <1>16. CASE Deliver(w)
    BY <1>16, ReplyTyped DEF Deliver, NoReply
  <1>20. QED
    BY <1>0, <1>1, <1>2, <1>3, <1>4, <1>5, <1>6, <1>7, <1>8, <1>9, <1>10, <1>11, <1>12, <1>13, <1>14, <1>15, <1>16 DEF Handle, Step

LEMMA StepLocals ==
  ASSUME StateTypeOK, StateTypeOK', StoresSafe, NEW w \in Workers,
         \A u \in Workers : LocalsOK(u) /\ LocalsSafe(u),
         Step(w), Record
  PROVE  \A u \in Workers : LocalsOK(u)' /\ LocalsSafe(u)'
  <1> SUFFICES ASSUME NEW u \in Workers PROVE LocalsOK(u)' /\ LocalsSafe(u)'
    OBVIOUS
  <1>1. CASE u = w
    BY <1>1, StepOwnLocals
  <1>2. CASE u # w
    <2>1. /\ pc'[u] = pc[u] /\ req'[u] = req[u] /\ params'[u] = params[u]
          /\ result'[u] = result[u] /\ reply'[u] = reply[u]
      BY <1>2, StepFrame
    <2>2. tested \subseteq tested'
      BY DEF Record
    <2>3. QED
      BY <2>1, <2>2 DEF LocalsOK, LocalsSafe
  <1>3. QED
    BY <1>1, <1>2

-----------------------------------------------------------------------------
(* What a step can do to the stores.                                       *)

LEMMA StepStores ==
  ASSUME StateTypeOK, NEW w \in Workers, LocalsOK(w), Step(w)
  PROVE  /\ session' # session => session' = None \/ ConnectStore(w)
         /\ session' = None => session = None \/ pc'[w] = "clear_result"
         /\ lastResult' # lastResult => lastResult' = None \/ QueryCache(w)
         /\ pc[w] = "clear_result" => lastResult' = None
         /\ pc[w] = "query_cache" => QueryCache(w) /\ pc'[w] # pc[w]
         /\ pc'[w] \in AfterSnapshot => pc[w] \in AfterSnapshot \/ session' # None
  <1> USE DEF StateTypeOK, stores, Goto, Answer, Fail, RequireConnection,
              RequireLastResult, AfterSnapshot
  <1>1. CASE \E r \in Requests : Arrive(w, r)
    BY <1>1, RequestTyped DEF Arrive
  <1>2. CASE ConnectTest(w) \/ StatusCheck(w) \/ StatusRead(w)
    BY <1>2 DEF ConnectTest, StatusCheck, StatusRead
  <1>3. CASE ClearSession(w) \/ ClearResult(w)
    BY <1>3 DEF ClearSession, ClearResult
  <1>4. CASE ViewsSession(w) \/ ViewsList(w)
    BY <1>4 DEF ViewsSession, ViewsList
  <1>5. CASE QuerySession(w) \/ QueryCapture(w)
    BY <1>5 DEF QuerySession, QueryCapture
  <1>6. CASE QueryAnalyse(w) \/ QueryCache(w) \/ QueryNarrate(w)
    BY <1>6 DEF QueryAnalyse, QueryCache, QueryNarrate
  <1>7. CASE FixResult(w) \/ FixAsk(w) \/ Deliver(w)
    BY <1>7 DEF FixResult, FixAsk, Deliver
  <1>8. CASE ConnectStore(w)
    <2>1. pc'[w] = "answered" /\ UNCHANGED lastResult
      BY <1>8 DEF ConnectStore
    <2>2. session' \in Params
      BY <1>8 DEF ConnectStore, LocalsOK
    <2>3. QED
      BY <1>8, <2>1, <2>2, NoneIsNothing DEF ConnectStore
  <1>9. QED
    BY <1>1, <1>2, <1>3, <1>4, <1>5, <1>6, <1>7, <1>8 DEF Step, Handle

LEMMA StepStoresSafe ==
  ASSUME IndInv, NEW w \in Workers, Step(w), Record
  PROVE  StoresSafe'
  <1>1. tested \subseteq tested'
    BY DEF Record
  <1>2. session' # None => session' \in tested
    BY StepStores DEF IndInv, TypeOK, StoresSafe, LocalsOK, ConnectStore
  <1>3. lastResult' # None => lastResult'.label = lastResult'.source
    BY StepStores DEF IndInv, TypeOK, StoresSafe, LocalsOK, QueryCache
  <1>4. QED
    BY <1>1, <1>2, <1>3 DEF StoresSafe

(* A query that has its snapshot either keeps its session or is marked.    *)
LEMMA StepUnstraddled ==
  ASSUME IndInv, NEW w \in Workers, Step(w), Record
  PROVE  UnstraddledHasSession'
  <1> SUFFICES ASSUME NEW u \in Workers, pc'[u] \in AfterSnapshot, session' = None
               PROVE  u \in straddles'
    BY DEF UnstraddledHasSession
  <1>1. pc[u] \in AfterSnapshot
    <2>1. CASE u = w
      BY <2>1, StepStores DEF IndInv, TypeOK
    <2>2. CASE u # w
      BY <2>2, StepFrame DEF IndInv, TypeOK
    <2>3. QED
      BY <2>1, <2>2
  <1>2. QED
    BY <1>1 DEF Record, AfterSnapshot

LEMMA StepStale ==
  ASSUME IndInv, NEW w \in Workers, Step(w), Record
  PROVE  StaleResultOnlyFromStraddlingQuery'
  <1> SUFFICES ASSUME session' = None, ~BetweenClears', lastResult' # None
               PROVE  cacheStraddles'
    BY DEF StaleResultOnlyFromStraddlingQuery
  <1> USE DEF IndInv, TypeOK
  <1>1. session = None
    BY StepStores DEF BetweenClears
  <1>2. CASE pc[w] = "query_cache"
    <2>1. w \in straddles
      BY <1>1, <1>2 DEF UnstraddledHasSession, AfterSnapshot
    <2>2. pc'[w] # pc[w]
      BY <1>2, StepStores
    <2>3. QED
      BY <1>2, <2>1, <2>2 DEF Record
  <1>3. CASE pc[w] # "query_cache"
    <2>1. lastResult' = lastResult
      BY <1>3, StepStores DEF QueryCache
    <2>2. ~BetweenClears
      <3> SUFFICES ASSUME NEW u \in Workers, pc[u] = "clear_result" PROVE FALSE
        BY DEF BetweenClears
      <3>1. u # w
        BY StepStores
      <3>2. QED
        BY <3>1, StepFrame DEF BetweenClears
    <2>3. \A u \in Workers : pc[u] = "query_cache" => pc'[u] = pc[u]
      BY <1>3, StepFrame
    <2>4. cacheStraddles' = cacheStraddles
      BY <2>3 DEF Record
    <2>5. QED
      BY <1>1, <2>1, <2>2, <2>4 DEF StaleResultOnlyFromStraddlingQuery
  <1>4. QED
    BY <1>2, <1>3

-----------------------------------------------------------------------------
(* The theorems.                                                           *)

LEMMA InitIndInv == RecordedInit => IndInv
  <1> SUFFICES ASSUME RecordedInit PROVE IndInv
    OBVIOUS
  <1> USE DEF RecordedInit, Init
  <1>1. TypeOK
    BY ReplyTyped DEF TypeOK, StateTypeOK, HistoryTypeOK, PCs
  <1>2. \A w \in Workers : LocalsOK(w) /\ LocalsSafe(w)
    BY DEF LocalsOK, LocalsSafe, AfterSnapshot
  <1>3. QED
    BY <1>1, <1>2
    DEF IndInv, StoresSafe, UnstraddledHasSession, AfterSnapshot,
        StaleResultOnlyFromStraddlingQuery

LEMMA UnchangedIndInv == IndInv /\ UNCHANGED <<vars, history>> => IndInv'
BY DEF IndInv, vars, history, TypeOK, StateTypeOK, HistoryTypeOK, LocalsOK,
       LocalsSafe, StoresSafe, UnstraddledHasSession,
       StaleResultOnlyFromStraddlingQuery, BetweenClears

(* A restart leaves no session, no result and no handler running.          *)
LEMMA RestartIndInv == ASSUME IndInv, Restart, Record PROVE IndInv'
  <1> USE DEF Restart
  <1>1. TypeOK'
    <2>1. pc' \in [Workers -> PCs]
      BY DEF IndInv, TypeOK, StateTypeOK, PCs
    <2>2. reply' \in [Workers -> Replies]
      BY ReplyTyped
    <2>3. HistoryTypeOK'
      BY RecordTypeOK DEF IndInv, TypeOK
    <2>4. QED
      BY <2>1, <2>2, <2>3 DEF IndInv, TypeOK, StateTypeOK
  <1>2. \A w \in Workers : LocalsOK(w)' /\ LocalsSafe(w)'
    BY ReplyTyped DEF LocalsOK, LocalsSafe, AfterSnapshot
  <1>3. QED
    BY <1>1, <1>2
    DEF IndInv, StoresSafe, UnstraddledHasSession, AfterSnapshot,
        StaleResultOnlyFromStraddlingQuery

(* What handlers hold between two of their steps (app.py 193-321).         *)
THEOREM Inductive == RecordedSpec => []IndInv
  <1>1. IndInv /\ [RecordedNext]_<<vars, history>> => IndInv'
    <2> SUFFICES ASSUME IndInv, [RecordedNext]_<<vars, history>> PROVE IndInv'
      OBVIOUS
    <2>1. CASE UNCHANGED <<vars, history>>
      BY <2>1, UnchangedIndInv
    <2>2. ASSUME NEW w \in Workers, Step(w), Record PROVE IndInv'
      <3>1. StateTypeOK'
        BY <2>2, StepTypeOK DEF IndInv, TypeOK
      <3>2. HistoryTypeOK'
        BY <2>2, RecordTypeOK DEF IndInv, TypeOK
      <3>3. \A u \in Workers : LocalsOK(u)' /\ LocalsSafe(u)'
        BY <2>2, <3>1, StepLocals DEF IndInv, TypeOK
      <3>4. /\ StoresSafe' /\ UnstraddledHasSession'
            /\ StaleResultOnlyFromStraddlingQuery'
        BY <2>2, StepStoresSafe, StepUnstraddled, StepStale
      <3>5. QED
        BY <3>1, <3>2, <3>3, <3>4 DEF IndInv, TypeOK
    <2>3. CASE Restart /\ Record
      BY <2>3, RestartIndInv
    <2>4. QED
      BY <2>1, <2>2, <2>3 DEF RecordedNext, Next, Step
  <1>2. QED
    BY <1>1, InitIndInv, PTL DEF RecordedSpec

(* Every variable and every handler's locals keep their types.             *)
THEOREM TypeCorrect == RecordedSpec => []TypeOK
  <1>1. IndInv => TypeOK
    BY DEF IndInv
  <1>2. QED
    BY <1>1, Inductive, PTL

(* With any number of overlapping requests, no untested parameters are     *)
(* ever stored or used (app.py 192-216, 256, 281).                         *)
THEOREM TestedParams == RecordedSpec => []OnlyTestedParamsInUse
  <1>1. IndInv => OnlyTestedParamsInUse
    BY DEF IndInv, OnlyTestedParamsInUse, StoresSafe, LocalsSafe
  <1>2. QED
    BY <1>1, Inductive, PTL

(* With any number of overlapping requests, a report and a cached result   *)
(* name the database their plan came from (app.py 281-303).                *)
THEOREM ReportsNameTheirDatabase == RecordedSpec => []ReportNamesItsDatabase
  <1>1. IndInv => ReportNamesItsDatabase
    BY DEF IndInv, ReportNamesItsDatabase, StoresSafe, LocalsSafe
  <1>2. QED
    BY <1>1, Inductive, PTL

(* A cached result outlives its disconnect only if its query was in flight *)
(* when the session was cleared (app.py 245-249 against 281-303).          *)
THEOREM StaleOnlyByStraddling == RecordedSpec => []StaleResultOnlyFromStraddlingQuery
  <1>1. IndInv => StaleResultOnlyFromStraddlingQuery
    BY DEF IndInv
  <1>2. QED
    BY <1>1, Inductive, PTL

=============================================================================
