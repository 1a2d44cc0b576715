# A verification project for QuerySmith

QuerySmith captures the execution plan of a SQL Server query, turns it into a
neutral plan tree, lets a deterministic rules engine ("Tier 0") find problems
in it, and may ask a small local language model ("Tier 1") to explain them and
to draft fixes. It is used from a command line or from a local web page.

This directory holds TLA+ models of the parts of the program where behaviour is
hard to test: requests that overlap in the web API, a page that waits for
several answers at once, a driver and a model server that may fail at any call,
and a language model whose replies have any shape. The models are checked with
TLC, and the main results are proved with TLAPS for every value of the
constants. Everything is written from the code under `src/querysmith`.

## The system

| Part | State it keeps | Operations | Talks to |
|---|---|---|---|
| `web/session.py`, `web/last_result.py` | one attribute each, behind a `threading.Lock` | `set`, `get`, `clear`, `is_connected` | called by every route handler |
| `web/app.py` | none of its own; two module-level stores | `POST/GET/DELETE /api/connection`, `GET /api/views`, `POST /api/query`, `POST /api/propose-fix` | stores, `db`, adapter, rules, narration |
| `web/static/app.js` | the DOM, `lastFindings`, `currentFixTexts` | load, connect, disconnect, list views, run, propose | the API, by `fetch` |
| `narration/engine.py` | none | `get_narration` | Ollama client |
| `narration/fix_engine.py` | none | `propose_fixes` | Ollama client, SQL validators |
| `narration/ollama_client.py` | none | `generate_json` | Ollama over HTTP |
| `db/query_safety.py` | none | `validate_select_only`, `validate_create_index_only` | sqlglot |
| `db/connection.py`, `db/capture.py`, `db/catalog.py` | a connection for the length of a call | `connect`, `capture_plan_xml`, `list_views` | pyodbc |
| `adapters/sqlserver`, `ir/models.py` | none | `parse_plan_xml` | lxml |
| `rules/engine.py` | none | `evaluate` | |
| `narration/plan_summary.py`, prompts | none | `summarize_plan`, `build_prompt`, `build_fix_prompt` | |
| `cli.py`, `web/server.py` | none | `run`, `main` | the same pipeline |

What makes them hard:

* **Interleaving.** Starlette runs the sync handlers on a pool of threads, so
  two requests of one page interleave between any two accesses to the stores.
  The stores are single critical sections; the handlers make several calls.
* **Long waits.** `POST /api/query` executes the query and then asks the model,
  which takes minutes. Everything it read before is old when it is used.
* **A page that is re-entrant.** Each handler of `app.js` stops at its
  `await`; meanwhile the user presses other buttons, and answers arrive in
  another order than their questions.
* **Partial failure.** pyodbc, sqlglot, `urllib` and the model raise different
  exceptions at different calls, and only some of them are caught.
* **Restarts.** The stores are module variables. When the process ends, every
  open request is cut off and the session is gone, while the page stays open.
* **Untrusted shape.** A reply may repeat, reorder, skip or invent finding
  indexes and hold items that are no dicts, texts that are no SQL.

What makes each part correct: a store method is atomic and the lock is always
released; only tested connection parameters are ever used; a report names the
database its plan came from; a result does not outlive its connection; every
request is answered, unless it waits itself for a call without a timeout; the
page's labels, its sidebar and its pill belong to what they are shown with; a
correlation loop keeps the first acceptable text of each finding, and the index
the model is told is the one its reply is read by; what a Copy button copies is
its card's and has passed its validator; every connection handed over is
closed; a partial listing is never passed off as complete; a failure is blamed
on what failed; every operator of a plan is seen once, with its own object,
warnings and rows; a hash match is a join in both tables or in neither; an
index script names the columns its plan asked for; findings come worst first;
the operators the model is told about are those that cost most.

## Modules

| Module | Models |
|---|---|
| `AtomicSlot` | what a store promises: one slot, atomic methods |
| `LockedSlot` | the code of both stores, one step per access to the lock or the attribute |
| `WebApp`, `WebAppProps` | the route handlers of `web/app.py`, one step per store method or call that leaves the process; their properties |
| `WebClient` | `app.js`, composed with the API by `Server == INSTANCE WebApp` |
| `Prompts` | the list of findings `build_prompt` and `build_fix_prompt` send, and the index each is told under |
| `Extraction` | the loop of `_extract_explanations`, `_extract_suggested_fixes` and `_extract_field` |
| `OllamaClient` | one exchange of `generate_json`: what can happen and what the caller sees |
| `Narration` | `get_narration`, then `_to_query_response` and `renderReport`, or `format_report` |
| `FixProposal` | `propose_fixes`, both validators, `renderProposedFixes` and the Copy buttons |
| `LiveCall` | what a live call promises its caller: refused, or one connection and an error or the whole answer |
| `Capture` | `capture_plan_xml`, `list_views`, the connection test and `connect`, against a failing driver |
| `ModelCalls` | what depends on a reply of the model: `Narration`, `FixProposal` and the loop of `Extraction` |
| `PlanTree` | `parse_plan_xml`: from the XML tree of a plan to its operators, warnings, missing indexes and totals |
| `Tier0` | `evaluate` and `summarize_plan` |
| `Analysis` | `cli.main`, `cli.run` and the handlers of `web/app.py` around `Capture`, then `PlanTree` and `Tier0` |
| `LockedSlotProofs`, `WebAppProofs`, `ExtractionProofs`, `CaptureProofs`, `WebClientProofs` | theorems about the module each is named for |
| `NarrationProofs`, `FixProposalProofs` | theorems about the two calls of `ModelCalls`; the second builds on the first |
| `AnalysisProofs` | theorems about `Analysis`, and the lemmas about `PlanTree` and `Tier0` they rest on |
| `MC*` | definitions and symmetry sets for TLC |

How they fit together: `WebApp` treats each store call as one step, which is
justified by `LockedSlot` implementing `AtomicSlot`. The one step of `WebApp`
that captures a plan, lists the views or tests a connection stands for a whole
run of `Capture`, of which it needs what `LiveCall` says, and `QueryAnalyse`
for the steps of `Analysis` after it; the step that narrates stands for
`Narration`, the step that asks for fixes for `FixProposal`. Both of these
number the findings by `Prompts` and take the first acceptable text of each
from the reply in one step (the loops over the list of fixes and over the cards
take one step per element), which is what `Extraction` shows the loops to
compute. `WebClient` puts the page in front of `WebApp`.

### LockedSlot and AtomicSlot

`slot` is `_params` (or `_result`), `owner` the holder of `_lock`. `pc` follows
a thread through `with self._lock`, the body and the release, which `with`
performs on return and on raise. `get` reads the attribute twice, so it has
two steps (`GetPassesCheck`, `GetRead`). The refinement mapping takes a thread
from "called" to "returned" at the step that decides its answer; `slot`, `op`
and `answer` are mapped to themselves.

### WebApp

`pc[w]` is the next step of the handler that pool thread `w` runs, `params[w]`
and `result[w]` its locals, `reply[w]` its response. Connection parameters are
model values told apart by identity. A result is a record: the connection its
plan was captured on (`source`), the database name its summary carries
(`label`, taken from the handler's own snapshot of the parameters), and the
query. An exception nobody catches becomes the catch-all handler's 500.
Requests FastAPI rejects before a handler runs do not reach the model.

`Restart` is the end of the process and its next start: both stores are empty,
and the client of an open request sees the connection break (`NoStatus`).
`Untimed` are the parameters whose `timeout_s` rounds to 0, which pyodbc takes
for no timeout: a handler that waits for SQL Server with them is `Endless`.

`WebAppProps` holds the properties, and three history variables: `tested`, the
parameters a connection was opened with; `straddles`, the queries that were
executing when the session was cleared, by a DELETE or a restart;
`cacheStraddles`, whether the cached result comes from such a query. `Record`
adds to them in every step (`RecordedSpec`); no action of `WebApp` knows of
them.

### WebClient

`page` holds what is on the screen and the script's variables; `wait[w]` names
the handler of the page that awaits the answer of thread `w`, `outbox` the
requests no thread has taken yet. A handler of the page is its part up to
`fetch` (`SubmitWizard`, `ClickDisconnect`, `ClickRun`, `ClickPropose`,
`LoadViews`) and its part after it (`OnConnect`, ...). The guards of the first
are the `disabled` flags and the section a button is in; the overlay stops the
mouse but not the keyboard, so it guards nothing. A proposal remembers the
container it was asked from: emptying or replacing the report detaches it
(`Detach`). `Reload` forgets the page's variables while its requests go on.
With `ServerStops` the server may restart under the open page, and a request
may find nobody listening (`Refuse`); the fetch then rejects, and each handler
takes that as it takes any failure.

### Extraction, Narration, FixProposal, OllamaClient

In `Extraction` a step is one iteration, the reply is any list, and a text is
accepted, rejected with `QueryValidationError`, or makes the validator raise
something else. `Narration` and `FixProposal` follow one call from the exchange
(`OllamaClient`) to what the page shows. A text is named by the position of the
item that carries it, 0 being none, which is what "this text was written for
this finding" needs. `prompt` is the list the model was told, so that an index
of the reply can be traced to the finding it was told for. A fix card keeps the
index by which its button finds the text in `currentFixTexts`, and `texts` is
that list: `renderReport` starts it anew and every proposal appends to it.
Propose Fix comes back after each answer, so `FixProposal` goes on from
`"shown"` and `"failed"` to another `round`, up to `MaxRounds`: each has its
own exchange, lists and note, while the texts and cards of the report and of
earlier rounds stay. The server keeps nothing of a proposal, and the same fix
may be given again; a card remembers its round.
Fallback texts, overview wording and the rules the prompts state in prose are
left out.

### Capture

One action per driver call or row; each may fail except `close()`, whose errors
pyodbc ignores. `connect` may also fail unwrapped before it has a connection:
rounding a timeout that is infinite or no number raises. A result set is one
of: no columns, no row, an ordinary row, one string that begins like a plan,
the plan. A text is a single SELECT, something sqlglot rejects with
`ParseError` (or parses to something else), or something its tokenizer raises
`TokenError` for. `TokenError` is not a `ParseError`, so nothing in this
package catches it.

`LiveCall` forgets the driver: a call is refused with nothing sent, or opens
one connection and ends with it closed and an error, "no plan" or the whole
answer; only `connect` itself may lose the connection it has just opened. In
the refinement mapping the result is that of the code once the call has ended
(`ResultSeen`): what the scan has found before `close()` nobody has seen yet.

### Analysis, PlanTree, Tier0

`Analysis` puts a caller around one call of `Capture`: the command line, or the
handler of `POST /api/query`, `GET /api/views` or `POST /api/connection`.
`ending` is the exit code or status the caller ends with, or "traceback" for an
exception that leaves `run`. `Arguments` and `Password` come before the call,
`Report` after the summary. After a capture the answer is any of `Documents`,
a document without a plan, or, if it is a row that only looked like a plan, no
XML at all. lxml's `XMLSyntaxError` is no `ValueError`: the command line then
ends with a traceback.

A document of `PlanTree` is the XML below the root `RelOp`, each element with a
tag and a parent. What lxml's `find(".//...")` searches is `Inside`, so which
elements an operator takes for its own follows from the tree, as in the code.
Attributes are those a rule, the ranking or a fallback of the adapter reads,
and the tables of `operator_map.py` are functions. `_map_access_type` looks for
"Seek" and then for "Scan" anywhere in an operator's name; `SeekNames` and
`ScanNames`, two constants, are the names in which they are found, whatever
they are, and `NamesSayWhatTheyDo` says of them what is true of the names the
tables use. Recursion over the tree is written as recursive functions and a
comprehension with a condition as `Kept`, so that theorems can be stated about
these modules.

`IsShowplan` says which documents there are: a tree in document order below a
root `RelOp`; NodeIds that differ, or none at all; counts, costs and durations
that are numbers or missing (`OperatorAttributes`); a Lookup mark on no scan;
and of each index that is asked for every usage once (`IsIndexAdvice`).
`DocumentsAreShowplans` assumes it of `Documents`; TLC evaluates it on every
run of `MCAnalysis`. The operator tree is kept as the sequence `_walk` yields,
which is how both of its readers use it; costs are compared as costs, since
their shares have one denominator; the skew ratio is compared by
multiplication. The ids the ranking ends with are strings in the code, and
compare as such: `IdBefore` puts 10 before 2, and `IdsAreStrings` has TLC
compare it with a list of numerals in Python's order. `Ranked` gives each
operator the place that the number of those before it says;
`NotableAreTheCostliest` compares cost, duration and id one by one.

`Tier0` has one operator per rule, in the order `evaluate` runs them. A
finding keeps its rule, severity, operator, object and, as its fix, the columns
of the index it asks for; the wording is left out.

## Runs

| Run | Instance | Shows |
|---|---|---|
| `locked_slot` | 3 threads, 2 values | mutual exclusion, `get` never returns None, the lock is released after a return and after a raise, and the code implements `AtomicSlot` |
| `web_app` | 2 overlapping requests, 2 connections, one without a timeout, 1 query, restarts at any step | `OnlyTestedParamsInUse`, `ReportNamesItsDatabase`, `StaleResultOnlyFromStraddlingQuery`, `EveryRequestAnswered`, and no deadlock |
| `model_calls` | a narration, or up to 2 proposals for one report; up to 2 findings, up to 2 items a reply, every exchange; the loop alone over every list of up to 3 items with indexes from -1 to 2 | the loop keeps the first acceptable text (`FirstAcceptableWins`, a reference definition); the report keeps Tier 0's findings, order and fixes, on the page and on the terminal, each with a text written for it; a degraded narration has a reason; what a button copies is validated and its card's, also when the cards of a second answer come behind those of the first; nothing usable is lost; the note is that of the last answer |
| `analysis` | every batch shape, catalogs of up to 2 views, failure at any call, from either caller; plan trees of up to 5 elements, joins with every mix of attributes, plans with and without a memory grant, totals and missing indexes | nothing opens for a bad query, connections are closed, the plan is found, a listing is complete, `Capture` implements `LiveCall`; a failure is blamed on what failed; every operator is seen once, joins are joins, large scans, spills and missing indexes are reported under the right operator, table and columns, worst first; the costliest operators are summarised; every run ends |
| `web_client` | one page, 2 pool threads, 2 connections, 2 queries, 2 DELETEs at once, a server that restarts | fixes are labelled with the findings they answer; the page never names a connection while the server uses another |
| `web_client_liveness` | one page, 2 pool threads, 1 connection, a server that restarts | the overlay comes down, the connect button comes back |

Six runs end in a violation, on purpose: each checks what a comment, a test
or the project's README says, and the code does not do it.

| Run | Trace |
|---|---|
| `web_app_stale_result` | A query is executing; DELETE clears the session and the result; the query stores its result. `propose-fix` now serves a result of a disconnected database, which the comment in `delete_connection` rules out. |
| `web_app_status_race` | `GET /api/connection` sees a session; a DELETE clears it; `store.get()` raises `NotConnectedError` and the answer is 500. |
| `extraction_crash` | One proposed text with an unterminated string makes the validator raise `TokenError`; the loop is left and every other fix is lost, where the comment says such a text is dropped. |
| `web_client_sidebar` | The page loads with a session and lists its views; the user disconnects and connects elsewhere; the first listing arrives last and its views join the second's. |
| `web_client_reload` | A query is executing when the page is loaded again. The new page runs its own query and shows its report; then the old one finishes unseen and replaces the cached result. The next proposal is about that result and is labelled with the findings of the page's report. |
| `plan_scope` | A join holds its input in its detail element, as SQL Server writes it. Searching that whole element for an object finds the input's, and the join is said to read that table. |

Other disagreements met while modelling, which the models take as steps and no
run is spent on:

* `validate_select_only` lets the same `TokenError` through, so
  `POST /api/query` answers 500 for an unreadable text where
  `query_safety.py:6` says "any parse ambiguity or error is a rejection"; one
  unreadable view definition fails the whole listing (`catalog.py:41`).
* A driver error from `cursor()` or from setting `timeout` is not wrapped
  (`connection.py:4` says every one is).
* A reply cut short (`IncompleteRead`), a malformed status line and a body
  that does not decode leave `generate_json` unwrapped, so `get_narration`
  raises where `engine.py:12` says it degrades in place.
* A reply whose only usable parts are fixes is announced as "Tier 0 findings
  only", above those fixes (`app.js:228`).
* A query that selects stored plans gets its own first row back as its plan.
* A row that only begins like a plan makes `etree.fromstring` raise
  `XMLSyntaxError`, which neither caller catches: the command line ends with a
  traceback instead of "failed to parse execution plan XML" (`cli.py:87`).
* `MemoryFractions` comes before an operator's detail element and is not in
  `_NON_WRAPPER_TAGS`, so a sort or hash join that has it is read as having no
  object, no predicates and no sort (`plan_xml_to_ir.py:48`). So is a scan of a
  partitioned table, where `RunTimePartitionSummary` comes first.
* Actual rows are summed over an operator's executions, the estimate is for
  one: in the repository's fixture `missing_index_suggestion.xml` the inner
  side of the loop is called skewed for that reason alone.
* An operator expected to return nothing has no skew
  ratio however many rows it returned (`plan_xml_to_ir.py:326`), a Constant
  Scan counts as reading a table (`:216`; so in `ScanNames`, and its finding has
  no table), and warnings of the statement, or
  written as attributes, are not seen (`:256`).
* `isinstance(True, int)` holds in Python, so a reply that gives `true` as
  `finding_index` is read as naming finding 1 (`engine.py:130`).

### Bounds, and why they are enough

* *Threads and requests.* The safety properties of `WebApp` are proved for any
  number; TLC's two cover every pair of handlers at every step. Two threads
  under `WebClient` let a slow answer be overtaken by any sequence of others.
* *Connections and queries.* A wrong one must be told from a right one: two.
  The liveness run of the page needs none told apart, and has one. One of the
  two connections of `web_app` has no timeout, so that a handler that never
  ends runs next to one that must not wait for it.
* *Findings and items.* The interesting cases are a duplicate, a reordering, a
  rejected item before an acceptable one, an index on either edge of the range:
  two findings and two or three items have them all, and `FirstAcceptableWins`
  is proved for every list. `MaxListItems` (3) bounds the list of the loop
  alone, `MaxFindings` and `MaxItems` (2) the two calls. `MaxRounds` (2) bounds
  the proposals for one report: the second answer is the first that has the
  cards of another before it, and the theorems are for any number.
* *Result sets.* The batch produces at most the set of `SET STATISTICS XML ON`,
  the query's own, the plan, the set of `OFF`; every choice of them is tried.
* *MaxElements* (5) gives a nested input two levels deep, an input next to and
  inside the detail element, memory fractions or a partition summary in front
  of it, and an object before, after and inside an input. Rules depend on
  attributes and not on the shape, so the mixes of attributes are tried on one
  join of two inputs: row counts on both sides of each threshold, on no, one
  and two threads, zero and missing estimates, ties and gaps in cost and
  duration; every logical operator of the hash match table and one outside it;
  missing indexes in groups of one and of two, with every mix of equality,
  inequality and included columns, and an index without a key. `MCSeekNames` and
  `MCScanNames` add columnstore, remote and constant scans to the names in the
  adapter's tables.
* *MaxNotable* is 2 where the code has 8: less than the operators of a join.
  Their ids have one digit; that longer ones compare as strings is what
  `IdsAreStrings` checks.
* *MaxDisconnects* bounds the DELETEs pending at once, because that button is
  never disabled. Two are what a double click makes.
* *ReloadWhenBusy* is TRUE in `web_client_reload` only: with it the labels may
  be wrong, which that run shows and which would hide everything else.
* *ServerStops* is TRUE in the passing runs of the page, any number of times.

Workers, connections and queries are permuted (SYMMETRY) in safety runs only.

### Fairness

* `LockedSlot`: a thread inside the block keeps running. Nothing is assumed
  about who gets a contended lock, and no property needs it.
* `WebApp`: a handler that has started keeps taking steps, except one that
  waits for SQL Server on a connection without a timeout (`Timed`). Every other
  call that leaves the process has a timeout, after which it raises and the
  handler goes on. An empty timeout field of the page becomes 0, which pyodbc
  takes for "no timeout": `EveryRequestAnswered` says that such a handler may
  wait, and that the handler next to it ends all the same. Nothing is assumed
  of `Restart`.
* `WebClient`: handlers run and their answers are delivered. A request waits
  for a pool thread while others come and go; strong fairness on taking the
  wizard's and the workspace's requests stands for a pool that is much larger
  than the few workers of a model. The user may do nothing at all.
* `Analysis`: the code runs on and every driver call returns or raises, which
  takes a timeout that is not 0.
* `ModelCalls` assumes none: its properties are safety properties.
* `WebClient` is run with timeouts that are not 0 (`Untimed = {}`): its overlay
  stays up as long as the query it waits for.

## Proofs

| Theorem | Statement |
|---|---|
| `LockedSlotProofs!TypeCorrect`, `StoreMutualExclusion`, `GetIsSafe` | `Spec => []TypeOK`, `[]MutualExclusion`, `[]GetNeverReturnsNone` |
| `LockedSlotProofs!StoreIsAtomic` | `Spec => ImplementsAtomicSlot`: the lock-guarded code implements the atomic slot |
| `WebAppProofs!TypeCorrect` | `RecordedSpec => []TypeOK` |
| `WebAppProofs!TestedParams`, `ReportsNameTheirDatabase`, `StaleOnlyByStraddling` | the three safety properties of the `web_app` run, for any set of threads, connections and queries |
| `WebClientProofs!TypeCorrect`, `FixesStayWithTheirReport` | `Spec => []TypeOK`, `[]FixesBelongToReport`, for every interleaving of the page with the server, reloads and restarts |
| `WebClientProofs!FixesAreLabelledRight`, `PageAndServerAgree` | `~ReloadWhenBusy => (Spec => []FixesMatchTheirLabels)`, and the same of `PageNamesNoOtherSession` |
| `ExtractionProofs!TypeCorrect`, `FirstWins` | `[]TypeOK`, `[]FirstAcceptableWins`, for every reply and any number of findings |
| `NarrationProofs!ReportIsTier0s`, `DegradedSaysWhy`, `LoopFirstWins` | what the `model_calls` run checks of a narration and of the loop, for any bounds on findings and items |
| `FixProposalProofs!CallsAreTyped`, `CopiedFixesValidated`, `UsableFixesAreShown`, `NoteIsTheTruth` | the same of fix proposals, to the Copy buttons, for any number of proposals for a report |
| `CaptureProofs!CallsKeepTheirPromise` | `Spec => ImplementsLiveCall`: the calls, row by row over a failing driver, implement what their callers rely on |
| `CaptureProofs!TypeCorrect`, `BadQueriesOpenNothing`, `ConnectionsAreClosed`, `PlansAreFound`, `ListingsAreComplete` | `[]TypeOK` and the four safety properties of a live call, for any lists of result sets and any catalogs |
| `AnalysisProofs!RunsMakeOneCall`, `RunsKeepThePromise` | `RunSpec => Spec` (that of `Capture`), and with it the theorems above of the call inside a run |
| `AnalysisProofs!RunTypeCorrect`, `BlameIsFair` | `RunSpec => []RunTypeOK`, `[]BlameIsRight` |
| `AnalysisProofs!EveryOperatorSeenOnce`, `OnlyJoinsJoin` | `RunSpec => []EveryOperatorOnce`, `[]JoinsAreJoins`, for plans of any shape and size |
| `AnalysisProofs!NotableAreRanked` | `RunSpec => []NotableAreTheCostliest`, for the same plans and any number of places |
| `AnalysisProofs!LargeScansAreReported` | `RunSpec => []LargeScansNameTheirTable`, for the same plans and for whatever names have "Scan" in them |
| `AnalysisProofs!FindingsAreSorted`, `SpillsAreReported`, `EveryIndexHasItsScript` | `RunSpec => []WorstFirst`, `[]SpillsComeFirst`, `[]IndexScriptsCoverThePlan`, for the same plans |

Assumptions: the constants' named ASSUMEs (None is no value, no thread is the
free-lock mark, replies are lists of items, documents are showplans, the names
of operators say what they do), which TLC evaluates on every run. Two theorems
about the page are stated for `~ReloadWhenBusy`: with reloads under pending
requests they are false. `web_client_reload` shows it for the first; for the
second, the connect of a page that is gone is stored after that of the page
that replaced it. `FixesStayWithTheirReport` needs no such premise.

### The inductive invariants

* `LockInv` adds to `TypeOK` and `MutualExclusion` that the slot is not empty
  while a `get` is between its two reads, and what the recorded answer may be
  at each program point; mutual exclusion is what keeps the first of these when
  another thread steps.
* `IndInv` of `WebAppProofs` adds, per thread, what its locals hold at each
  `pc` (`LocalsOK`, `LocalsSafe`): parameters past a snapshot are tested ones,
  a result's source is the snapshot, a label equals the source once it is set.
  For `StaleResultOnlyFromStraddlingQuery` it adds that a query in flight that
  is not marked as straddling still has a session (`UnstraddledHasSession`):
  the property alone is not inductive, because the store happens at a step that
  does not look at the session.
* `IndInv` of `WebClientProofs` types page, requests and server, says that a
  handler of the page waits for a thread that runs its own endpoint
  (`RightEndpoint`), what a thread's locals and replies hold at each step
  (`LocalsOK`, `RepliesOK`), and that labels come from the report on the page,
  without which no proposal is pending (`ReportOK`).
* `QuietInv` is what holds in addition while pages are not reloaded under
  pending requests. By `Awaited` every request the server is at was sent by the
  page that is open. `CacheIsTheReport` adds that at most one query is pending,
  and what the cached result is while it or a proposal is on its way;
  `PillIsTheSession` that at most one connect is, and what its answer and the
  session have to do with each other. The properties are about what the page
  shows, and only become inductive with what is still under way.
* `IndInv` of `ExtractionProofs` is `TypeOK` with `FirstAcceptableWins`, which
  is stated over the items already passed, and so is its own strengthening.
* `NarrationInv` says what the prompt, the `Narration` and the response hold at
  each `pc`: explained findings come from items that carry them, the response
  from the `Narration`, and the lists on page and terminal are those of Tier 0
  as far as they go.
* `FixInv` follows the three loops of a proposal: the dictionaries are the kept
  texts (`FixExtracted`), the list has each proposed finding the loop has come
  to, once (`FixesAreKept`), each card stands where its text does
  (`CardsPointToTexts`), and the cards are those of what the page's loop has
  passed, once each (`CardsAreOfFixes`, `CardsAreOnce`, `FixesHaveCards`). The
  properties are about the end of these loops. `CardsAreOfFixes` and
  `FixesHaveCards` are about the cards of the current round; of those of every
  round it is kept that their texts fit them (`CardsFit`), since texts and
  cards are only appended.
* `IInv` of `CaptureProofs` adds who holds the connection at each `pc`
  (`PhaseOK`), that nothing the scan has passed is the plan (`ScannedOK`), and
  that the listing so far is that of the rows the cursor has passed
  (`ListedOK`): the two statements about the end of a call follow from these
  about its middle.
* `RunInv` of `AnalysisProofs` says how the stage of a run and the outcome of
  its call go together (`ControlOK`), and that plan, findings and summary are
  what the functions make of the document (`ParsedOK`, `AnalysedOK`). What is
  left after it is about the functions alone.

### The functions of the analysis

`StepImplements` of `CaptureProofs` takes each action of `Capture` to a step of
`LiveCall` or to a stutter: `Validate`, `Connect`, `SetTimeout` and `Close` may
change connection or result, the others leave both alone. For `Close` it needs
the invariant: what `PlanIsFound` and `ListingIsComplete` say of the outcome is
what `Succeed` demands of the answer, with `AnswerOK` for what the call
has found so far and for what its kind of call never sets.

The adapter's functions recur over the tree, over lists and over numbers.
Recursive functions are shown to exist, and properties of their values are
shown, by taking a least counterexample: a set of numbers that is not all of
`Nat` leaves a least one out (`InductiveSet`), and an iteration has a value at
every number (`Iteration`). On this rest the facts about `Kept` and
`FlattenSeq`.

`Span(doc, e)` is the part of the document below element `e`. In document order
it is an interval (`SpanIsInterval`), the spans of an element's children follow
each other (`ChildSpans`), and so do those of the operators nearest below it
(`NearestSpans`). Two lists of the same numbers, both increasing, are equal
(`ListsAreUnique`); so the walk, whose list is increasing by these facts and
has every operator (`WalkListsTheOperators`), is the document order.

From there on a plan is what `IsPlan` says: ids that differ and warnings in the
order of their operators (`ParsedIsPlan`). Each rule's findings are a `Segment`
in the order of the operators it names, the six of them one after the other are
`Ordered` (`UnsortedIsOrdered`), and the sort is a permutation that puts the
worst first and is otherwise stable (`SortFacts`).

*The ranking.* `Before` is a strict total order on operators whose ids differ
(`IdOrder`, `BeforeOrder`): comparing numerals as strings is comparing them
after both are scaled to the same number of digits (`CrossMultiplied`). Of two
operators the one that comes first has fewer before it, so no two have the same
place, every place is taken, and of two places the operator at the first comes
before the one at the second (`RankedFacts`). Before the operator at place k
come those at the k - 1 places before it and no others, which is what the
property says of each operator the summary keeps (`NotableFacts`), in the
property's own comparison of cost, duration and id (`PrecedesIsBefore`).

*The rows of a scan.* The model adds them up along the list of threads, the
property over a set of positions. Both are folds of the community modules; what
is used of either is that it takes one number after the other. A function of
sets that does so in any fixed order is the sum in every order (`AddingUp`,
`SumIsUnique`), each fold is that function (`SumOfIs`), and so they agree
(`SumsAgree`): a scan is large for the rule exactly if it is for the property
(`LargeScanIs`). Its finding is one of a block that no other rule adds to
(`PlaceOfLargeScans`), and the sort moves it without losing it, so findings and
large scans are as many (`LargeScansAreFound`).

*The table of a scan.* What `find(".//Object")` searches is the span of an
element without the element (`InsideFacts`). What is inside the element taken
for the detail is inside the operator (`WrapperIsInside`), so a scan without an
operator inside it is given one of its own objects or none. A scan that holds
nothing but its detail element has all its objects in there (`OnlyChild`,
`OneInsideTheOther`), so one is found (`ScanObject`).

### Left to TLC

* Every liveness property: TLAPS does not reason about fairness and ENABLED.
* `BadTextIsOnlyDropped`, `ObjectsAreTheirOwn`, `SidebarIsOfTheConnection` and
  the other properties of the six violation runs, which are false.

## Not modelled

* Plans in which some operators have a NodeId and some have none: SQL Server
  writes one on every operator.
* Warnings of the statement or written as attributes, which the code does not
  read; the plan's metadata, which is copied from the caller; the cut of long
  statement texts.
* The rules the prompts state in prose, the schemas' field types, the launcher,
  markup and style: formatting and declarations without behaviour of their own.
  The 422 with which FastAPI rejects a body before a handler runs.
* The connection string, and the reminder the command line prints on standard
  error.
* sqlglot, pyodbc, lxml, Ollama, Starlette and the browser, which the models
  describe by what the code sees of them.
* The text of messages, the wizard's countdown, and the label of a Copy button
  (what it copies is modelled).

## Plan

Done, in this order: the stores and their refinement; the API over them with
its proofs; the correlation loop with its proof; narration and fix proposals to
the page; live capture; the page over the API; the command line and the
handlers over capture, with the plan tree, the rules and the summary; the
proofs about live capture; restarts, refused requests, endless calls and
reloads; prompts, Copy buttons and the rest of the adapter; the promise of a
live call, with the proof that the code implements it.

Since then the proofs about the page, narration and fix proposals, and about the
analysis of plans of any shape: the tree walk, the rules and their order, the
ranking of the costliest operators and the rows of large scans. Every invariant
a passing run checks is now also a theorem.

Not done: that a step of `WebApp` which stands for a whole call is a run of
`LiveCall`, step by step. `LiveCall` is what that step was written from, and
`CallsKeepTheirPromise` is what the code does; the two are joined in words only.
