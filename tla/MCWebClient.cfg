\* One page, two pool threads, two DELETEs at once; the page is reloaded
\* only when it is quiet.
SPECIFICATION Spec
CONSTANTS
  Workers = {w1, w2}
  Params = {p1, p2}
  Queries = {q1, q2}
  Untimed = {}
  None = None
  Narrate = {TRUE}
  MaxDisconnects = 2
  ReloadWhenBusy = FALSE
  ServerStops = TRUE
SYMMETRY Symmetry
INVARIANTS
  TypeOK
  FixesMatchTheirLabels
  FixesBelongToReport
  PageNamesNoOtherSession
CHECK_DEADLOCK FALSE
