\* A query that outlives its page.
SPECIFICATION Spec
CONSTANTS
  Workers = {w1, w2}
  Params = {p1}
  Queries = {q1, q2}
  Untimed = {}
  None = None
  Narrate = {TRUE}
  MaxDisconnects = 1
  ReloadWhenBusy = TRUE
  ServerStops = FALSE
SYMMETRY Symmetry
INVARIANTS
  FixesMatchTheirLabels
CHECK_DEADLOCK FALSE
