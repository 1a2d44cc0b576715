\* The sidebar after a connect that overtook a slow listing.
SPECIFICATION Spec
CONSTANTS
  Workers = {w1, w2}
  Params = {p1, p2}
  Queries = {q1}
  Untimed = {}
  None = None
  Narrate = {TRUE}
  MaxDisconnects = 1
  ReloadWhenBusy = FALSE
  ServerStops = FALSE
SYMMETRY Symmetry
INVARIANTS
  SidebarIsOfTheConnection
CHECK_DEADLOCK FALSE
