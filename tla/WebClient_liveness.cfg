\* The waits of the page end: one page, two pool threads, one connection.
\* No symmetry: the properties are temporal.
SPECIFICATION Spec
CONSTANTS
  Workers = {w1, w2}
  Params = {p1}
  Queries = {q1}
  Untimed = {}
  None = None
  Narrate = {TRUE}
  MaxDisconnects = 1
  ReloadWhenBusy = FALSE
  ServerStops = TRUE
PROPERTIES
  OverlayGoesAway
  ConnectButtonComesBack
CHECK_DEADLOCK FALSE
