\* Two overlapping requests, two connections; no symmetry, because one of
\* the properties is temporal.
SPECIFICATION RecordedSpec
CONSTANTS
  Workers = {w1, w2}
  Params = {p1, p2}
  Queries = {q1}
  Untimed = {p2}
  None = None
INVARIANTS
  TypeOK
  OnlyTestedParamsInUse
  ReportNamesItsDatabase
  StaleResultOnlyFromStraddlingQuery
PROPERTIES
  EveryRequestAnswered
