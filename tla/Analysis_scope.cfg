\* As MCAnalysis, for what the adapter says of an operator's own object.
SPECIFICATION RunSpec
CONSTANTS
  None = None
  MaxViews = 1
  MaxElements = 5
  MaxNotable = 2
  SeekNames <- MCSeekNames
  ScanNames <- MCScanNames
  ResultSets <- MCResultSets
  Catalogs <- MCCatalogs
  Documents <- MCDocuments
INVARIANTS
  ObjectsAreTheirOwn
CHECK_DEADLOCK FALSE
