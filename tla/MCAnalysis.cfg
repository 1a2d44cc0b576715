\* Every batch shape, catalogs of up to two views, a failure at any call;
\* plans of up to five elements, and joins with every mix of attributes.
SPECIFICATION RunSpec
CONSTANTS
  None = None
  MaxViews = 2
  MaxElements = 5
  MaxNotable = 2
  SeekNames <- MCSeekNames
  ScanNames <- MCScanNames
  ResultSets <- MCResultSets
  Catalogs <- MCCatalogs
  Documents <- MCDocuments
INVARIANTS
  RunTypeOK
  NothingOpensForABadQuery
  HandedOverConnectionIsClosed
  PlanIsFound
  ListingIsComplete
  BlameIsRight
  EveryOperatorOnce
  LargeScansNameTheirTable
  SpillsComeFirst
  WorstFirst
  NotableAreTheCostliest
  JoinsAreJoins
  IndexScriptsCoverThePlan
PROPERTIES
  EveryRunEnds
  ImplementsLiveCall
CHECK_DEADLOCK FALSE
