SPECIFICATION FairSpec
CONSTANTS
  DrawDays = {0, 2, 5}
  Configured = {"mxnzp", "juhe"}
  HistorySize = 2
  MaxTime = 32
  MaxCrashes = 1
CHECK_DEADLOCK FALSE
INVARIANT TypeOK
PROPERTY LatestIsStored
