\* The ids an LRU set would hold, one call at a time.  The model stops once
\* MaxRecorded ids were recorded.
SPECIFICATION UseSpec
CONSTANTS
  Ids = {a, b, c}
  NoId = NoId
  MaxLen = 2
  Workers = {w}
  Modes = {TRUE}
  MaxRecorded = 4
INVARIANTS HoldsRecentlyUsed
CHECK_DEADLOCK FALSE
