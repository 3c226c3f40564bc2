\* Both usages, a capacity that is enough and one that is not, every key, and
\* every way for a notification to be refused.  Nothing is sent once everything
\* is acknowledged, so the model may stop.
SPECIFICATION FairSpec
CONSTANTS
  n1 = n1
  n2 = n2
  Notifications = {n1, n2}
  Requests <- GoodAndOther
  Slots <- TwoAndOne
  Keys = {"right", "wrong", "malformed"}
  Capacities = {1, 2}
  Usages = {"record_first", "check_first"}
  MaxEffects = 3
  MaxFailures = 1
  MaxLosses = 1
  MaxRestarts = 1
INVARIANTS TypeOK AckedIsProcessed ActedOnOnce
PROPERTIES EventuallySettled
CHECK_DEADLOCK FALSE
