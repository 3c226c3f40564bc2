\* seen() before acting: the duplicate of a delivery that failed.  The model
\* may stop once everything is acknowledged.
SPECIFICATION Spec
CONSTANTS
  n1 = n1
  n2 = n2
  Notifications = {n1, n2}
  Requests <- BothGood
  Slots <- TwoEach
  Keys = {"right"}
  Capacities = {2}
  Usages = {"record_first"}
  MaxEffects = 2
  MaxFailures = 1
  MaxLosses = 0
  MaxRestarts = 0
INVARIANTS SeenIsProcessed
CHECK_DEADLOCK FALSE
