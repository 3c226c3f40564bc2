\* Two calls for one order under one key, at the same time or after an unknown
\* outcome, and a GET.  The gateway honours keys but may answer 503 after the
\* fact; POST may be declared idempotent; the client may be closed and tasks
\* cancelled.  The calls end, so the system really may stop.
SPECIFICATION FairSpec
CONSTANTS
  p1 = p1
  p2 = p2
  p3 = p3
  p4 = p4
  g1 = g1
  o1 = o1
  o2 = o2
  k1 = k1
  NoKey = NoKey
  InvalidKey = InvalidKey
  Posts = {p1, p2}
  Gets = {g1}
  Orders = {o1}
  OrderOf <- SameOrder
  Keys = {k1}
  KeyOf <- OneKey
  IdempotencyHeader = TRUE
  GatewayHonoursKeys = TRUE
  RetryConfigs <- KeyedConfigs
  Statuses = {200, 503}
  Unprocessed = {}
  FloatExponent = 1
  IsAsync = TRUE
INVARIANTS KeyedOnce OkMeansCharged
PROPERTIES Terminates
CHECK_DEADLOCK FALSE
