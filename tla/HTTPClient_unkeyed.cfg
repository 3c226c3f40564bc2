\* Two calls for one order, two for another, no idempotency key but one that
\* is invalid: what the retry policy alone guarantees when the gateway keeps its
\* side of the bargain.  Tasks may be cancelled, and a second retry needs a
\* Retry-After, 2 ** 1 being too large.  The calls end, so the system may stop.
SPECIFICATION Spec
CONSTANTS
  p1 = p1
  p2 = p2
  p3 = p3
  p4 = p4
  g1 = g1
  o1 = o1
  o2 = o2
  k1 = k1
  NoKey = NoKey
  InvalidKey = InvalidKey
  Posts = {p1, p2, p3, p4}
  Gets = {}
  Orders = {o1, o2}
  OrderOf <- TwoOrders
  Keys = {k1}
  KeyOf <- NoKeys
  IdempotencyHeader = FALSE
  GatewayHonoursKeys = FALSE
  RetryConfigs <- UnkeyedConfigs
  Statuses = {200, 401, 403, 408, 429, 500, 503}
  Unprocessed = {401, 403, 429, 503}
  FloatExponent = 1
  IsAsync = TRUE
INVARIANTS TypeOK IInv WithinBudget ChargedOnce RefusalIsFinal OkMeansCharged
PROPERTIES NoOverlap LedgerSpec
CHECK_DEADLOCK FALSE
