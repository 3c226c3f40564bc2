\* Every answer and header against three configurations; a call ends, so the
\* system really may stop.
SPECIFICATION Spec
CONSTANTS
  Configs <- SomeConfigs
  Methods = {"GET", "POST"}
  Statuses = {200, 400, 429, 502, 503}
  Headers <- SomeHeaders
  Timeout = 2
  Waits = 2
  FloatExponent = 3
INVARIANTS TypeOK EndsInTime NoOverflow BadHeaderIsHarmless
PROPERTIES NotEarly
CHECK_DEADLOCK FALSE
