------------------------- MODULE StatusNormalization -------------------------
(***************************************************************************)
(* How PySIBS turns the text SIBS gives for a status into a PaymentStatus  *)
(* (pysibs/enums.py).  Texts that differ in case or in blanks around them  *)
(* are one value, save the empty and the blank text.                       *)
(***************************************************************************)

PaymentStatus ==
  { "CREATED", "PENDING", "AUTHORIZED", "CAPTURED", "ACTION_REQUIRED", "DECLINED", "CANCELED",
    "REFUNDED", "PARTIALLY_REFUNDED", "EXPIRED", "ERROR", "UNKNOWN" }

\* _STATUS_MAP, by the status the texts are mapped to.
StatusMap ==
  [ CREATED            |-> {"created", "new"},
    PENDING            |-> {"pending", "pending_validation", "processing", "in_progress"},
    AUTHORIZED         |-> {"authorized", "auth", "pre_authorized"},
    ACTION_REQUIRED    |-> {"partial", "action_required"},
    CAPTURED           |-> {"captured", "purchased", "paid", "success", "successful", "settled"},
    DECLINED           |-> {"declined", "denied", "rejected", "failed", "failure"},
    CANCELED           |-> {"canceled", "cancelled", "voided", "void"},
    REFUNDED           |-> {"refunded"},
    PARTIALLY_REFUNDED |-> {"partially_refunded", "partial_refund"},
    EXPIRED            |-> {"expired", "timeout"},
    ERROR              |-> {"error"} ]

StatusCodeMap == [CAPTURED |-> {"000"}]

\* Plausible bugs: expiry left out of the table; an unknown text that raises.
NormalizeWithoutExpiry(raw) ==
  IF \E s \in DOMAIN StatusMap \ {"EXPIRED"} : raw \in StatusMap[s]
    THEN CHOOSE s \in DOMAIN StatusMap : raw \in StatusMap[s]
    ELSE "UNKNOWN"

NormalizeRaising(raw) ==
  IF \E s \in DOMAIN StatusMap : raw \in StatusMap[s]
    THEN CHOOSE s \in DOMAIN StatusMap : raw \in StatusMap[s]
    ELSE "ValueError"

\* Never raises: what is not known is UNKNOWN, as are None, "" and blanks.
NormalizePaymentStatus(raw) ==
  IF \E s \in DOMAIN StatusMap : raw \in StatusMap[s]
    THEN CHOOSE s \in DOMAIN StatusMap : raw \in StatusMap[s]
  ELSE IF raw \in StatusCodeMap.CAPTURED THEN "CAPTURED"
  ELSE "UNKNOWN"
=============================================================================
