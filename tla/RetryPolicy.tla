----------------------------- MODULE RetryPolicy -----------------------------
(***************************************************************************)
(* The retry decisions of pysibs/_retry.py, as operators on a record cfg   *)
(* that holds the fields of a RetryConfig the decisions read.  How long a  *)
(* call sleeps before it tries again is not decided here.                  *)
(***************************************************************************)
EXTENDS Integers

\* The statuses the code holds to be safe to retry whatever the method,
\* "because the request was not processed".
ALWAYS_SAFE_STATUSES == {429, 503}

\* The record a RetryConfig is, for the decisions about whether to retry.
RetryConfig == [ max_retries        : Nat,
                 retry_statuses     : SUBSET (100..599),
                 idempotent_methods : SUBSET {"GET", "HEAD", "OPTIONS", "POST"} ]

DefaultRetryConfig ==
  [ max_retries        |-> 2,
    retry_statuses     |-> {429, 502, 503, 504},
    idempotent_methods |-> {"GET", "HEAD", "OPTIONS"} ]

\* An int given for "retries" keeps every other field at its default.
CoerceRetries(n) == [DefaultRetryConfig EXCEPT !.max_retries = n]

IsIdempotent(cfg, method) == method \in cfg.idempotent_methods

(***************************************************************************)
(* Plausible bugs: the budget checked after the status (off by one), the   *)
(* transient statuses retried whatever the method, timeouts retried        *)
(* whatever the method.                                                    *)
(***************************************************************************)
ShouldRetryStatusAnyMethod(cfg, method, status, attempt) ==
  /\ attempt < cfg.max_retries
  /\ status \in ALWAYS_SAFE_STATUSES \cup cfg.retry_statuses

ShouldRetryStatusUnbounded(cfg, method, status, attempt) ==
  \/ status \in ALWAYS_SAFE_STATUSES
  \/ status \in cfg.retry_statuses /\ IsIdempotent(cfg, method)

ShouldRetryExceptionAnyMethod(cfg, method, attempt) ==
  attempt < cfg.max_retries

ShouldRetryStatus(cfg, method, status, attempt) ==
  /\ attempt < cfg.max_retries
  /\ \/ status \in ALWAYS_SAFE_STATUSES
     \/ status \in cfg.retry_statuses /\ IsIdempotent(cfg, method)

\* Timeouts and connection errors: the outcome is unknown.
ShouldRetryException(cfg, method, attempt) ==
  attempt < cfg.max_retries /\ IsIdempotent(cfg, method)
=============================================================================
