------------------------------- MODULE MCPacing -------------------------------
(***************************************************************************)
(* Retry configurations and headers for Pacing.                            *)
(***************************************************************************)
EXTENDS Pacing

\* The default, with half a second for a tick and the cap lowered; no jitter,
\* and a POST that is idempotent; one retry more than a float has exponents,
\* with Retry-After ignored.
Paced(n, repeatable, jitter, respect) ==
  [ max_retries        |-> n,
    retry_statuses     |-> DefaultRetryConfig.retry_statuses,
    idempotent_methods |-> repeatable,
    backoff_factor     |-> 1,
    max_backoff        |-> 3,
    jitter             |-> jitter,
    respect_retry_after |-> respect ]

SomeConfigs ==
  { Paced(2, {"GET"}, TRUE, TRUE),
    Paced(3, {"GET", "POST"}, FALSE, TRUE),
    Paced(4, {"GET"}, TRUE, FALSE) }

SomeHeaders ==
  { [form |-> "absent", value |-> 0], [form |-> "superscript", value |-> 0],
    [form |-> "enormous", value |-> 0],
    [form |-> "seconds", value |-> 0], [form |-> "seconds", value |-> 2],
    [form |-> "seconds", value |-> 9],
    [form |-> "date", value |-> 5], [form |-> "date", value |-> 12],
    [form |-> "garbage", value |-> 1] }
===============================================================================
