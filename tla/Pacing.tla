------------------------------- MODULE Pacing -------------------------------
(***************************************************************************)
(* One call of request(), of either client, against the clock: how long    *)
(* its exchanges take, how long it sleeps between them, and what the       *)
(* Retry-After of an answer does to that (RetryConfig.backoff,             *)
(* retry_after_seconds).  HTTPClient has the same loop without the clock,  *)
(* with its calls, orders and effects.  Time is counted in ticks.          *)
(***************************************************************************)
EXTENDS RetryPolicy, FiniteSetsExt

CONSTANTS
  Configs,          \* the retry configurations a client may be built with
  Methods,          \* "GET", "POST"
  Statuses,         \* the statuses an exchange may be answered with
  Headers,          \* the Retry-After an answer may hold
  Timeout,          \* httpx waits that long for the connection, for the request
  Waits,            \* to be written, and for each piece of the answer: Waits times
  FloatExponent     \* 2 ** FloatExponent is too large for a float (1024)

\* The fields of a RetryConfig; RetryPolicy reads the first three only.  Its
\* times are those time.sleep() takes, which refuses more than 292 years.
PacedConfig ==
  [ max_retries : Nat, retry_statuses : SUBSET (100..599),
    idempotent_methods : SUBSET {"GET", "HEAD", "OPTIONS", "POST"},
    backoff_factor : Nat, max_backoff : Nat, jitter : BOOLEAN, respect_retry_after : BOOLEAN ]

\* A header: none, a number of seconds, digits that are no number to float(),
\* a date, one with a year or an offset no C integer holds, or anything else.
Header ==
  [ form  : {"absent", "seconds", "superscript", "date", "enormous", "garbage"},
    value : Nat ]

ASSUME ConfigsAssumption == Configs \subseteq PacedConfig
ASSUME MethodsAssumption == Methods \subseteq {"GET", "POST"}
ASSUME StatusesAssumption == Statuses \subseteq 200..599
ASSUME HeadersAssumption == Headers \subseteq Header
ASSUME TimeAssumption == Timeout \in Nat \ {0} /\ Waits \in Nat \ {0} /\ FloatExponent \in Nat

\* No more than arithmetic, which the proofs have no axioms of for powers.
ASSUME PowersAssumption == \A c \in Configs : \A n \in 0..c.max_retries : 2^n \in Nat

VARIABLES
  cfg, method,      \* never changed
  pc,               \* "exchange", "asleep" or "done"
  attempt, clock,
  since, until,     \* when the last sleep began, and when it ends
  asked,            \* history: when the last answer asked the client to be back
  status,           \* history: the last answer, 0 when there was none
  raised            \* how the call ended

vars == <<cfg, method, pc, attempt, clock, since, until, asked, status, raised>>

Init ==
  /\ cfg \in Configs /\ method \in Methods
  /\ pc = "exchange" /\ attempt = 0 /\ clock = 0
  /\ since = 0 /\ until = 0 /\ asked = 0 /\ status = 0 /\ raised = "nothing"
-----------------------------------------------------------------------------
(***************************************************************************)
(* Retry-After.  What it says, if anything, as a set; a date is a time of  *)
(* the clock.  Two forms make the function raise (HeaderErrors).           *)
(***************************************************************************)
RetryAfterSeconds(h, now) ==
  CASE h.form = "seconds" -> {h.value}
    [] h.form = "date"    -> {Max({0, h.value - now})}
    [] OTHER              -> {}

\* isdigit() takes a superscript for a digit, float() does not; and of what
\* parsedate_to_datetime raises, OverflowError is not caught.
HeaderErrors(h) ==
  CASE h.form = "superscript" -> {"ValueError"}
    [] h.form = "enormous"    -> {"OverflowError"}
    [] OTHER                  -> {}

\* Plausible bugs: no cap on the exponential; the jitter over Retry-After too.
BackoffUncapped(n, advice) ==
  LET base == cfg.backoff_factor * 2^n
  IN  IF advice # {} /\ cfg.respect_retry_after
        THEN {Min({s, cfg.max_backoff}) : s \in advice}
      ELSE IF cfg.jitter THEN 0..base ELSE {base}

BackoffJitteringAll(n, advice) ==
  LET base == Min({cfg.backoff_factor * 2^n, cfg.max_backoff})
      top  == IF advice # {} /\ cfg.respect_retry_after
                THEN Min({Max(advice), cfg.max_backoff}) ELSE base
  IN  IF cfg.jitter THEN 0..top ELSE {top}

\* The times it may sleep after attempt n.
Backoff(n, advice) ==
  LET base == Min({cfg.backoff_factor * 2^n, cfg.max_backoff})
  IN  IF advice # {} /\ cfg.respect_retry_after
        THEN {Min({s, cfg.max_backoff}) : s \in advice}
      ELSE IF cfg.jitter THEN 0..base ELSE {base}

\* Plausible bug: the exponent counted from one.
OverflowsFromOne(n, advice) ==
  ~ (advice # {} /\ cfg.respect_retry_after) /\ n + 1 >= FloatExponent

\* backoff_factor * (2**attempt) is computed before it is capped.
Overflows(n, advice) ==
  ~ (advice # {} /\ cfg.respect_retry_after) /\ n >= FloatExponent
-----------------------------------------------------------------------------
Raise(exc) ==
  /\ pc' = "done" /\ raised' = exc
  /\ UNCHANGED <<cfg, method, attempt, since, until, asked>>

\* time.sleep(backoff(attempt, retry_after)), after an exchange that ends now;
\* back is when the answer asked for the next.
Pause(advice, back) ==
  \/ Overflows(attempt, advice) /\ Raise("OverflowError")
  \/ /\ ~ Overflows(attempt, advice)
     /\ pc' = "asleep"
     /\ since' = clock'
     /\ \E s \in Backoff(attempt, advice) : until' = clock' + s
     /\ asked' = back
     /\ UNCHANGED <<cfg, method, attempt, raised>>

\* An exchange ends after at most Waits waits; one that times out has waited
\* for Timeout at least once.
Longest == Waits * Timeout
Elapses(ticks) == \E d \in ticks : clock' = clock + d

TimesOut ==
  /\ pc = "exchange"
  /\ Elapses({Timeout, Longest})
  /\ status' = 0
  /\ \/ ShouldRetryException(cfg, method, attempt) /\ Pause({}, clock')
     \/ ~ ShouldRetryException(cfg, method, attempt) /\ Raise("SIBSTimeoutError")

ConnectionFails ==
  /\ pc = "exchange"
  /\ Elapses({0, Timeout})
  /\ status' = 0
  /\ \/ ShouldRetryException(cfg, method, attempt) /\ Pause({}, clock')
     \/ ~ ShouldRetryException(cfg, method, attempt) /\ Raise("SIBSConnectionError")

\* When the header of an answer asks the client to come back.
ComeBack(h, now) ==
  CASE h.form = "seconds" -> now + h.value
    [] h.form = "date"    -> Max({now, h.value})
    [] OTHER              -> now

\* Plausible bug: the header parsed before anything is known of the status.
HeaderReadEagerly(code, h) == HeaderErrors(h)

\* The header is parsed of an answer to be retried, and of any other 429, by
\* _map_status_error.
HeaderRaises(code, h) ==
  IF code = 429 \/ ShouldRetryStatus(cfg, method, code, attempt) THEN HeaderErrors(h) ELSE {}

Answered(code, h) ==
  /\ pc = "exchange"
  /\ Elapses({0, Longest})
  /\ status' = code
  /\ \/ code < 300 /\ Raise("nothing")
     \/ code >= 300 /\ \E exc \in HeaderRaises(code, h) : Raise(exc)
     \/ /\ code >= 300 /\ HeaderRaises(code, h) = {}
        /\ \/ /\ ShouldRetryStatus(cfg, method, code, attempt)
              /\ Pause(RetryAfterSeconds(h, clock'), ComeBack(h, clock'))
           \/ ~ ShouldRetryStatus(cfg, method, code, attempt) /\ Raise("SIBSError")

Wake ==
  /\ pc = "asleep"
  /\ pc' = "exchange" /\ clock' = until /\ attempt' = attempt + 1
  /\ UNCHANGED <<cfg, method, since, until, asked, status, raised>>

Next ==
  \/ TimesOut \/ ConnectionFails
  \/ \E code \in Statuses, h \in Headers : Answered(code, h)
  \/ Wake

Spec == Init /\ [][Next]_vars
-----------------------------------------------------------------------------
\* The types of the variables: among them, that no attempt is made beyond
\* max_retries.
TypeOK ==
  /\ cfg \in Configs /\ method \in Methods
  /\ pc \in {"exchange", "asleep", "done"}
  /\ attempt \in 0..cfg.max_retries
  /\ clock \in Nat /\ since \in Nat /\ until \in Nat /\ asked \in Nat
  /\ status \in Statuses \cup {0}
  /\ raised \in { "nothing", "SIBSError", "SIBSTimeoutError", "SIBSConnectionError",
                  "ValueError", "OverflowError" }

(***************************************************************************)
(* A call ends in time whatever Retry-After says: after n attempts no more *)
(* than n exchanges and n - 1 sleeps of max_backoff have gone by.          *)
(***************************************************************************)
Elapsed == IF pc = "asleep" THEN until ELSE clock
Exchanges == attempt + (IF pc = "exchange" THEN 0 ELSE 1)
Sleeps == attempt + (IF pc = "asleep" THEN 1 ELSE 0)
EndsInTime == Elapsed <= Exchanges * Longest + Sleeps * cfg.max_backoff

\* The exponential alone never overflows for a client with no more retries than
\* a float has exponents: there an OverflowError is that of a date, which only
\* an answer to be retried, or a 429, is asked for.
NoOverflow ==
  raised = "OverflowError" /\ cfg.max_retries <= FloatExponent =>
    \/ status = 429
    \/ status # 0 /\ ShouldRetryStatus(cfg, method, status, attempt)

\* What nothing translates - of digits float() refuses, of an enormous date, of
\* the exponential - takes the place of no answer or error after which a POST
\* may have had its effect: only of answers that say the request was not
\* processed, and of calls whose method is declared idempotent.
BadHeaderIsHarmless ==
  raised \in {"ValueError", "OverflowError"} =>
    status \in ALWAYS_SAFE_STATUSES \/ IsIdempotent(cfg, method)

\* A client that respects Retry-After is not back before it was asked to be,
\* unless it has slept for max_backoff.
NotEarly ==
  [][pc = "asleep" /\ pc' = "exchange" /\ cfg.respect_retry_after =>
       clock' >= Min({asked, since + cfg.max_backoff})]_vars
=============================================================================
