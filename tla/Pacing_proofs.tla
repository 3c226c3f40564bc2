---------------------------- MODULE Pacing_proofs ----------------------------
(***************************************************************************)
(* Proofs about Pacing, for any configurations, statuses, headers and      *)
(* timeout.                                                                *)
(***************************************************************************)
EXTENDS Pacing, TLAPS

\* The lesser and the greater of two numbers.
LEMMA MinOfTwo ==
  ASSUME NEW a \in Int, NEW b \in Int
  PROVE  /\ Min({a, b}) \in {a, b} /\ Min({a, b}) <= a /\ Min({a, b}) <= b
         /\ Min({a, b}) \in Int
<1>1. \E x \in {a, b} : \A y \in {a, b} : x <= y
  OBVIOUS
<1> QED BY <1>1 DEF Min

LEMMA MaxOfTwo ==
  ASSUME NEW a \in Int, NEW b \in Int
  PROVE  /\ Max({a, b}) \in {a, b} /\ Max({a, b}) >= a /\ Max({a, b}) >= b
         /\ Max({a, b}) \in Int
<1>1. \E x \in {a, b} : \A y \in {a, b} : x >= y
  OBVIOUS
<1> QED BY <1>1 DEF Max

\* A number capped, and the earlier of two times.
LEMMA CappedAt ==
  ASSUME NEW t \in Nat, NEW m \in Nat
  PROVE  Min({t, m}) \in 0..m /\ (Min({t, m}) = t \/ Min({t, m}) = m)
BY MinOfTwo

LEMMA EarlierOfTwo ==
  ASSUME NEW back \in Nat, NEW now \in Nat, NEW m \in Nat
  PROVE  /\ Min({back, now + m}) <= back /\ Min({back, now + m}) <= now + m
         /\ Min({back, now + m}) \in Int
<1>1. now + m \in Int /\ back \in Int
  OBVIOUS
<1> QED BY <1>1, MinOfTwo

\* Products of natural numbers: what one more of them adds, and that they are
\* no less than their factors.
LEMMA OneMore ==
  ASSUME NEW a \in Nat, NEW b \in Nat
  PROVE  a * b \in Nat /\ (a + 1) * b = a * b + b
OBVIOUS

LEMMA LongestType == Longest \in Nat /\ Timeout \in Nat /\ Timeout <= Longest
<1>1. PICK w \in Nat : Waits = w + 1
  <2>1. Waits - 1 \in Nat /\ Waits = (Waits - 1) + 1
    BY TimeAssumption
  <2> QED BY <2>1
<1>2. w * Timeout \in Nat /\ Longest = w * Timeout + Timeout
  BY <1>1, TimeAssumption, OneMore DEF Longest
<1> QED BY <1>2, TimeAssumption

\* What is known of a configuration.
LEMMA ConfigType ==
  ASSUME NEW c \in Configs
  PROVE  /\ c.max_retries \in Nat /\ c.backoff_factor \in Nat /\ c.max_backoff \in Nat
         /\ c.jitter \in BOOLEAN /\ c.respect_retry_after \in BOOLEAN
BY ConfigsAssumption DEF PacedConfig

(***************************************************************************)
(* A sleep is never longer than max_backoff, and never shorter than what   *)
(* Retry-After asks for, up to max_backoff, when it is respected.          *)
(***************************************************************************)
LEMMA BackoffBounded ==
  ASSUME NEW n \in 0..cfg.max_retries, cfg \in Configs,
         NEW advice, NEW t \in Nat, advice = {} \/ advice = {t}, NEW s \in Backoff(n, advice)
  PROVE  /\ s \in 0..cfg.max_backoff
         /\ cfg.respect_retry_after /\ advice = {t} => s = Min({t, cfg.max_backoff})
<1> DEFINE base == Min({cfg.backoff_factor * 2^n, cfg.max_backoff})
<1>1. base \in 0..cfg.max_backoff
  <2>1. cfg.backoff_factor \in Nat /\ 2^n \in Nat /\ cfg.max_backoff \in Nat
    BY ConfigType, PowersAssumption
  <2>2. PICK p \in Nat, m \in Nat : p = cfg.backoff_factor * 2^n /\ m = cfg.max_backoff
    BY <2>1, OneMore
  <2>3. Min({p, m}) \in 0..m
    BY MinOfTwo
  <2> QED BY <2>2, <2>3
<1>2. CASE advice # {} /\ cfg.respect_retry_after
  <2>1. advice = {t} /\ {Min({u, cfg.max_backoff}) : u \in advice} = {Min({t, cfg.max_backoff})}
    BY <1>2
  <2>2. s = Min({t, cfg.max_backoff})
    BY <1>2, <2>1 DEF Backoff
  <2>3. PICK m \in Nat : m = cfg.max_backoff
    BY ConfigType
  <2>4. Min({t, m}) \in 0..m
    BY CappedAt, Zenon
  <2> QED BY <2>2, <2>3, <2>4
<1>3. CASE ~ (advice # {} /\ cfg.respect_retry_after)
  <2>1. s \in IF cfg.jitter THEN 0..base ELSE {base}
    BY <1>3 DEF Backoff
  <2>2. s \in 0..cfg.max_backoff
    BY <1>1, <2>1, ConfigType
  <2> QED BY <1>3, <2>2
<1> QED BY <1>2, <1>3
-----------------------------------------------------------------------------
(***************************************************************************)
(* The inductive invariant.  A call sleeps only while attempts are left;   *)
(* it ends as soon as something is raised; and a sleep lasts until the     *)
(* time Retry-After names, or for max_backoff.                             *)
(***************************************************************************)
Underway ==
  /\ pc # "done" => raised = "nothing"
  /\ pc = "asleep" => attempt < cfg.max_retries

Advised ==
  pc = "asleep" /\ cfg.respect_retry_after => until >= Min({asked, since + cfg.max_backoff})

Confined == NoOverflow /\ BadHeaderIsHarmless

IInv == TypeOK /\ Underway /\ Advised /\ EndsInTime /\ Confined

LEMMA InvInit == Init => IInv
<1> SUFFICES ASSUME Init PROVE IInv
  OBVIOUS
<1>1. TypeOK
  BY ConfigType DEF Init, TypeOK
<1>2. EndsInTime
  <2>1. Elapsed = 0 /\ Exchanges = 0 /\ Sleeps = 0
    BY DEF Init, Elapsed, Exchanges, Sleeps
  <2>2. cfg.max_backoff \in Nat /\ Longest \in Nat
    BY ConfigType, LongestType DEF Init
  <2> QED BY <2>1, <2>2 DEF EndsInTime
<1> QED BY <1>1, <1>2 DEF Init, IInv, Underway, Advised, Confined, NoOverflow, BadHeaderIsHarmless

\* The answers whose Retry-After is read: none is read of no answer.
HeaderRead(code) ==
  code = 429 \/ (code # 0 /\ ShouldRetryStatus(cfg, method, code, attempt))

\* The end of an exchange that is raised, or returned: the time it took is
\* allowed for.
LEMMA RaiseStep ==
  ASSUME IInv, pc = "exchange", NEW now \in Nat, clock' = now, now <= clock + Longest,
         status' \in Statuses \cup {0},
         NEW exc \in { "nothing", "SIBSError", "SIBSTimeoutError", "SIBSConnectionError",
                       "ValueError", "OverflowError" },
         exc = "OverflowError" /\ cfg.max_retries <= FloatExponent => HeaderRead(status'),
         exc \in {"ValueError", "OverflowError"} =>
           status' \in ALWAYS_SAFE_STATUSES \/ IsIdempotent(cfg, method),
         Raise(exc)
  PROVE  IInv'
<1> USE DEF Raise
<1>1. clock \in Nat /\ cfg.max_backoff \in Nat /\ attempt \in Nat /\ Longest \in Nat
  BY ConfigType, LongestType DEF IInv, TypeOK
<1>2. TypeOK'
  BY <1>1 DEF IInv, TypeOK
<1>3. EndsInTime'
  <2>1. clock <= attempt * Longest + attempt * cfg.max_backoff
    BY <1>1 DEF IInv, EndsInTime, Elapsed, Exchanges, Sleeps
  <2>2. now <= (attempt + 1) * Longest + attempt * cfg.max_backoff
    BY <1>1, <2>1, OneMore
  <2>3. Elapsed' = now /\ Exchanges' = attempt + 1 /\ Sleeps' = attempt
    BY <1>1 DEF Elapsed, Exchanges, Sleeps
  <2> QED BY <2>2, <2>3 DEF EndsInTime
<1>4. Underway' /\ Advised' /\ Confined'
  BY DEF Underway, Advised, Confined, NoOverflow, BadHeaderIsHarmless, IInv, HeaderRead,
         ShouldRetryStatus, IsIdempotent
<1> QED BY <1>2, <1>3, <1>4 DEF IInv

\* The end of an exchange that is slept on: the sleep is allowed for too.
LEMMA PauseStep ==
  ASSUME IInv, pc = "exchange", NEW now \in Nat, clock' = now, now <= clock + Longest,
         status' \in Statuses \cup {0}, attempt < cfg.max_retries,
         NEW advice, NEW t \in Nat, advice = {} \/ advice = {t},
         NEW back \in Nat, back <= now + t, advice = {} => back = now,
         status' \in ALWAYS_SAFE_STATUSES \/ IsIdempotent(cfg, method),
         Pause(advice, back)
  PROVE  IInv'
<1>1. CASE Overflows(attempt, advice) /\ Raise("OverflowError")
  <2>1. ~ (cfg.max_retries <= FloatExponent)
    BY <1>1, ConfigType, TimeAssumption DEF Overflows, IInv, TypeOK
  <2> QED BY <1>1, <2>1, RaiseStep
<1>2. CASE ~ (Overflows(attempt, advice) /\ Raise("OverflowError"))
  <2>1. PICK s \in Backoff(attempt, advice) : until' = now + s
    BY <1>2 DEF Pause
  <2>2. /\ pc' = "asleep" /\ since' = now /\ asked' = back
        /\ UNCHANGED <<cfg, method, attempt, raised>>
    BY <1>2 DEF Pause
  <2>3. /\ clock \in Nat /\ attempt \in Nat /\ Longest \in Nat
        /\ cfg.max_backoff \in Nat /\ cfg.max_retries \in Nat
    BY ConfigType, LongestType DEF IInv, TypeOK
  <2>4. /\ s \in 0..cfg.max_backoff
        /\ cfg.respect_retry_after /\ advice = {t} => s = Min({t, cfg.max_backoff})
    <3>1. attempt \in 0..cfg.max_retries /\ cfg \in Configs
      BY DEF IInv, TypeOK
    <3> QED BY <2>1, <3>1, BackoffBounded
  <2>5. TypeOK'
    <3>1. now + s \in Nat
      BY <2>3, <2>4
    <3>2. status' \in Statuses \cup {0}
      OBVIOUS
    <3> QED BY <2>1, <2>2, <2>3, <3>1, <3>2 DEF IInv, TypeOK
  <2>6. EndsInTime'
    <3>1. clock <= attempt * Longest + attempt * cfg.max_backoff
      BY <2>3 DEF IInv, EndsInTime, Elapsed, Exchanges, Sleeps
    <3>2. now + s <= (attempt + 1) * Longest + (attempt + 1) * cfg.max_backoff
      BY <2>3, <2>4, <3>1, OneMore
    <3>3. Elapsed' = now + s /\ Exchanges' = attempt + 1 /\ Sleeps' = attempt + 1
      BY <2>1, <2>2 DEF Elapsed, Exchanges, Sleeps
    <3> QED BY <2>2, <3>2, <3>3 DEF EndsInTime
  <2>7. Advised'
    <3> SUFFICES ASSUME cfg.respect_retry_after
                 PROVE  now + s >= Min({back, now + cfg.max_backoff})
      BY <2>1, <2>2 DEF Advised
    <3>1. PICK m \in Nat : m = cfg.max_backoff
      BY <2>3
    <3>2. Min({back, now + m}) <= back /\ Min({back, now + m}) <= now + m /\ Min({back, now + m}) \in Int
      BY EarlierOfTwo, Zenon
    <3>3. CASE advice = {}
      BY <2>4, <3>1, <3>2, <3>3
    <3>4. CASE advice = {t}
      <4>1. s = Min({t, m})
        BY <2>4, <3>1, <3>4
      <4>2. s = t \/ s = m
        BY <4>1, CappedAt, Zenon
      <4>3. now + s >= Min({back, now + m})
        BY <3>1, <3>2, <4>2
      <4> QED BY <3>1, <4>3
    <3> QED BY <3>3, <3>4
  <2>8. Underway' /\ Confined'
    BY <2>2 DEF Underway, Confined, NoOverflow, BadHeaderIsHarmless, IInv
  <2> QED BY <2>5, <2>6, <2>7, <2>8 DEF IInv
<1> QED BY <1>1, <1>2

\* What Retry-After says, and when it asks the client to be back.
LEMMA DateType ==
  ASSUME NEW v \in Nat, NEW now \in Nat
  PROVE  /\ Max({0, v - now}) \in Nat /\ Max({now, v}) \in Nat
         /\ Max({now, v}) <= now + Max({0, v - now})
<1>1. 0 \in Int /\ now \in Int /\ v \in Int /\ v - now \in Int
  OBVIOUS
<1>2. Max({0, v - now}) \in Nat /\ Max({0, v - now}) >= v - now
  BY <1>1, MaxOfTwo
<1>3. Max({now, v}) \in {now, v}
  BY <1>1, MaxOfTwo
<1> QED BY <1>2, <1>3

LEMMA HeaderType ==
  ASSUME NEW h \in Headers, NEW now \in Nat
  PROVE  \E t \in Nat : /\ RetryAfterSeconds(h, now) = {} \/ RetryAfterSeconds(h, now) = {t}
                        /\ ComeBack(h, now) \in Nat /\ ComeBack(h, now) <= now + t
                        /\ RetryAfterSeconds(h, now) = {} => ComeBack(h, now) = now
<1>1. h.form \in {"absent", "seconds", "superscript", "date", "enormous", "garbage"} /\ h.value \in Nat
  BY HeadersAssumption DEF Header
<1>2. CASE h.form = "seconds"
  <2>1. RetryAfterSeconds(h, now) = {h.value} /\ ComeBack(h, now) = now + h.value
    BY <1>2 DEF RetryAfterSeconds, ComeBack
  <2> QED BY <1>1, <2>1
<1>3. CASE h.form = "date"
  <2>1. PICK v \in Nat : v = h.value
    BY <1>1
  <2>2. RetryAfterSeconds(h, now) = {Max({0, v - now})} /\ ComeBack(h, now) = Max({now, v})
    BY <1>3, <2>1 DEF RetryAfterSeconds, ComeBack
  <2> QED BY <2>2, DateType
<1>4. CASE h.form \notin {"seconds", "date"}
  BY <1>4 DEF RetryAfterSeconds, ComeBack
<1> QED BY <1>1, <1>2, <1>3, <1>4

LEMMA InvStep == IInv /\ [Next]_vars => IInv'
<1> SUFFICES ASSUME IInv, [Next]_vars PROVE IInv'
  OBVIOUS
<1>t. clock \in Nat /\ Longest \in Nat /\ Timeout \in Nat /\ Timeout <= Longest
  BY LongestType DEF IInv, TypeOK
<1>1. CASE TimesOut
  <2>1. PICK now \in Nat :
          clock' = now /\ now <= clock + Longest /\ pc = "exchange" /\ status' = 0
    BY <1>1, <1>t DEF TimesOut, Elapses
  <2>2. CASE ShouldRetryException(cfg, method, attempt) /\ Pause({}, clock')
    <3>1. attempt < cfg.max_retries
      BY <2>2 DEF ShouldRetryException
    <3>2. Pause({}, now) /\ now <= now + 0
      BY <2>1, <2>2
    <3>3. IsIdempotent(cfg, method)
      BY <2>2 DEF ShouldRetryException
    <3> QED BY <2>1, <3>1, <3>2, <3>3, PauseStep
  <2>3. CASE Raise("SIBSTimeoutError")
    BY <2>1, <2>3, RaiseStep
  <2> QED BY <1>1, <2>2, <2>3 DEF TimesOut
<1>2. CASE ConnectionFails
  <2>1. PICK now \in Nat :
          clock' = now /\ now <= clock + Longest /\ pc = "exchange" /\ status' = 0
    BY <1>2, <1>t DEF ConnectionFails, Elapses
  <2>2. CASE ShouldRetryException(cfg, method, attempt) /\ Pause({}, clock')
    <3>1. attempt < cfg.max_retries
      BY <2>2 DEF ShouldRetryException
    <3>2. Pause({}, now) /\ now <= now + 0
      BY <2>1, <2>2
    <3>3. IsIdempotent(cfg, method)
      BY <2>2 DEF ShouldRetryException
    <3> QED BY <2>1, <3>1, <3>2, <3>3, PauseStep
  <2>3. CASE Raise("SIBSConnectionError")
    BY <2>1, <2>3, RaiseStep
  <2> QED BY <1>2, <2>2, <2>3 DEF ConnectionFails
<1>3. ASSUME NEW code \in Statuses, NEW h \in Headers, Answered(code, h) PROVE IInv'
  <2>1. PICK now \in Nat :
          clock' = now /\ now <= clock + Longest /\ pc = "exchange" /\ status' = code
    BY <1>3, <1>t DEF Answered, Elapses
  <2>2. CASE Raise("nothing") \/ Raise("SIBSError")
    BY <2>1, <2>2, RaiseStep
  <2>0. ShouldRetryStatus(cfg, method, code, attempt) =>
          code \in ALWAYS_SAFE_STATUSES \/ IsIdempotent(cfg, method)
    BY DEF ShouldRetryStatus
  <2>3. ASSUME NEW exc \in HeaderRaises(code, h), Raise(exc) PROVE IInv'
    <3>1. /\ code = 429 \/ ShouldRetryStatus(cfg, method, code, attempt)
          /\ exc \in {"ValueError", "OverflowError"}
      BY <2>3 DEF HeaderRaises, HeaderErrors
    <3>2. code # 0
      BY StatusesAssumption
    <3>3. HeaderRead(status')
      BY <2>1, <3>1, <3>2 DEF HeaderRead
    <3>4. status' \in ALWAYS_SAFE_STATUSES \/ IsIdempotent(cfg, method)
      BY <2>0, <2>1, <3>1 DEF ALWAYS_SAFE_STATUSES
    <3> QED BY <2>1, <2>3, <3>1, <3>3, <3>4, RaiseStep
  <2>4. CASE /\ ShouldRetryStatus(cfg, method, code, attempt)
             /\ Pause(RetryAfterSeconds(h, clock'), ComeBack(h, clock'))
    <3>1. attempt < cfg.max_retries
      BY <2>4 DEF ShouldRetryStatus
    <3>2. PICK t \in Nat :
            /\ RetryAfterSeconds(h, now) = {} \/ RetryAfterSeconds(h, now) = {t}
            /\ ComeBack(h, now) \in Nat /\ ComeBack(h, now) <= now + t
            /\ RetryAfterSeconds(h, now) = {} => ComeBack(h, now) = now
      BY <2>1, HeaderType
    <3>3. Pause(RetryAfterSeconds(h, now), ComeBack(h, now))
      BY <2>1, <2>4
    <3>4. status' \in ALWAYS_SAFE_STATUSES \/ IsIdempotent(cfg, method)
      BY <2>0, <2>1, <2>4
    <3> QED BY <2>1, <3>1, <3>2, <3>3, <3>4, PauseStep
  <2> QED BY <1>3, <2>2, <2>3, <2>4 DEF Answered
<1>4. CASE Wake
  <2> USE <1>4 DEF Wake
  <2>1. /\ until \in Nat /\ attempt \in Nat /\ cfg.max_retries \in Nat
        /\ attempt < cfg.max_retries
    BY ConfigType DEF IInv, TypeOK, Underway
  <2>2. TypeOK'
    BY <2>1 DEF IInv, TypeOK
  <2>3. EndsInTime'
    <3>1. /\ Elapsed' = Elapsed /\ Exchanges' = Exchanges /\ Sleeps' = Sleeps
      BY <2>1 DEF Elapsed, Exchanges, Sleeps
    <3> QED BY <3>1 DEF EndsInTime, IInv
  <2>4. Underway' /\ Advised' /\ Confined'
    BY DEF Underway, Advised, Confined, NoOverflow, BadHeaderIsHarmless, IInv
  <2> QED BY <2>2, <2>3, <2>4 DEF IInv
<1>5. CASE UNCHANGED vars
  BY <1>5 DEF vars, IInv, TypeOK, Underway, Advised, EndsInTime, Elapsed, Exchanges, Sleeps,
              Confined, NoOverflow, BadHeaderIsHarmless
<1> QED BY <1>1, <1>2, <1>3, <1>4, <1>5 DEF Next
-----------------------------------------------------------------------------
\* The inductive invariant holds for every configuration and header.
THEOREM Invariance == Spec => []IInv
BY InvInit, InvStep, PTL DEF Spec

\* The types, and that no attempt is made beyond max_retries.
THEOREM TypeCorrect == Spec => []TypeOK
<1>1. IInv => TypeOK
  BY DEF IInv
<1> QED BY <1>1, Invariance, PTL

\* A call ends in time, whatever Retry-After says.
THEOREM EndsInTimeHolds == Spec => []EndsInTime
<1>1. IInv => EndsInTime
  BY DEF IInv
<1> QED BY <1>1, Invariance, PTL

\* The exponential overflows for no client with no more retries than a float has
\* exponents: an OverflowError it sees is that of a date.
THEOREM NoOverflowHolds == Spec => []NoOverflow
<1>1. IInv => NoOverflow
  BY DEF IInv, Confined
<1> QED BY <1>1, Invariance, PTL

\* What a header or the exponential raises, ValueError or OverflowError, hides no
\* effect of a POST.
THEOREM BadHeaderHolds == Spec => []BadHeaderIsHarmless
<1>1. IInv => BadHeaderIsHarmless
  BY DEF IInv, Confined
<1> QED BY <1>1, Invariance, PTL

\* A client that respects Retry-After is not back early.
THEOREM NotEarlyHolds == Spec => NotEarly
<1>1. IInv /\ [Next]_vars =>
        [pc = "asleep" /\ pc' = "exchange" /\ cfg.respect_retry_after =>
           clock' >= Min({asked, since + cfg.max_backoff})]_vars
  <2> SUFFICES ASSUME IInv, Next, pc = "asleep", cfg.respect_retry_after
               PROVE  clock' >= Min({asked, since + cfg.max_backoff})
    BY DEF vars
  <2>1. Wake
    BY DEF Next, TimesOut, ConnectionFails, Answered
  <2> QED BY <2>1 DEF Wake, IInv, Advised
<1> QED BY <1>1, Invariance, PTL DEF Spec, NotEarly
==============================================================================
