----------------------------- MODULE HTTPClient -----------------------------
(***************************************************************************)
(* The request loop of pysibs/_http.py: calls made by threads or tasks of  *)
(* the application that share one client, the gateway that handles their   *)
(* requests, and the network between the two.                              *)
(*                                                                         *)
(* A POST is an operation with an effect (a payment, a card charge, a      *)
(* refund ...), made for an order; here it "charges" the order.  A GET     *)
(* reads a status.  A request the client has given up on stays in flight:  *)
(* the gateway may still handle it, at any later time or never.            *)
(***************************************************************************)
EXTENDS Integers, FiniteSets, RetryPolicy

CONSTANTS
  Posts, Gets,      \* the calls, each made at most once
  Orders, OrderOf,  \* what each POST is for
  Keys,             \* idempotency keys, named by their text once stripped
  NoKey,            \* no key given, or none on the wire
  InvalidKey,       \* a key that is blank, or longer than 255 characters
  KeyOf,            \* the idempotency_key argument of each POST
  IdempotencyHeader,    \* TRUE when the client was given a header name
  GatewayHonoursKeys,   \* TRUE when the gateway replays a key it has seen
  RetryConfigs,     \* the configurations the client may have been built with
  Statuses,         \* the HTTP statuses the gateway answers with
  Unprocessed,      \* those it answers only when it has done nothing
  FloatExponent,    \* 2 ** FloatExponent is too large for a float (1024)
  IsAsync           \* TRUE for AsyncHTTPClient: a call can be cancelled

Calls == Posts \cup Gets
Success == 200..299
NoReply == 0

ASSUME CallsAssumption == Posts \cap Gets = {}
ASSUME OrdersAssumption == OrderOf \in [Posts -> Orders]
ASSUME KeysAssumption ==
  /\ KeyOf \in [Posts -> Keys \cup {NoKey, InvalidKey}]
  /\ NoKey \notin Keys /\ InvalidKey \notin Keys /\ NoKey # InvalidKey
\* The application gives a key to one order only.
ASSUME KeysNameOrders ==
  \A c, d \in Posts : KeyOf[c] = KeyOf[d] /\ KeyOf[c] \in Keys => OrderOf[c] = OrderOf[d]
ASSUME RetriesAssumption == RetryConfigs \subseteq RetryConfig
ASSUME FloatAssumption == FloatExponent \in Nat
ASSUME StatusesAssumption ==
  /\ Statuses \subseteq 100..599
  /\ Unprocessed \subseteq Statuses \ Success
ASSUME FlagsAssumption ==
  {IdempotencyHeader, GatewayHonoursKeys, IsAsync} \subseteq BOOLEAN

VARIABLES
  retries,          \* the client's RetryConfig, never changed
  closed,           \* the client has been closed
  pc,               \* where each call is in the loop
  attempt,          \* its attempt counter
  result,           \* what it returned or raised
  reply,            \* the status of the answer that has reached a waiting call
  requests,         \* requests sent and not handled yet
  executed          \* the POSTs the gateway has carried out

vars == <<retries, closed, pc, attempt, result, reply, requests, executed>>
callVars == <<pc, attempt, result, reply>>

PCs == {"idle", "ready", "await", "sleep", "done"}
Method(c) == IF c \in Posts THEN "POST" ELSE "GET"
-----------------------------------------------------------------------------
(***************************************************************************)
(* Idempotency keys.  The headers of a call are built once, before its     *)
(* first attempt, and every attempt carries them.                          *)
(***************************************************************************)
BuildIdempotencyHeaders(key) == IF IdempotencyHeader THEN key ELSE NoKey

\* Plausible bug: the retries are sent without the caller's headers.
WireKeyFirstAttemptOnly(c, n) ==
  IF c \in Posts /\ n = 0 THEN BuildIdempotencyHeaders(KeyOf[c]) ELSE NoKey

WireKey(c, n) == IF c \in Posts THEN BuildIdempotencyHeaders(KeyOf[c]) ELSE NoKey

Request(c) == [call |-> c, attempt |-> attempt[c], key |-> WireKey(c, attempt[c])]
-----------------------------------------------------------------------------
(***************************************************************************)
(* What a call returns or raises: the library's own exceptions, and those  *)
(* of httpx and Python that nothing translates.  The latter come from a    *)
(* header (a key that is not ASCII: a ValueError) or URL httpx cannot      *)
(* encode, a closed client, an answer it cannot decode, a Retry-After      *)
(* whose digits are none to float() or whose date no C integer holds, a    *)
(* backoff no float holds, a body nested too deep, and the cancellation of *)
(* a task.                                                                 *)
(***************************************************************************)
LibraryErrors == { "SIBSValidationError", "SIBSAuthenticationError", "SIBSTimeoutError",
                   "SIBSConnectionError", "SIBSRateLimitError", "SIBSAPIError" }
BuildErrors == {"ValueError", "InvalidURL"}
HeaderErrors == {"ValueError", "OverflowError"}

Types ==
  {"none", "ok"} \cup LibraryErrors \cup BuildErrors \cup HeaderErrors
    \cup {"RuntimeError", "DecodingError", "RecursionError", "CancelledError"}

Plain(t) == [type |-> t, status |-> NoReply]
Results == [type : Types, status : Statuses \cup {NoReply}]

\* Plausible bug: every 4xx taken for rejected credentials, 408 among them.
MapStatusErrorByClass(s) ==
  IF s < 500 THEN Plain("SIBSAuthenticationError")
             ELSE [type |-> "SIBSAPIError", status |-> s]

MapStatusError(s) ==
  CASE s \in {401, 403} -> Plain("SIBSAuthenticationError")
    [] s = 408          -> Plain("SIBSTimeoutError")
    [] s = 429          -> [type |-> "SIBSRateLimitError", status |-> s]
    [] OTHER            -> [type |-> "SIBSAPIError", status |-> s]

\* Plausible bugs: httpx's raise_for_status in place of the mapping; only
\* client errors taken for errors.
CheckResponseRaiseForStatus(s) ==
  IF s \in Success THEN Plain("ok") ELSE [type |-> "HTTPStatusError", status |-> s]

CheckResponseClientErrors(s) ==
  IF s \notin 400..499 THEN Plain("ok") ELSE MapStatusError(s)

CheckResponse(s) == IF s \in Success THEN Plain("ok") ELSE MapStatusError(s)

TransportErrors == {"SIBSTimeoutError", "SIBSConnectionError"}

(***************************************************************************)
(* The answers after which the merchant may take it that nothing was done. *)
(***************************************************************************)
Refused(res) ==
  \/ res.type \in { "SIBSValidationError", "SIBSAuthenticationError",
                    "SIBSRateLimitError", "RuntimeError" }
  \/ res.type = "SIBSAPIError" /\ res.status \in Unprocessed

SameKey(c, d) == WireKey(c, 0) # NoKey /\ WireKey(c, 0) = WireKey(d, 0)

(***************************************************************************)
(* The merchant: it submits a second call for an order only when every     *)
(* earlier one was refused, or under the same key, even at the same time.  *)
(***************************************************************************)
MaySubmit(c) ==
  \A d \in Posts \ {c} :
    c \in Posts /\ OrderOf[c] = OrderOf[d] =>
      \/ pc[d] = "idle"
      \/ pc[d] = "done" /\ Refused(result[d])
      \/ GatewayHonoursKeys /\ SameKey(c, d)
-----------------------------------------------------------------------------
Init ==
  /\ retries \in RetryConfigs
  /\ closed = FALSE
  /\ pc = [c \in Calls |-> "idle"]
  /\ attempt = [c \in Calls |-> 0]
  /\ result = [c \in Calls |-> Plain("none")]
  /\ reply = [c \in Calls |-> NoReply]
  /\ requests = {}
  /\ executed = {}

Finish(c, res) ==
  /\ pc' = [pc EXCEPT ![c] = "done"]
  /\ result' = [result EXCEPT ![c] = res]
  /\ reply' = [reply EXCEPT ![c] = NoReply]
  /\ UNCHANGED attempt

Sleep(c) ==
  /\ pc' = [pc EXCEPT ![c] = "sleep"]
  /\ reply' = [reply EXCEPT ![c] = NoReply]
  /\ UNCHANGED <<attempt, result>>

\* The operation's own checks have passed; the headers are built.
Begin(c) ==
  /\ pc[c] = "idle"
  /\ MaySubmit(c)
  /\ IF c \in Posts /\ KeyOf[c] = InvalidKey
       THEN Finish(c, Plain("SIBSValidationError"))
       ELSE pc' = [pc EXCEPT ![c] = "ready"] /\ UNCHANGED <<attempt, result, reply>>
  /\ UNCHANGED <<retries, closed, requests, executed>>

\* Before a request is sent or the client found closed, it is built.  What makes
\* that fail is the same in every attempt, so it fails in the first.
BuildFails(c, e) ==
  /\ pc[c] = "ready" /\ attempt[c] = 0
  /\ Finish(c, Plain(e))
  /\ UNCHANGED <<retries, closed, requests, executed>>

\* httpx refuses to send on a closed client, and nothing catches that.
Send(c) ==
  /\ pc[c] = "ready"
  /\ IF closed
       THEN Finish(c, Plain("RuntimeError")) /\ UNCHANGED requests
       ELSE /\ requests' = requests \cup {Request(c)}
            /\ pc' = [pc EXCEPT ![c] = "await"]
            /\ UNCHANGED <<attempt, result, reply>>
  /\ UNCHANGED <<retries, closed, executed>>

\* time.sleep(backoff(attempt)): the exponential is computed before it is capped.
Backoff(c) ==
  IF attempt[c] >= FloatExponent THEN Finish(c, Plain("OverflowError")) ELSE Sleep(c)

(***************************************************************************)
(* httpx raises a TimeoutException or another TransportError: before       *)
(* anything was sent, or while the call waits - even when the gateway has  *)
(* handled the request and its answer is on the way.                       *)
(***************************************************************************)
ExchangeFails(c, e) ==
  /\ \/ pc[c] = "ready" /\ ~ closed
     \/ pc[c] = "await"
  /\ IF ShouldRetryException(retries, Method(c), attempt[c])
       THEN Backoff(c)
       ELSE Finish(c, Plain(e))
  /\ UNCHANGED <<retries, closed, requests, executed>>

Answered(c) == pc[c] = "await" /\ reply[c] # NoReply

Retried(c) ==
  /\ reply[c] \notin Success
  /\ ShouldRetryStatus(retries, Method(c), reply[c], attempt[c])

\* An answer is there: retry on its status (the exponential is not computed when
\* a Retry-After is heeded), or return or raise.
Receive(c) ==
  /\ Answered(c)
  /\ \/ Retried(c) /\ (Sleep(c) \/ Backoff(c))
     \/ ~ Retried(c) /\ Finish(c, CheckResponse(reply[c]))
  /\ UNCHANGED <<retries, closed, requests, executed>>

\* retry_after_seconds raises, of an answer to be retried or of any other 429.
BadRetryAfter(c, e) ==
  /\ Answered(c)
  /\ Retried(c) \/ reply[c] = 429
  /\ Finish(c, Plain(e))
  /\ UNCHANGED <<retries, closed, requests, executed>>

\* _parse_json catches what is no JSON, not JSON nested deeper than the stack.
BadBody(c) ==
  /\ Answered(c)
  /\ ~ Retried(c)
  /\ Finish(c, Plain("RecursionError"))
  /\ UNCHANGED <<retries, closed, requests, executed>>

\* The body cannot be decoded (its Content-Encoding is broken): httpx
\* raises a DecodingError, which is not a TransportError.
BadEncoding(c) ==
  /\ Answered(c)
  /\ Finish(c, Plain("DecodingError"))
  /\ UNCHANGED <<retries, closed, requests, executed>>

\* Plausible bug: the attempt is not counted.
WakeUncounted(c) ==
  /\ pc[c] = "sleep"
  /\ pc' = [pc EXCEPT ![c] = "ready"]
  /\ UNCHANGED <<retries, closed, attempt, result, reply, requests, executed>>

Wake(c) ==
  /\ pc[c] = "sleep"
  /\ pc' = [pc EXCEPT ![c] = "ready"]
  /\ attempt' = [attempt EXCEPT ![c] = @ + 1]
  /\ UNCHANGED <<retries, closed, result, reply, requests, executed>>

\* The task that awaits the call is cancelled.
Cancel(c) ==
  /\ IsAsync
  /\ pc[c] \in {"ready", "await", "sleep"}
  /\ Finish(c, Plain("CancelledError"))
  /\ UNCHANGED <<retries, closed, requests, executed>>

Close ==
  /\ ~ closed
  /\ closed' = TRUE
  /\ UNCHANGED <<retries, callVars, requests, executed>>

(***************************************************************************)
(* The gateway handles a request and answers with status s.  On success    *)
(* the POST has been carried out (or its key had been, and the answer is   *)
(* replayed); on an error outside Unprocessed it may or may not have been. *)
(* The answer reaches the call only while it waits for that very attempt.  *)
(***************************************************************************)
Replayed(r) ==
  /\ GatewayHonoursKeys
  /\ r.key # NoKey
  /\ \E e \in executed : e.key = r.key

Effect(r) ==
  IF r.call \in Posts /\ ~ Replayed(r) THEN {r} ELSE {}

Awaited(r) == pc[r.call] = "await" /\ attempt[r.call] = r.attempt

Handle(r, s) ==
  /\ r \in requests
  /\ requests' = requests \ {r}
  /\ \/ s \in Success /\ executed' = executed \cup Effect(r)
     \/ s \notin Success /\ executed' = executed
     \/ s \notin Success \cup Unprocessed /\ executed' = executed \cup Effect(r)
  /\ reply' = IF Awaited(r) THEN [reply EXCEPT ![r.call] = s] ELSE reply
  /\ UNCHANGED <<retries, closed, pc, attempt, result>>

Client(c) ==
  \/ Begin(c)
  \/ \E e \in BuildErrors : BuildFails(c, e)
  \/ Send(c)
  \/ \E e \in TransportErrors : ExchangeFails(c, e)
  \/ Receive(c)
  \/ \E e \in HeaderErrors : BadRetryAfter(c, e)
  \/ BadBody(c)
  \/ BadEncoding(c)
  \/ Wake(c)
  \/ Cancel(c)

Next ==
  \/ \E c \in Calls : Client(c)
  \/ \E r \in requests, s \in Statuses : Handle(r, s)
  \/ Close

Spec == Init /\ [][Next]_vars

(***************************************************************************)
(* Fairness: a thread or task that can move does; httpx's timeouts end a   *)
(* wait.  Nothing is asked of the gateway, nor that Begin, Cancel or Close *)
(* ever happens.                                                           *)
(***************************************************************************)
Progress(c) ==
  \/ Send(c)
  \/ \E e \in TransportErrors : ExchangeFails(c, e)
  \/ Receive(c)
  \/ Wake(c)

FairSpec == Spec /\ \A c \in Calls : WF_vars(Progress(c))
-----------------------------------------------------------------------------
(***************************************************************************)
(* Properties.                                                             *)
(***************************************************************************)

\* The types of the variables: among them, that an answer ends a call with
\* nothing but its own exception of the library, or with one of those listed as
\* untranslated, and that only POSTs are carried out.
TypeOK ==
  /\ retries \in RetryConfigs
  /\ closed \in BOOLEAN
  /\ pc \in [Calls -> PCs]
  /\ attempt \in [Calls -> Nat]
  /\ result \in [Calls -> Results]
  /\ reply \in [Calls -> Statuses \cup {NoReply}]
  /\ requests \subseteq [call : Calls, attempt : Nat, key : Keys \cup {NoKey, InvalidKey}]
  /\ executed \subseteq [call : Posts, attempt : Nat, key : Keys \cup {NoKey, InvalidKey}]

\* No call makes more than 1 + max_retries attempts, whatever it is answered.
WithinBudget == \A c \in Calls : attempt[c] <= retries.max_retries

\* The application has not declared POST idempotent, and the gateway keeps
\* the promise the retry policy is built on.
PostsNotIdempotent == "POST" \notin retries.idempotent_methods
HonestGateway == ALWAYS_SAFE_STATUSES \cup {401, 403} \subseteq Unprocessed

\* An order is charged at most once, whatever is retried, times out, is
\* cancelled or handled late, and although the merchant submits it again
\* after a refusal.
ChargedOnce ==
  HonestGateway /\ PostsNotIdempotent =>
    \A e, f \in executed : OrderOf[e.call] = OrderOf[f.call] => e = f

\* A POST that ended with an error the merchant may read as a refusal (bad
\* credentials, rate limit, 503, closed client) was not carried out by any
\* of its attempts and will not be: none of them is still in flight.
RefusalIsFinal ==
  HonestGateway /\ PostsNotIdempotent =>
    \A c \in Posts :
      Refused(result[c]) => \A r \in requests \cup executed : r.call # c

\* A POST that returned normally is for an order that has been charged.
OkMeansCharged ==
  \A c \in Posts : result[c].type = "ok" =>
    \E e \in executed : OrderOf[e.call] = OrderOf[c]

\* With a header configured and a gateway that honours it, all charges under
\* one key are one charge: even for a POST declared idempotent, a 503 given
\* after the fact, and calls repeated after an unknown outcome.
OrderIsKeyed(o) ==
  \E k \in Keys : \A c \in Posts : OrderOf[c] = o => KeyOf[c] \in {k, InvalidKey}

KeyedOnce ==
  IdempotencyHeader /\ GatewayHonoursKeys =>
    \A e, f \in executed :
      OrderOf[e.call] = OrderOf[f.call] /\ OrderIsKeyed(OrderOf[e.call]) => e = f

\* A POST is sent again only when no earlier attempt of it can still have an
\* effect: none was carried out, and none is in flight.
SendsAfterRefusal ==
  HonestGateway /\ PostsNotIdempotent =>
    \A r \in requests' \ requests :
      r.call \in Posts => \A q \in requests \cup executed : q.call # r.call

NoOverlap == [][SendsAfterRefusal]_vars

\* A call that has begun ends, although the gateway may never answer and
\* the client may be closed under it.
Terminates == \A c \in Calls : pc[c] = "ready" ~> pc[c] = "done"

(***************************************************************************)
(* The inductive invariant.  Its heart is OneLiveAttempt: every request of *)
(* a POST that is in flight or was carried out is the call's present       *)
(* attempt, so when a later attempt is sent none is left.  That holds only *)
(* because an answer in Unprocessed means nothing is left (QuietRefusal).  *)
(***************************************************************************)
Entries == requests \cup executed

PendingHasNoResult == \A c \in Calls : pc[c] # "done" => result[c] = Plain("none")

SleepWithinBudget ==
  \A c \in Calls : /\ attempt[c] <= retries.max_retries
                   /\ pc[c] = "sleep" => attempt[c] < retries.max_retries

KeyIsValid ==
  \A c \in Posts : pc[c] \notin {"idle", "done"} => KeyOf[c] # InvalidKey

EntriesAreKeyed ==
  \A r \in Entries :
    /\ pc[r.call] # "idle"
    /\ r.key = WireKey(r.call, r.attempt)
    /\ r.call \in Posts => KeyOf[r.call] # InvalidKey

ReplyIsAwaited == \A c \in Calls : reply[c] # NoReply => pc[c] = "await"

AnsweredIsHandled ==
  \A c \in Calls : reply[c] # NoReply \/ result[c].type = "ok" =>
    \A r \in requests : r.call = c => r.attempt # attempt[c]

SuccessIsCharged ==
  \A c \in Posts : reply[c] \in Success \/ result[c].type = "ok" =>
    \E e \in executed : OrderOf[e.call] = OrderOf[c]

OneOpenCall ==
  \A c, d \in Posts :
    c # d /\ OrderOf[c] = OrderOf[d] /\ pc[c] # "idle" /\ pc[d] # "idle" =>
      \/ Refused(result[c])
      \/ Refused(result[d])
      \/ GatewayHonoursKeys /\ SameKey(c, d)

OneChargePerKey ==
  GatewayHonoursKeys => \A e, f \in executed : e.key = f.key /\ e.key # NoKey => e = f

OneLiveAttempt ==
  \A r \in Entries : r.call \in Posts =>
    /\ r.attempt = attempt[r.call]
    /\ pc[r.call] \in {"await", "done"}
    /\ ~ Refused(result[r.call])

HandledOnce == requests \cap executed = {}

QuietRefusal ==
  \A c \in Posts : reply[c] \in Unprocessed => \A r \in Entries : r.call # c

\* The inductive invariant, of which the first five rows hold whatever the
\* gateway does and the last needs its promise.
IInv ==
  /\ TypeOK
  /\ PendingHasNoResult /\ SleepWithinBudget
  /\ KeyIsValid /\ EntriesAreKeyed
  /\ ReplyIsAwaited /\ AnsweredIsHandled /\ SuccessIsCharged
  /\ OneOpenCall /\ OneChargePerKey
  /\ HonestGateway /\ PostsNotIdempotent => OneLiveAttempt /\ HandledOnce /\ QuietRefusal

-----------------------------------------------------------------------------
(***************************************************************************)
(* The ledger a merchant may rely on, implemented by the client and an     *)
(* honest gateway.                                                         *)
(***************************************************************************)
AnswerOf(res) ==
  CASE res.type = "none" -> "none"
    [] res.type = "ok"   -> "ok"
    [] Refused(res)      -> "refused"
    [] OTHER             -> "unknown"

Ledger == INSTANCE ChargeLedger WITH
  Calls     <- Posts,
  OrderOf   <- OrderOf,
  ChargeIds <- UNION {0 .. cfg.max_retries : cfg \in RetryConfigs},
  ledger    <- {[call |-> e.call, id |-> e.attempt] : e \in executed},
  answer    <- [c \in Posts |-> AnswerOf(result[c])]

\* Client, network and gateway together charge and answer as the ledger says.
LedgerSpec == Ledger!Spec
=============================================================================
