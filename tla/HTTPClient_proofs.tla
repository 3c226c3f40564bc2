-------------------------- MODULE HTTPClient_proofs --------------------------
(***************************************************************************)
(* Proofs about HTTPClient, for any sets of calls, orders and keys, any    *)
(* retry configurations and any statuses.                                  *)
(***************************************************************************)
EXTENDS HTTPClient, TLAPS

\* _check_response ends a call with one of the listed results.
LEMMA CheckResponseType ==
  ASSUME NEW s \in Statuses
  PROVE  CheckResponse(s) \in Results /\ CheckResponse(s).type # "none"
BY DEF CheckResponse, MapStatusError, Plain, Results, Types, LibraryErrors, NoReply

\* So does every exception that carries no status.
LEMMA PlainType ==
  ASSUME NEW t \in Types
  PROVE  Plain(t) \in Results
BY DEF Plain, Results

\* The exceptions after which the merchant knows nothing of the outcome are
\* results: neither a success nor a refusal.
OutcomeUnknown ==
  BuildErrors \cup HeaderErrors \cup TransportErrors
    \cup {"DecodingError", "RecursionError", "CancelledError"}

LEMMA UnknownType ==
  ASSUME NEW t \in OutcomeUnknown
  PROVE  /\ t \in Types \ {"none"} /\ Plain(t) \in Results
         /\ Plain(t).type # "ok" /\ Plain(t).type # "none" /\ ~ Refused(Plain(t))
<1>1. t \in Types \ {"none", "ok"}
  BY DEF OutcomeUnknown, Types, BuildErrors, HeaderErrors, TransportErrors, LibraryErrors
<1>2. t \notin { "SIBSValidationError", "SIBSAuthenticationError", "SIBSRateLimitError",
                 "RuntimeError", "SIBSAPIError" }
  BY DEF OutcomeUnknown, BuildErrors, HeaderErrors, TransportErrors
<1> QED BY <1>1, <1>2, PlainType DEF Plain, Refused

\* The request of a call is one of those TypeOK lists.
LEMMA RequestType ==
  ASSUME TypeOK, NEW c \in Calls
  PROVE  Request(c) \in [call : Calls, attempt : Nat, key : Keys \cup {NoKey, InvalidKey}]
BY KeysAssumption DEF TypeOK, Request, WireKey, BuildIdempotencyHeaders, Calls

\* Ending a call keeps the types of what it changes.
LEMMA FinishType ==
  ASSUME TypeOK, NEW c \in Calls, NEW res \in Results, Finish(c, res)
  PROVE  /\ pc' \in [Calls -> PCs]
         /\ attempt' \in [Calls -> Nat]
         /\ result' \in [Calls -> Results]
         /\ reply' \in [Calls -> Statuses \cup {NoReply}]
BY DEF TypeOK, Finish, PCs

\* Putting a call to sleep keeps the types of what it changes.
LEMMA SleepType ==
  ASSUME TypeOK, NEW c \in Calls, Sleep(c)
  PROVE  /\ pc' \in [Calls -> PCs]
         /\ attempt' \in [Calls -> Nat]
         /\ result' \in [Calls -> Results]
         /\ reply' \in [Calls -> Statuses \cup {NoReply}]
BY DEF TypeOK, Sleep, PCs

\* A client that was just built has the types.
LEMMA TypeInit == Init => TypeOK
<1>1. Plain("none") \in Results
  BY PlainType DEF Types
<1> SUFFICES ASSUME Init PROVE TypeOK
  OBVIOUS
<1>2. result \in [Calls -> Results]
  BY <1>1 DEF Init
<1>3. requests = {} /\ executed = {}
  BY DEF Init
<1> QED BY <1>2, <1>3 DEF Init, TypeOK, PCs

\* No step of a call, the gateway or close() leaves them.
LEMMA TypeStep == TypeOK /\ [Next]_vars => TypeOK'
<1> SUFFICES ASSUME TypeOK, [Next]_vars PROVE TypeOK'
  OBVIOUS
<1>1. ASSUME NEW c \in Calls, Begin(c) PROVE TypeOK'
  <2>1. CASE c \in Posts /\ KeyOf[c] = InvalidKey
    <3>1. Finish(c, Plain("SIBSValidationError"))
      BY <1>1, <2>1 DEF Begin
    <3> QED BY <1>1, <3>1, FinishType, PlainType DEF Begin, TypeOK, Types, LibraryErrors
  <2>2. CASE ~ (c \in Posts /\ KeyOf[c] = InvalidKey)
    BY <1>1, <2>2 DEF Begin, TypeOK, PCs
  <2> QED BY <2>1, <2>2
<1>2. ASSUME NEW c \in Calls, Send(c) PROVE TypeOK'
  <2>1. CASE closed
    <3>1. Finish(c, Plain("RuntimeError"))
      BY <1>2, <2>1 DEF Send
    <3> QED BY <1>2, <2>1, <3>1, FinishType, PlainType DEF Send, TypeOK, Types
  <2>2. CASE ~ closed
    BY <1>2, <2>2, RequestType DEF Send, TypeOK, PCs
  <2> QED BY <2>1, <2>2
<1>u. ASSUME NEW c \in Calls, NEW t \in OutcomeUnknown, Finish(c, Plain(t)),
             UNCHANGED <<retries, closed, requests, executed>>
      PROVE  TypeOK'
  BY <1>u, UnknownType, FinishType DEF TypeOK
<1>s. ASSUME NEW c \in Calls, Sleep(c), UNCHANGED <<retries, closed, requests, executed>>
      PROVE  TypeOK'
  BY <1>s, SleepType DEF TypeOK
<1>3. ASSUME NEW c \in Calls, NEW e \in TransportErrors, ExchangeFails(c, e) PROVE TypeOK'
  <2>1. e \in OutcomeUnknown /\ "OverflowError" \in OutcomeUnknown
    BY DEF OutcomeUnknown, HeaderErrors
  <2>2. Sleep(c) \/ \E t \in OutcomeUnknown : Finish(c, Plain(t))
    BY <1>3, <2>1 DEF ExchangeFails, Backoff
  <2> QED BY <1>3, <1>u, <1>s, <2>2 DEF ExchangeFails
<1>4. ASSUME NEW c \in Calls, Receive(c) PROVE TypeOK'
  <2>1. CheckResponse(reply[c]) \in Results
    BY <1>4, CheckResponseType DEF Receive, Answered, TypeOK
  <2>2. "OverflowError" \in OutcomeUnknown
    BY DEF OutcomeUnknown, HeaderErrors
  <2>3. \/ Sleep(c) \/ Finish(c, Plain("OverflowError")) \/ Finish(c, CheckResponse(reply[c]))
    BY <1>4 DEF Receive, Backoff
  <2>4. CASE Finish(c, CheckResponse(reply[c]))
    BY <1>4, <2>1, <2>4, FinishType DEF Receive, TypeOK
  <2> QED BY <1>4, <1>u, <1>s, <2>2, <2>3, <2>4 DEF Receive
<1>5. ASSUME NEW c \in Calls,
             \/ \E e \in BuildErrors : BuildFails(c, e)
             \/ \E e \in HeaderErrors : BadRetryAfter(c, e)
             \/ BadBody(c) \/ BadEncoding(c)
      PROVE TypeOK'
  BY <1>5, <1>u DEF BuildFails, BadRetryAfter, BadBody, BadEncoding, OutcomeUnknown
<1>6. ASSUME NEW c \in Calls, Wake(c) PROVE TypeOK'
  BY <1>6 DEF Wake, TypeOK, PCs
<1>7. ASSUME NEW c \in Calls, Cancel(c) PROVE TypeOK'
  BY <1>7, FinishType, PlainType DEF Cancel, TypeOK, Types
<1>8. ASSUME NEW r \in requests, NEW s \in Statuses, Handle(r, s) PROVE TypeOK'
  <2>1. r \in [call : Calls, attempt : Nat, key : Keys \cup {NoKey, InvalidKey}]
    BY DEF TypeOK
  <2>2. executed' \subseteq [call : Posts, attempt : Nat, key : Keys \cup {NoKey, InvalidKey}]
    BY <1>8, <2>1 DEF Handle, Effect, TypeOK
  <2>3. reply' \in [Calls -> Statuses \cup {NoReply}]
    BY <1>8, <2>1 DEF Handle, TypeOK
  <2> QED BY <1>8, <2>2, <2>3 DEF Handle, TypeOK
<1>9. CASE Close
  BY <1>9 DEF Close, callVars, TypeOK
<1>10. CASE UNCHANGED vars
  BY <1>10 DEF vars, TypeOK
<1> QED
  BY <1>1, <1>2, <1>3, <1>4, <1>5, <1>6, <1>7, <1>8, <1>9, <1>10 DEF Next, Client

\* Type correctness.
THEOREM TypeCorrect == Spec => []TypeOK
BY TypeInit, TypeStep, PTL DEF Spec
-----------------------------------------------------------------------------
(***************************************************************************)
(* The inductive invariant.  A step of a call either ends it (Finish) or   *)
(* puts it to sleep (Sleep) or is one of Begin, Send and Wake; the first   *)
(* two are treated once, for all the actions that take them.               *)
(***************************************************************************)
LEMMA InvInit == Init => IInv
<1> SUFFICES ASSUME Init PROVE IInv
  OBVIOUS
<1>1. TypeOK
  BY TypeInit
<1>2. NoReply \notin Success /\ NoReply \notin Unprocessed
  BY StatusesAssumption DEF NoReply, Success
<1>3. PendingHasNoResult /\ KeyIsValid /\ ReplyIsAwaited /\ OneOpenCall
  BY DEF Init, PendingHasNoResult, KeyIsValid, ReplyIsAwaited, OneOpenCall, Calls
<1>4. SleepWithinBudget
  BY RetriesAssumption DEF Init, SleepWithinBudget, RetryConfig
<1>5. EntriesAreKeyed /\ OneChargePerKey
  BY DEF Init, EntriesAreKeyed, OneChargePerKey, Entries
<1>6. SuccessIsCharged /\ AnsweredIsHandled
  BY <1>2 DEF Init, SuccessIsCharged, AnsweredIsHandled, Plain, Calls
<1>7. OneLiveAttempt /\ HandledOnce /\ QuietRefusal
  BY DEF Init, OneLiveAttempt, HandledOnce, QuietRefusal, Entries
<1> QED BY <1>1, <1>3, <1>4, <1>5, <1>6, <1>7 DEF IInv

\* What ending a call changes, call by call.
LEMMA FinishEffect ==
  ASSUME TypeOK, NEW c \in Calls, NEW res, Finish(c, res)
  PROVE  /\ pc'[c] = "done" /\ result'[c] = res /\ reply'[c] = NoReply
         /\ attempt' = attempt
         /\ \A d \in Calls \ {c} :
              pc'[d] = pc[d] /\ result'[d] = result[d] /\ reply'[d] = reply[d]
BY DEF TypeOK, Finish

\* What putting a call to sleep changes, call by call.
LEMMA SleepEffect ==
  ASSUME TypeOK, NEW c \in Calls, Sleep(c)
  PROVE  /\ pc'[c] = "sleep" /\ reply'[c] = NoReply
         /\ attempt' = attempt /\ result' = result
         /\ \A d \in Calls \ {c} : pc'[d] = pc[d] /\ reply'[d] = reply[d]
BY DEF TypeOK, Sleep

\* A result that is not there yet refuses nothing.
LEMMA NoneIsNoRefusal == ~ Refused(Plain("none")) /\ Plain("none").type = "none"
BY DEF Refused, Plain

\* The absence of an answer is neither a success nor a refusal.
LEMMA NoReplyIsNoStatus == NoReply \notin Success /\ NoReply \notin Unprocessed
BY StatusesAssumption DEF NoReply, Success

\* The calls named by the entries.
LEMMA EntryCalls ==
  ASSUME TypeOK
  PROVE  /\ \A r \in Entries : r.call \in Calls /\ r.attempt \in Nat
         /\ \A e \in executed : e.call \in Posts
         /\ Posts \subseteq Calls
BY DEF TypeOK, Entries, Calls

\* A call that returns or raises keeps the invariant, if what it says of the
\* gateway (refused, ok) is so.
LEMMA FinishStep ==
  ASSUME IInv, TypeOK', NEW c \in Calls, NEW res \in Results,
         Finish(c, res), UNCHANGED <<retries, requests, executed>>,
         pc[c] # "done",
         pc[c] # "idle" \/ Refused(res),
         res.type = "ok" => reply[c] # NoReply,
         c \in Posts /\ res.type = "ok" =>
           \E e \in executed : OrderOf[e.call] = OrderOf[c],
         HonestGateway /\ PostsNotIdempotent /\ c \in Posts /\ Refused(res) =>
           \A r \in Entries : r.call # c
  PROVE  IInv'
<1>1. /\ pc'[c] = "done" /\ result'[c] = res /\ reply'[c] = NoReply
      /\ attempt' = attempt
      /\ \A d \in Calls \ {c} :
           pc'[d] = pc[d] /\ result'[d] = result[d] /\ reply'[d] = reply[d]
  BY FinishEffect DEF IInv
<1>2. Entries' = Entries /\ \A r \in Entries : r.call \in Calls
  BY EntryCalls DEF Entries, IInv
<1>3. PendingHasNoResult'
  BY <1>1 DEF IInv, PendingHasNoResult
<1>4. SleepWithinBudget'
  BY <1>1 DEF IInv, SleepWithinBudget
<1>5. KeyIsValid'
  BY <1>1 DEF IInv, KeyIsValid, Calls
<1>6. EntriesAreKeyed'
  BY <1>1, <1>2 DEF IInv, EntriesAreKeyed
<1>7. ReplyIsAwaited'
  BY <1>1 DEF IInv, ReplyIsAwaited
<1>8. SuccessIsCharged' /\ AnsweredIsHandled'
  BY <1>1, NoReplyIsNoStatus DEF IInv, SuccessIsCharged, AnsweredIsHandled, Calls
<1>9. OneOpenCall'
  <2> SUFFICES ASSUME NEW a \in Posts, NEW b \in Posts, a # b, OrderOf[a] = OrderOf[b],
                      pc'[a] # "idle", pc'[b] # "idle"
               PROVE  \/ Refused(result'[a]) \/ Refused(result'[b])
                      \/ GatewayHonoursKeys /\ SameKey(a, b)
    BY DEF OneOpenCall
  <2>1. a \in Calls /\ b \in Calls
    BY DEF Calls
  <2>2. CASE pc[c] = "idle"
    BY <1>1, <2>1, <2>2 DEF IInv, OneOpenCall
  <2>3. CASE pc[c] # "idle"
    <3>1. ~ Refused(result[c])
      BY NoneIsNoRefusal DEF IInv, PendingHasNoResult
    <3> QED BY <1>1, <2>1, <2>3, <3>1 DEF IInv, OneOpenCall
  <2> QED BY <2>2, <2>3
<1>10. OneChargePerKey'
  BY DEF IInv, OneChargePerKey
<1>11. ASSUME HonestGateway, PostsNotIdempotent'
       PROVE  OneLiveAttempt' /\ HandledOnce' /\ QuietRefusal'
  <2>1. OneLiveAttempt /\ HandledOnce /\ QuietRefusal
    BY <1>11 DEF IInv, PostsNotIdempotent
  <2>2. OneLiveAttempt'
    BY <1>1, <1>2, <1>11, <2>1 DEF OneLiveAttempt, PostsNotIdempotent
  <2>3. QuietRefusal'
    BY <1>1, <1>2, <2>1, NoReplyIsNoStatus DEF QuietRefusal, Calls
  <2> QED BY <2>1, <2>2, <2>3 DEF HandledOnce
<1> QED
  BY <1>3, <1>4, <1>5, <1>6, <1>7, <1>8, <1>9, <1>10, <1>11 DEF IInv, HonestGateway

\* A call that will try again keeps it, if a POST is sure that nothing is left
\* of the attempt it gives up.
LEMMA SleepStep ==
  ASSUME IInv, TypeOK', NEW c \in Calls, Sleep(c),
         UNCHANGED <<retries, requests, executed>>,
         pc[c] \in {"ready", "await"},
         attempt[c] < retries.max_retries,
         HonestGateway /\ PostsNotIdempotent /\ c \in Posts =>
           \A r \in Entries : r.call # c
  PROVE  IInv'
<1>1. /\ pc'[c] = "sleep" /\ reply'[c] = NoReply
      /\ attempt' = attempt /\ result' = result
      /\ \A d \in Calls \ {c} : pc'[d] = pc[d] /\ reply'[d] = reply[d]
  BY SleepEffect DEF IInv
<1>2. Entries' = Entries /\ \A r \in Entries : r.call \in Calls
  BY EntryCalls DEF Entries, IInv
<1>3. PendingHasNoResult'
  BY <1>1 DEF IInv, PendingHasNoResult
<1>4. SleepWithinBudget'
  BY <1>1 DEF IInv, SleepWithinBudget
<1>5. KeyIsValid'
  BY <1>1 DEF IInv, KeyIsValid, Calls
<1>6. EntriesAreKeyed'
  BY <1>1, <1>2 DEF IInv, EntriesAreKeyed
<1>7. ReplyIsAwaited'
  BY <1>1 DEF IInv, ReplyIsAwaited
<1>8. SuccessIsCharged' /\ AnsweredIsHandled'
  BY <1>1, NoReplyIsNoStatus DEF IInv, SuccessIsCharged, AnsweredIsHandled, Calls
<1>9. OneOpenCall'
  BY <1>1 DEF IInv, OneOpenCall, Calls
<1>10. OneChargePerKey'
  BY DEF IInv, OneChargePerKey
<1>11. ASSUME HonestGateway, PostsNotIdempotent'
       PROVE  OneLiveAttempt' /\ HandledOnce' /\ QuietRefusal'
  <2>1. OneLiveAttempt /\ HandledOnce /\ QuietRefusal
    BY <1>11 DEF IInv, PostsNotIdempotent
  <2>2. OneLiveAttempt'
    BY <1>1, <1>2, <1>11, <2>1 DEF OneLiveAttempt, PostsNotIdempotent
  <2>3. QuietRefusal'
    BY <1>1, <1>2, <2>1, NoReplyIsNoStatus DEF QuietRefusal, Calls
  <2> QED BY <2>1, <2>2, <2>3 DEF HandledOnce
<1> QED
  BY <1>3, <1>4, <1>5, <1>6, <1>7, <1>8, <1>9, <1>10, <1>11 DEF IInv, HonestGateway

\* A call that passes its own checks keeps it, thanks to what the merchant
\* must know before it submits an order again.
LEMMA BeginStep ==
  ASSUME IInv, TypeOK', NEW c \in Calls, Begin(c)
  PROVE  IInv'
<1>1. pc[c] = "idle" /\ MaySubmit(c) /\ UNCHANGED <<retries, requests, executed>>
  BY DEF Begin
<1>2. CASE c \in Posts /\ KeyOf[c] = InvalidKey
  <2>1. Finish(c, Plain("SIBSValidationError"))
    BY <1>2 DEF Begin
  <2>2. Plain("SIBSValidationError") \in Results
    BY PlainType DEF Types, LibraryErrors
  <2>3. /\ Refused(Plain("SIBSValidationError"))
        /\ Plain("SIBSValidationError").type # "ok"
    BY DEF Refused, Plain
  <2>4. \A r \in Entries : r.call # c
    BY <1>1 DEF IInv, EntriesAreKeyed
  <2> QED BY <1>1, <2>1, <2>2, <2>3, <2>4, FinishStep
<1>3. CASE ~ (c \in Posts /\ KeyOf[c] = InvalidKey)
  <2>1. /\ pc' = [pc EXCEPT ![c] = "ready"]
        /\ UNCHANGED <<attempt, result, reply>>
    BY <1>3 DEF Begin
  <2>2. pc'[c] = "ready" /\ \A d \in Calls \ {c} : pc'[d] = pc[d]
    BY <2>1 DEF IInv, TypeOK
  <2>3. Entries' = Entries /\ \A r \in Entries : r.call \in Calls
    BY <1>1, EntryCalls DEF Entries, IInv
  <2>4. PendingHasNoResult' /\ SleepWithinBudget' /\ ReplyIsAwaited'
    BY <1>1, <2>1, <2>2
       DEF IInv, PendingHasNoResult, SleepWithinBudget, ReplyIsAwaited
  <2>5. KeyIsValid'
    BY <1>3, <2>2 DEF IInv, KeyIsValid, Calls
  <2>6. EntriesAreKeyed'
    BY <1>1, <2>2, <2>3 DEF IInv, EntriesAreKeyed
  <2>7. SuccessIsCharged' /\ AnsweredIsHandled' /\ OneChargePerKey'
    BY <1>1, <2>1 DEF IInv, SuccessIsCharged, AnsweredIsHandled, OneChargePerKey
  <2>8. OneOpenCall'
    <3> SUFFICES ASSUME NEW a \in Posts, NEW b \in Posts, a # b, OrderOf[a] = OrderOf[b],
                        pc'[a] # "idle", pc'[b] # "idle"
                 PROVE  \/ Refused(result[a]) \/ Refused(result[b])
                        \/ GatewayHonoursKeys /\ SameKey(a, b)
      BY <2>1 DEF OneOpenCall
    <3>1. CASE a = c
      BY <1>1, <2>2, <3>1 DEF MaySubmit, Calls
    <3>2. CASE b = c
      BY <1>1, <2>2, <3>2 DEF MaySubmit, SameKey, Calls
    <3>3. CASE a # c /\ b # c
      BY <2>2, <3>3 DEF IInv, OneOpenCall, Calls
    <3> QED BY <3>1, <3>2, <3>3
  <2>9. ASSUME HonestGateway, PostsNotIdempotent'
        PROVE  OneLiveAttempt' /\ HandledOnce' /\ QuietRefusal'
    <3>1. OneLiveAttempt /\ HandledOnce /\ QuietRefusal
      BY <1>1, <2>9 DEF IInv, PostsNotIdempotent
    <3>2. OneLiveAttempt'
      BY <1>1, <2>1, <2>2, <2>3, <3>1 DEF OneLiveAttempt
    <3> QED BY <1>1, <2>1, <2>3, <3>1, <3>2 DEF HandledOnce, QuietRefusal
  <2> QED
    BY <2>4, <2>5, <2>6, <2>7, <2>8, <2>9 DEF IInv, HonestGateway
<1> QED BY <1>2, <1>3

\* An attempt is sent only when no other is left, so it keeps the invariant.
LEMMA SendStep ==
  ASSUME IInv, TypeOK', NEW c \in Calls, Send(c)
  PROVE  IInv'
<1>1. pc[c] = "ready" /\ UNCHANGED <<retries, executed>>
  BY DEF Send
<1>2. HonestGateway /\ PostsNotIdempotent /\ c \in Posts => \A r \in Entries : r.call # c
  BY <1>1 DEF IInv, OneLiveAttempt
<1>3. CASE closed
  <2>1. Finish(c, Plain("RuntimeError")) /\ UNCHANGED requests
    BY <1>3 DEF Send
  <2>2. Plain("RuntimeError") \in Results /\ Plain("RuntimeError").type # "ok"
    BY PlainType DEF Types, Plain
  <2> QED BY <1>1, <1>2, <2>1, <2>2, FinishStep
<1>4. CASE ~ closed
  <2>1. /\ requests' = requests \cup {Request(c)}
        /\ pc' = [pc EXCEPT ![c] = "await"]
        /\ UNCHANGED <<attempt, result, reply>>
    BY <1>4 DEF Send
  <2>2. pc'[c] = "await" /\ \A d \in Calls \ {c} : pc'[d] = pc[d]
    BY <2>1 DEF IInv, TypeOK
  <2>3. /\ Entries' = Entries \cup {Request(c)}
        /\ \A r \in Entries : r.call \in Calls
    BY <1>1, <2>1, EntryCalls DEF Entries, IInv
  <2>4. /\ Request(c).call = c /\ Request(c).attempt = attempt[c]
        /\ Request(c).key = WireKey(c, attempt[c])
    BY DEF Request
  <2>5. reply[c] = NoReply
    BY <1>1 DEF IInv, ReplyIsAwaited
  <2>6. PendingHasNoResult' /\ SleepWithinBudget' /\ ReplyIsAwaited'
    BY <1>1, <2>1, <2>2
       DEF IInv, PendingHasNoResult, SleepWithinBudget, ReplyIsAwaited
  <2>7. KeyIsValid'
    BY <1>1, <2>2 DEF IInv, KeyIsValid, Calls
  <2>8. EntriesAreKeyed'
    <3> SUFFICES ASSUME NEW r \in Entries'
                 PROVE  /\ pc'[r.call] # "idle"
                        /\ r.key = WireKey(r.call, r.attempt)
                        /\ r.call \in Posts => KeyOf[r.call] # InvalidKey
      BY DEF EntriesAreKeyed
    <3>1. CASE r = Request(c)
      BY <1>1, <2>2, <2>4, <3>1 DEF IInv, KeyIsValid
    <3>2. CASE r \in Entries
      BY <2>2, <2>3, <3>2 DEF IInv, EntriesAreKeyed
    <3> QED BY <2>3, <3>1, <3>2
  <2>9. SuccessIsCharged' /\ OneChargePerKey'
    BY <1>1, <2>1 DEF IInv, SuccessIsCharged, OneChargePerKey
  <2>10. OneOpenCall'
    BY <1>1, <2>1, <2>2 DEF IInv, OneOpenCall, Calls
  <2>11. AnsweredIsHandled'
    BY <1>1, <2>1, <2>4, <2>5, NoneIsNoRefusal
       DEF IInv, AnsweredIsHandled, PendingHasNoResult
  <2>12. ASSUME HonestGateway, PostsNotIdempotent'
         PROVE  OneLiveAttempt' /\ HandledOnce' /\ QuietRefusal'
    <3>1. OneLiveAttempt /\ HandledOnce /\ QuietRefusal /\ PostsNotIdempotent
      BY <1>1, <2>12 DEF IInv, PostsNotIdempotent
    <3>2. OneLiveAttempt'
      <4> SUFFICES ASSUME NEW r \in Entries', r.call \in Posts
                   PROVE  /\ r.attempt = attempt[r.call]
                          /\ pc'[r.call] \in {"await", "done"}
                          /\ ~ Refused(result[r.call])
        BY <2>1 DEF OneLiveAttempt
      <4>1. CASE r = Request(c)
        BY <1>1, <2>2, <2>4, <4>1, NoneIsNoRefusal DEF IInv, PendingHasNoResult
      <4>2. CASE r \in Entries
        BY <2>2, <2>3, <3>1, <4>2 DEF OneLiveAttempt
      <4> QED BY <2>3, <4>1, <4>2
    <3>3. HandledOnce'
      <4>1. c \in Posts => Request(c) \notin executed
        BY <1>2, <2>4, <2>12, <3>1 DEF Entries
      <4>2. c \notin Posts => Request(c) \notin executed
        BY <2>4, EntryCalls DEF IInv
      <4> QED BY <1>1, <2>1, <3>1, <4>1, <4>2 DEF HandledOnce
    <3>4. QuietRefusal'
      BY <2>1, <2>3, <2>4, <2>5, <3>1, NoReplyIsNoStatus DEF QuietRefusal
    <3> QED BY <3>2, <3>3, <3>4
  <2> QED
    BY <2>6, <2>7, <2>8, <2>9, <2>10, <2>11, <2>12 DEF IInv, HonestGateway
<1> QED BY <1>3, <1>4

\* Counting the next attempt keeps it: a sleeping POST has no entry left.
LEMMA WakeStep ==
  ASSUME IInv, TypeOK', NEW c \in Calls, Wake(c)
  PROVE  IInv'
<1>1. /\ pc[c] = "sleep"
      /\ pc' = [pc EXCEPT ![c] = "ready"]
      /\ attempt' = [attempt EXCEPT ![c] = @ + 1]
      /\ UNCHANGED <<retries, closed, result, reply, requests, executed>>
  BY DEF Wake
<1>2. /\ pc'[c] = "ready" /\ attempt'[c] = attempt[c] + 1
      /\ \A d \in Calls \ {c} : pc'[d] = pc[d] /\ attempt'[d] = attempt[d]
  BY <1>1 DEF IInv, TypeOK
<1>3. Entries' = Entries /\ \A r \in Entries : r.call \in Calls
  BY <1>1, EntryCalls DEF Entries, IInv
<1>4. PendingHasNoResult' /\ ReplyIsAwaited'
  BY <1>1, <1>2 DEF IInv, PendingHasNoResult, ReplyIsAwaited
<1>5. SleepWithinBudget'
  <2>1. attempt[c] \in Nat /\ retries.max_retries \in Nat
    BY RetriesAssumption DEF IInv, TypeOK, RetryConfig
  <2> QED BY <1>1, <1>2, <2>1 DEF IInv, SleepWithinBudget
<1>6. KeyIsValid'
  BY <1>1, <1>2 DEF IInv, KeyIsValid, Calls
<1>7. EntriesAreKeyed'
  BY <1>1, <1>2, <1>3 DEF IInv, EntriesAreKeyed
<1>8. SuccessIsCharged' /\ OneChargePerKey'
  BY <1>1 DEF IInv, SuccessIsCharged, OneChargePerKey
<1>9. AnsweredIsHandled'
  BY <1>1, <1>2, NoneIsNoRefusal
     DEF IInv, AnsweredIsHandled, PendingHasNoResult, ReplyIsAwaited
<1>10. OneOpenCall'
  BY <1>1, <1>2 DEF IInv, OneOpenCall, Calls
<1>11. ASSUME HonestGateway, PostsNotIdempotent'
       PROVE  OneLiveAttempt' /\ HandledOnce' /\ QuietRefusal'
  <2>1. OneLiveAttempt /\ HandledOnce /\ QuietRefusal
    BY <1>1, <1>11 DEF IInv, PostsNotIdempotent
  <2>2. OneLiveAttempt'
    BY <1>1, <1>2, <1>3, <2>1 DEF OneLiveAttempt
  <2> QED BY <1>1, <1>3, <2>1, <2>2 DEF HandledOnce, QuietRefusal
<1> QED
  BY <1>4, <1>5, <1>6, <1>7, <1>8, <1>9, <1>10, <1>11 DEF IInv, HonestGateway

\* Two entries of one call and one attempt are one request.
LEMMA EntryDetermined ==
  ASSUME IInv, NEW q \in Entries, NEW r \in Entries,
         q.call = r.call, q.attempt = r.attempt
  PROVE  q = r
<1>1. q.key = r.key
  BY DEF IInv, EntriesAreKeyed
<1>2. {q, r} \subseteq [call : Calls, attempt : Nat, key : Keys \cup {NoKey, InvalidKey}]
  BY DEF IInv, TypeOK, Entries, Calls
<1> QED BY <1>1, <1>2

\* Entries under one key are for one order.
LEMMA KeyedEntries ==
  ASSUME IInv, NEW q \in Entries, NEW r \in Entries,
         q.call \in Posts, r.call \in Posts, q.key = r.key, r.key # NoKey
  PROVE  OrderOf[q.call] = OrderOf[r.call]
<1>1. q.key = KeyOf[q.call] /\ r.key = KeyOf[r.call] /\ KeyOf[r.call] # InvalidKey
  BY DEF IInv, EntriesAreKeyed, WireKey, BuildIdempotencyHeaders
<1> QED BY <1>1, KeysAssumption, KeysNameOrders

\* The gateway handles a request, for whatever status it answers, and keeps it.
LEMMA HandleStep ==
  ASSUME IInv, TypeOK', NEW r \in requests, NEW s \in Statuses, Handle(r, s)
  PROVE  IInv'
<1>1. /\ requests' = requests \ {r}
      /\ UNCHANGED <<retries, closed, pc, attempt, result>>
      /\ executed' = executed \/ executed' = executed \cup Effect(r)
      /\ s \in Success => executed' = executed \cup Effect(r)
      /\ s \in Unprocessed => executed' = executed
  BY StatusesAssumption DEF Handle
<1>2. Effect(r) \subseteq {r} /\ executed \subseteq executed' /\ executed' \subseteq executed \cup {r}
  BY <1>1 DEF Effect
<1>3. r \in Entries /\ Entries' \subseteq Entries /\ r.call \in Calls
  BY <1>1, <1>2, EntryCalls DEF Entries, IInv
<1>4. ASSUME NEW c \in Calls
      PROVE  \/ reply'[c] = reply[c]
             \/ c = r.call /\ Awaited(r) /\ reply'[c] = s
  BY DEF Handle, IInv, TypeOK
<1>5. PendingHasNoResult' /\ SleepWithinBudget' /\ KeyIsValid' /\ OneOpenCall'
  BY <1>1 DEF IInv, PendingHasNoResult, SleepWithinBudget, KeyIsValid, OneOpenCall
<1>6. EntriesAreKeyed'
  BY <1>1, <1>3 DEF IInv, EntriesAreKeyed
<1>7. ReplyIsAwaited'
  BY <1>1, <1>4 DEF IInv, ReplyIsAwaited, Awaited
<1>8. SuccessIsCharged'
  <2> SUFFICES ASSUME NEW c \in Posts, reply'[c] \in Success \/ result[c].type = "ok"
               PROVE  \E e \in executed' : OrderOf[e.call] = OrderOf[c]
    BY <1>1 DEF SuccessIsCharged
  <2>1. CASE reply[c] \in Success \/ result[c].type = "ok"
    BY <1>2, <2>1 DEF IInv, SuccessIsCharged
  <2>2. CASE c = r.call /\ s \in Success /\ r \in executed'
    BY <2>2
  <2>3. CASE c = r.call /\ s \in Success /\ r \notin executed'
    <3>1. Replayed(r)
      BY <1>1, <2>3 DEF Effect
    <3>2. PICK e \in executed : e.key = r.key /\ r.key # NoKey
      BY <3>1 DEF Replayed
    <3>3. e \in Entries /\ e.call \in Posts
      BY EntryCalls DEF Entries, IInv
    <3> QED BY <1>2, <1>3, <2>3, <3>2, <3>3, KeyedEntries
  <2> QED BY <1>4, <2>1, <2>2, <2>3 DEF Calls
<1>9. AnsweredIsHandled'
  <2> SUFFICES ASSUME NEW c \in Calls, reply'[c] # NoReply \/ result[c].type = "ok",
                      NEW q \in requests', q.call = c, q.attempt = attempt[c]
               PROVE  FALSE
    BY <1>1 DEF AnsweredIsHandled
  <2>1. q \in requests /\ q # r /\ q \in Entries
    BY <1>1 DEF Entries
  <2>2. CASE reply'[c] = reply[c]
    BY <2>1, <2>2 DEF IInv, AnsweredIsHandled
  <2>3. CASE c = r.call /\ Awaited(r)
    BY <1>3, <2>1, <2>3, EntryDetermined DEF Awaited
  <2> QED BY <1>4, <2>2, <2>3
<1>10. OneChargePerKey'
  <2> SUFFICES ASSUME GatewayHonoursKeys, NEW e \in executed', NEW f \in executed',
                      e.key = f.key, e.key # NoKey
               PROVE  e = f
    BY DEF OneChargePerKey
  <2>1. CASE executed' = executed
    BY <2>1 DEF IInv, OneChargePerKey
  <2>2. CASE executed' # executed
    <3>1. ~ Replayed(r) /\ executed' = executed \cup {r}
      BY <1>1, <2>2 DEF Effect
    <3> QED BY <3>1 DEF Replayed, IInv, OneChargePerKey
  <2> QED BY <2>1, <2>2
<1>11. ASSUME HonestGateway, PostsNotIdempotent'
       PROVE  OneLiveAttempt' /\ HandledOnce' /\ QuietRefusal'
  <2>1. OneLiveAttempt /\ HandledOnce /\ QuietRefusal
    BY <1>1, <1>11 DEF IInv, PostsNotIdempotent
  <2>2. OneLiveAttempt'
    BY <1>1, <1>3, <2>1 DEF OneLiveAttempt
  <2>3. HandledOnce'
    BY <1>1, <1>2, <2>1 DEF HandledOnce
  <2>4. QuietRefusal'
    <3> SUFFICES ASSUME NEW c \in Posts, reply'[c] \in Unprocessed,
                        NEW q \in Entries', q.call = c
                 PROVE  FALSE
      BY DEF QuietRefusal
    <3>1. q \in Entries /\ c \in Calls
      BY <1>3 DEF Calls
    <3>2. CASE reply'[c] = reply[c]
      BY <2>1, <3>1, <3>2 DEF QuietRefusal
    <3>3. CASE c = r.call /\ Awaited(r) /\ s \in Unprocessed
      <4>1. q.attempt = r.attempt
        BY <2>1, <3>1, <3>3 DEF OneLiveAttempt, Awaited
      <4>2. q = r
        BY <1>3, <3>1, <3>3, <4>1, EntryDetermined
      <4> QED BY <1>1, <2>1, <3>3, <4>2 DEF Entries, HandledOnce
    <3> QED BY <1>4, <3>1, <3>2, <3>3
  <2> QED BY <2>2, <2>3, <2>4
<1> QED
  BY <1>5, <1>6, <1>7, <1>8, <1>9, <1>10, <1>11 DEF IInv, HonestGateway

\* A call that ends with an exception that tells the merchant nothing keeps it.
LEMMA UnknownStep ==
  ASSUME IInv, TypeOK', NEW c \in Calls, NEW t \in OutcomeUnknown, Finish(c, Plain(t)),
         pc[c] \in {"ready", "await", "sleep"},
         UNCHANGED <<retries, requests, executed>>
  PROVE  IInv'
<1>1. Plain(t) \in Results /\ ~ Refused(Plain(t)) /\ Plain(t).type # "ok"
  BY UnknownType
<1> QED BY <1>1, FinishStep

\* A call that fails in transit sleeps only when its method is idempotent;
\* a POST that is not idempotent sleeps only after an answer that says that
\* nothing was done.
LEMMA ExchangeFailsStep ==
  ASSUME IInv, TypeOK', NEW c \in Calls, NEW e \in TransportErrors, ExchangeFails(c, e)
  PROVE  IInv'
<1>1. pc[c] \in {"ready", "await"} /\ UNCHANGED <<retries, requests, executed>>
  BY DEF ExchangeFails
<1>2. e \in OutcomeUnknown /\ "OverflowError" \in OutcomeUnknown
  BY DEF OutcomeUnknown, HeaderErrors
<1>3. CASE Sleep(c) /\ ShouldRetryException(retries, Method(c), attempt[c])
  <2>1. attempt[c] < retries.max_retries
    BY <1>3 DEF ShouldRetryException
  <2>2. PostsNotIdempotent => c \notin Posts
    BY <1>3 DEF ShouldRetryException, IsIdempotent, Method, PostsNotIdempotent
  <2> QED BY <1>1, <1>3, <2>1, <2>2, SleepStep
<1>4. CASE Finish(c, Plain("OverflowError")) \/ Finish(c, Plain(e))
  BY <1>1, <1>2, <1>4, UnknownStep
<1> QED BY <1>3, <1>4 DEF ExchangeFails, Backoff

\* An honest gateway has done nothing when _check_response reports a refusal.
LEMMA RefusingStatus ==
  ASSUME HonestGateway, NEW s \in Statuses, Refused(CheckResponse(s))
  PROVE  s \in Unprocessed
BY DEF HonestGateway, ALWAYS_SAFE_STATUSES, Refused, CheckResponse, MapStatusError, Plain

\* _check_response returns normally only for a 2xx.
LEMMA OkStatus ==
  ASSUME NEW s \in Statuses, CheckResponse(s).type = "ok"
  PROVE  s \in Success
BY DEF CheckResponse, MapStatusError, Plain

\* An answer that is received, retried or reported keeps the invariant.
LEMMA ReceiveStep ==
  ASSUME IInv, TypeOK', NEW c \in Calls, Receive(c)
  PROVE  IInv'
<1>1. /\ pc[c] = "await" /\ reply[c] \in Statuses
      /\ UNCHANGED <<retries, requests, executed>>
  BY DEF Receive, Answered, IInv, TypeOK
<1>2. CASE Sleep(c) /\ ShouldRetryStatus(retries, Method(c), reply[c], attempt[c])
  <2>1. attempt[c] < retries.max_retries
    BY <1>2 DEF ShouldRetryStatus
  <2>2. HonestGateway /\ PostsNotIdempotent /\ c \in Posts => reply[c] \in Unprocessed
    BY <1>2 DEF ShouldRetryStatus, IsIdempotent, Method, PostsNotIdempotent, HonestGateway
  <2>3. HonestGateway /\ PostsNotIdempotent /\ c \in Posts => \A r \in Entries : r.call # c
    BY <2>2 DEF IInv, QuietRefusal
  <2> QED BY <1>1, <1>2, <2>1, <2>3, SleepStep
<1>3. CASE Finish(c, CheckResponse(reply[c]))
  <2>1. CheckResponse(reply[c]) \in Results
    BY <1>1, CheckResponseType
  <2>2. reply[c] # NoReply
    BY <1>3 DEF Receive, Answered
  <2>3. c \in Posts /\ CheckResponse(reply[c]).type = "ok" =>
          \E e \in executed : OrderOf[e.call] = OrderOf[c]
    BY <1>1, OkStatus DEF IInv, SuccessIsCharged
  <2>4. HonestGateway /\ PostsNotIdempotent /\ c \in Posts /\ Refused(CheckResponse(reply[c])) =>
          \A r \in Entries : r.call # c
    BY <1>1, RefusingStatus DEF IInv, QuietRefusal
  <2> QED BY <1>1, <1>3, <2>1, <2>2, <2>3, <2>4, FinishStep
<1>4. CASE Finish(c, Plain("OverflowError"))
  <2>1. "OverflowError" \in OutcomeUnknown
    BY DEF OutcomeUnknown, HeaderErrors
  <2> QED BY <1>1, <1>4, <2>1, UnknownStep
<1> QED BY <1>2, <1>3, <1>4 DEF Receive, Retried, Backoff

\* Every step keeps the invariant.
LEMMA InvStep == IInv /\ [Next]_vars => IInv'
<1> SUFFICES ASSUME IInv, [Next]_vars PROVE IInv'
  OBVIOUS
<1>1. TypeOK'
  BY TypeStep DEF IInv
<1>2. ASSUME NEW c \in Calls,
             \/ \E e \in BuildErrors : BuildFails(c, e)
             \/ \E e \in HeaderErrors : BadRetryAfter(c, e)
             \/ BadBody(c) \/ BadEncoding(c) \/ Cancel(c)
      PROVE IInv'
  <2>1. /\ pc[c] \in {"ready", "await", "sleep"}
        /\ UNCHANGED <<retries, requests, executed>>
        /\ \E t \in OutcomeUnknown : Finish(c, Plain(t))
    BY <1>2 DEF BuildFails, BadRetryAfter, BadBody, BadEncoding, Cancel, Answered, OutcomeUnknown
  <2> QED BY <1>1, <2>1, UnknownStep
<1>4. ASSUME Close \/ UNCHANGED vars PROVE IInv'
  <2>1. UNCHANGED <<retries, callVars, requests, executed>>
    BY <1>4 DEF Close, vars, callVars
  <2> QED
    BY <1>1, <2>1
       DEF callVars, IInv, PendingHasNoResult, SleepWithinBudget, KeyIsValid, EntriesAreKeyed,
           ReplyIsAwaited, AnsweredIsHandled, SuccessIsCharged, OneOpenCall,
           OneChargePerKey, OneLiveAttempt,
           HandledOnce, QuietRefusal, PostsNotIdempotent, HonestGateway, Entries
<1> QED
  BY <1>1, <1>2, <1>4, BeginStep, SendStep, ExchangeFailsStep, ReceiveStep, WakeStep,
     HandleStep DEF Next, Client

\* The inductive invariant holds of every behaviour of the client, whatever
\* its configuration and its calls.
THEOREM Invariance == Spec => []IInv
BY InvInit, InvStep, PTL DEF Spec
-----------------------------------------------------------------------------
(***************************************************************************)
(* What follows from it.                                                   *)
(***************************************************************************)
LEMMA InvBudget == IInv => WithinBudget
BY DEF IInv, SleepWithinBudget, WithinBudget

\* No call makes more than 1 + max_retries attempts.
THEOREM BudgetHolds == Spec => []WithinBudget
BY Invariance, InvBudget, PTL

\* Two charges for one order would be two live attempts.
LEMMA InvChargedOnce == IInv => ChargedOnce
<1> SUFFICES ASSUME IInv, HonestGateway, PostsNotIdempotent,
                    NEW e \in executed, NEW f \in executed,
                    OrderOf[e.call] = OrderOf[f.call]
             PROVE  e = f
  BY DEF ChargedOnce
<1>1. /\ {e, f} \subseteq Entries
      /\ {e.call, f.call} \subseteq Posts
  BY EntryCalls DEF IInv, Entries
<1>2. /\ e.attempt = attempt[e.call] /\ f.attempt = attempt[f.call]
      /\ pc[e.call] # "idle" /\ pc[f.call] # "idle"
      /\ ~ Refused(result[e.call]) /\ ~ Refused(result[f.call])
  BY <1>1 DEF IInv, OneLiveAttempt
<1>3. CASE e.call = f.call
  BY <1>1, <1>2, <1>3, EntryDetermined
<1>4. CASE e.call # f.call
  <2>1. GatewayHonoursKeys /\ SameKey(e.call, f.call)
    BY <1>1, <1>2, <1>4 DEF IInv, OneOpenCall
  <2>2. e.key = f.key /\ e.key # NoKey
    BY <1>1, <2>1 DEF IInv, EntriesAreKeyed, SameKey, WireKey
  <2> QED BY <2>1, <2>2 DEF IInv, OneChargePerKey
<1> QED BY <1>3, <1>4

\* An order is charged at most once, with an honest gateway and POST not
\* declared idempotent.
THEOREM ChargedOnceHolds == Spec => []ChargedOnce
BY Invariance, InvChargedOnce, PTL

\* A refused POST has no live attempt.
LEMMA InvRefusal == IInv => RefusalIsFinal
BY DEF IInv, OneLiveAttempt, RefusalIsFinal, Entries

\* A POST reported as refused was not carried out and never will be.
THEOREM RefusalHolds == Spec => []RefusalIsFinal
BY Invariance, InvRefusal, PTL

\* A POST that returned normally has its order charged.
LEMMA InvOk == IInv => OkMeansCharged
BY DEF IInv, SuccessIsCharged, OkMeansCharged

\* A POST that returned normally is for an order that has been charged.
THEOREM OkHolds == Spec => []OkMeansCharged
BY Invariance, InvOk, PTL

\* Two charges for a keyed order carry the same key, so they are one.
LEMMA InvKeyed == IInv => KeyedOnce
<1> SUFFICES ASSUME IInv, IdempotencyHeader, GatewayHonoursKeys,
                    NEW e \in executed, NEW f \in executed,
                    OrderOf[e.call] = OrderOf[f.call], OrderIsKeyed(OrderOf[e.call])
             PROVE  e = f
  BY DEF KeyedOnce
<1>1. {e, f} \subseteq Entries /\ {e.call, f.call} \subseteq Posts
  BY EntryCalls DEF IInv, Entries
<1>2. /\ e.key = KeyOf[e.call] /\ f.key = KeyOf[f.call]
      /\ KeyOf[e.call] # InvalidKey /\ KeyOf[f.call] # InvalidKey
  BY <1>1 DEF IInv, EntriesAreKeyed, WireKey, BuildIdempotencyHeaders
<1>3. PICK k \in Keys : KeyOf[e.call] = k /\ KeyOf[f.call] = k
  BY <1>1, <1>2 DEF OrderIsKeyed
<1> QED BY <1>2, <1>3, KeysAssumption DEF IInv, OneChargePerKey

\* Under one key honoured by the gateway an order is charged at most once,
\* even when POST is declared idempotent or 503 is answered after the fact.
THEOREM KeyedOnceHolds == Spec => []KeyedOnce
BY Invariance, InvKeyed, PTL

\* What is sent is the only live attempt of its call.
LEMMA InvSends == IInv /\ [Next]_vars => [SendsAfterRefusal]_vars
<1> SUFFICES ASSUME IInv, Next, HonestGateway, PostsNotIdempotent,
                    NEW r \in requests' \ requests, r.call \in Posts,
                    NEW q \in requests \cup executed, q.call = r.call
             PROVE  FALSE
  BY DEF SendsAfterRefusal
<1>1. PICK c \in Calls : Send(c)
  BY DEF Next, Client, Begin, BuildFails, ExchangeFails, Receive, BadRetryAfter, BadBody,
         BadEncoding, Wake, Cancel, Close, Handle
<1>2. r = Request(c) /\ pc[c] = "ready"
  BY <1>1 DEF Send
<1>3. r.call = c
  BY <1>2 DEF Request
<1> QED BY <1>2, <1>3 DEF IInv, OneLiveAttempt, Entries

\* A POST is sent again only when no earlier attempt can have an effect.
THEOREM NoOverlapHolds == Spec => NoOverlap
BY Invariance, InvSends, PTL DEF Spec, NoOverlap
-----------------------------------------------------------------------------
(***************************************************************************)
(* The client and an honest gateway implement the charge ledger.           *)
(***************************************************************************)
LedgerBar == {[call |-> e.call, id |-> e.attempt] : e \in executed}
AnswerBar == [c \in Posts |-> AnswerOf(result[c])]

\* The four answers of the ledger, by the results they stand for.
LEMMA AnswerCases ==
  ASSUME NEW res \in Results
  PROVE  /\ AnswerOf(res) \in {"none", "ok", "refused", "unknown"}
         /\ AnswerOf(res) = "none" <=> res.type = "none"
         /\ AnswerOf(res) = "ok" <=> res.type = "ok"
         /\ AnswerOf(res) = "refused" <=> Refused(res)
BY DEF AnswerOf, Refused, Results

\* Initial states map to the initial state of the ledger.
LEMMA LedgerInit == Init => Ledger!Init
<1> SUFFICES ASSUME Init PROVE Ledger!Init
  OBVIOUS
<1>1. Plain("none") \in Results
  BY PlainType DEF Types
<1>2. \A c \in Posts : AnswerOf(result[c]) = "none"
  BY <1>1, AnswerCases, NoneIsNoRefusal DEF Init, Calls
<1>3. LedgerBar = {}
  BY DEF Init, LedgerBar
<1> QED BY <1>2, <1>3 DEF Ledger!Init, LedgerBar

\* A POST that ends is an Answer of the ledger.
LEMMA FinishIsAnswer ==
  ASSUME IInv, IInv', HonestGateway, PostsNotIdempotent,
         NEW c \in Calls, NEW res \in Results, Finish(c, res), res.type # "none",
         pc[c] # "done", UNCHANGED <<retries, requests, executed>>
  PROVE  [Ledger!Next]_<<LedgerBar, AnswerBar>>
<1>1. /\ pc'[c] = "done" /\ result'[c] = res
      /\ \A d \in Calls \ {c} : result'[d] = result[d]
  BY FinishEffect DEF IInv
<1>2. LedgerBar' = LedgerBar
  BY DEF LedgerBar
<1>3. CASE c \notin Posts
  <2>1. \A d \in Posts : AnswerOf(result'[d]) = AnswerOf(result[d])
    BY <1>1, <1>3 DEF Calls
  <2>2. AnswerBar' = AnswerBar
    BY <2>1 DEF AnswerBar
  <2> QED BY <1>2, <2>2
<1>4. CASE c \in Posts
  <2>1. AnswerBar' = [AnswerBar EXCEPT ![c] = AnswerOf(res)]
    <3>1. \A d \in Posts : AnswerOf(result'[d]) = IF d = c THEN AnswerOf(res) ELSE AnswerOf(result[d])
      BY <1>1 DEF Calls
    <3> QED BY <3>1 DEF AnswerBar
  <2>2. AnswerBar[c] = "none"
    <3>1. result[c] = Plain("none") /\ Plain("none") \in Results
      BY PlainType DEF IInv, PendingHasNoResult, Types
    <3> QED BY <1>4, <3>1, AnswerCases, NoneIsNoRefusal DEF AnswerBar
  <2>3. AnswerOf(res) \in {"ok", "refused", "unknown"}
    BY AnswerCases
  <2>4. AnswerOf(res) = "ok" => \E e \in LedgerBar : OrderOf[e.call] = OrderOf[c]
    <3> SUFFICES ASSUME res.type = "ok"
                 PROVE  \E e \in LedgerBar : OrderOf[e.call] = OrderOf[c]
      BY AnswerCases
    <3>1. PICK e \in executed : OrderOf[e.call] = OrderOf[c]
      BY <1>1, <1>4 DEF IInv, SuccessIsCharged
    <3>2. [call |-> e.call, id |-> e.attempt] \in LedgerBar
      BY DEF LedgerBar
    <3> QED BY <3>1, <3>2
  <2>5. AnswerOf(res) = "refused" => \A e \in LedgerBar : e.call # c
    <3> SUFFICES ASSUME Refused(res), NEW e \in executed PROVE e.call # c
      BY AnswerCases DEF LedgerBar
    <3>1. OneLiveAttempt' /\ e \in Entries'
      BY DEF IInv, PostsNotIdempotent, Entries
    <3> QED BY <1>1, <1>4, <3>1 DEF OneLiveAttempt
  <2>6. Ledger!Answer(c, AnswerOf(res))
    BY <1>2, <2>1, <2>2, <2>4, <2>5
       DEF Ledger!Answer, Ledger!Charged, LedgerBar, AnswerBar
  <2> QED BY <1>4, <2>3, <2>6 DEF Ledger!Next, Ledger!Answers
<1> QED BY <1>3, <1>4

\* A POST that the gateway carries out is a Charge of the ledger.
LEMMA HandleIsCharge ==
  ASSUME IInv, IInv', HonestGateway, PostsNotIdempotent,
         NEW r \in requests, NEW s \in Statuses, Handle(r, s)
  PROVE  [Ledger!Next]_<<LedgerBar, AnswerBar>>
<1>1. /\ UNCHANGED <<retries, result>>
      /\ executed' = executed \/ executed' = executed \cup Effect(r)
  BY DEF Handle
<1>2. AnswerBar' = AnswerBar
  BY <1>1 DEF AnswerBar
<1>3. CASE executed' = executed
  BY <1>2, <1>3 DEF LedgerBar
<1>4. CASE executed' # executed
  <2>1. executed' = executed \cup {r} /\ r.call \in Posts
    BY <1>1, <1>4 DEF Effect
  <2>2. r \in Entries /\ r \notin executed /\ r.call \in Calls /\ r.attempt \in Nat
    BY EntryCalls DEF IInv, Entries, HandledOnce
  <2>3. /\ r.attempt = attempt[r.call]
        /\ ~ Refused(result[r.call])
    BY <2>1, <2>2 DEF IInv, OneLiveAttempt
  <2>4. result[r.call].type # "ok"
    BY <2>2, <2>3 DEF IInv, AnsweredIsHandled
  <2>5. AnswerBar[r.call] \in {"none", "unknown"}
    <3>1. result[r.call] \in Results
      BY <2>2 DEF IInv, TypeOK
    <3> QED BY <2>1, <2>3, <2>4, <3>1, AnswerCases DEF AnswerBar
  <2>6. ~ \E e \in LedgerBar : OrderOf[e.call] = OrderOf[r.call]
    <3> SUFFICES ASSUME NEW e \in executed, OrderOf[e.call] = OrderOf[r.call]
                 PROVE  FALSE
      BY DEF LedgerBar
    <3>1. \A f, g \in executed' : OrderOf[f.call] = OrderOf[g.call] => f = g
      <4>1. ChargedOnce'
        BY InvChargedOnce, PTL
      <4> QED BY <1>1, <4>1 DEF ChargedOnce, PostsNotIdempotent, HonestGateway
    <3> QED BY <2>1, <2>2, <3>1
  <2>7. LedgerBar' = LedgerBar \cup {[call |-> r.call, id |-> r.attempt]}
    BY <2>1 DEF LedgerBar
  <2>8. r.attempt \in UNION {0 .. cfg.max_retries : cfg \in RetryConfigs}
    <3>1. retries \in RetryConfigs /\ retries.max_retries \in Nat
      BY RetriesAssumption DEF IInv, TypeOK, RetryConfig
    <3>2. r.attempt \in 0 .. retries.max_retries
      BY <2>2, <2>3, <3>1 DEF IInv, SleepWithinBudget
    <3> QED BY <3>1, <3>2
  <2>9. Ledger!Charge(r.call, r.attempt)
    BY <1>2, <2>5, <2>6, <2>7 DEF Ledger!Charge, Ledger!Charged, LedgerBar, AnswerBar
  <2> QED BY <2>1, <2>8, <2>9 DEF Ledger!Next
<1> QED BY <1>3, <1>4

\* Every step maps to a step of the ledger or changes nothing there.
LEMMA LedgerStep ==
  ASSUME IInv, IInv', HonestGateway, PostsNotIdempotent, [Next]_vars
  PROVE  [Ledger!Next]_<<LedgerBar, AnswerBar>>
<1>1. ASSUME UNCHANGED <<result, executed>>
      PROVE  [Ledger!Next]_<<LedgerBar, AnswerBar>>
  BY <1>1 DEF LedgerBar, AnswerBar
<1>2. ASSUME NEW c \in Calls, Client(c)
      PROVE  [Ledger!Next]_<<LedgerBar, AnswerBar>>
  <2>1. \/ UNCHANGED <<result, executed>>
        \/ /\ UNCHANGED <<retries, requests, executed>>
           /\ pc[c] # "done"
           /\ \E res \in Results : res.type # "none" /\ Finish(c, res)
    <3>1. \A t \in Types \ {"none"} : Plain(t) \in Results /\ Plain(t).type # "none"
      BY PlainType DEF Plain
    <3>2. CASE Begin(c)
      BY <3>1, <3>2 DEF Begin, Types, LibraryErrors
    <3>3. CASE Send(c)
      BY <3>1, <3>3 DEF Send, Types
    <3>u. \A t \in OutcomeUnknown : Plain(t) \in Results /\ Plain(t).type # "none"
      BY UnknownType
    <3>o. "OverflowError" \in OutcomeUnknown
      BY DEF OutcomeUnknown, HeaderErrors
    <3>4. ASSUME NEW e \in TransportErrors, ExchangeFails(c, e)
          PROVE  \/ UNCHANGED <<result, executed>>
                 \/ /\ UNCHANGED <<retries, requests, executed>>
                    /\ pc[c] # "done"
                    /\ \E res \in Results : res.type # "none" /\ Finish(c, res)
      <4>1. e \in OutcomeUnknown
        BY DEF OutcomeUnknown
      <4> QED BY <3>u, <3>o, <3>4, <4>1 DEF ExchangeFails, Backoff, Sleep
    <3>5. CASE Receive(c)
      <4>1. reply[c] \in Statuses
        BY <3>5 DEF Receive, Answered, IInv, TypeOK
      <4>2. pc[c] # "done" /\ UNCHANGED <<retries, requests, executed>>
        BY <3>5 DEF Receive, Answered
      <4>3. \/ Sleep(c) \/ Finish(c, Plain("OverflowError"))
            \/ Finish(c, CheckResponse(reply[c]))
        BY <3>5 DEF Receive, Backoff
      <4> QED BY <3>u, <3>o, <4>1, <4>2, <4>3, CheckResponseType DEF Sleep
    <3>6. CASE \/ \E e \in BuildErrors : BuildFails(c, e)
               \/ \E e \in HeaderErrors : BadRetryAfter(c, e)
               \/ BadBody(c) \/ BadEncoding(c) \/ Cancel(c)
      <4>1. /\ pc[c] # "done" /\ UNCHANGED <<retries, requests, executed>>
            /\ \E t \in OutcomeUnknown : Finish(c, Plain(t))
        BY <3>6 DEF BuildFails, BadRetryAfter, BadBody, BadEncoding, Cancel, Answered, OutcomeUnknown
      <4> QED BY <3>u, <4>1
    <3>7. CASE Wake(c)
      BY <3>7 DEF Wake
    <3> QED BY <1>2, <3>2, <3>3, <3>4, <3>5, <3>6, <3>7 DEF Client
  <2> QED BY <1>1, <2>1, FinishIsAnswer
<1>3. CASE Close \/ UNCHANGED vars
  BY <1>1, <1>3 DEF Close, vars, callVars
<1> QED BY <1>2, <1>3, HandleIsCharge DEF Next

\* With an honest gateway and no configuration that declares POST idempotent,
\* whatever the client does is a behaviour of the charge ledger.
THEOREM LedgerImplemented ==
  ASSUME HonestGateway,
         \A cfg \in RetryConfigs : "POST" \notin cfg.idempotent_methods
  PROVE  Spec => LedgerSpec
<1>1. IInv => PostsNotIdempotent
  BY DEF IInv, TypeOK, PostsNotIdempotent
<1>2. IInv /\ IInv' /\ [Next]_vars => [Ledger!Next]_<<LedgerBar, AnswerBar>>
  BY <1>1, LedgerStep
<1> QED
  BY <1>2, LedgerInit, Invariance, PTL
     DEF Spec, LedgerSpec, Ledger!Spec, LedgerBar, AnswerBar
=============================================================================
