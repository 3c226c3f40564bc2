--------------------------- MODULE WebhookReceiver ---------------------------
(***************************************************************************)
(* A worker that receives SIBS notifications the way the repository shows: *)
(* decrypt, parse, ask the deduplicator, act, acknowledge (the handlers of *)
(* examples/ and the docstring of NotificationDeduplicator).  SIBS sends a *)
(* notification again, even while an earlier delivery is being handled,    *)
(* until it is acknowledged.  Handlers are tasks of one event loop: they   *)
(* interleave where they await, which is while they act; the deduplicator  *)
(* is asked in one step.  It lives in memory and is lost at a restart.     *)
(***************************************************************************)
EXTENDS FiniteSets, Webhooks, RecentIds

CONSTANTS
  Notifications,
  Requests,         \* the requests each may come in
  Capacities,       \* the values of maxlen
  Usages,           \* "record_first": seen() is asked before acting;
                    \* "check_first": is_duplicate() before, and seen() after
  Keys,             \* the secrets the application may be configured with
  Slots,            \* bound: deliveries of each notification under way at once
  MaxEffects,       \* bound: effects are counted up to this number
  MaxFailures,      \* bound: times acting raises
  MaxLosses,        \* bound: answers lost on the way back
  MaxRestarts       \* bound: times the worker is restarted

\* What a request comes to under each key: an event or an exception.
Outcomes == [n \in Notifications |->
  {[key \in Secrets |-> Event(e, key)] : e \in Requests[n]}]

IsEvent(result) == "error" \notin DOMAIN result
Id(result) == IF IsEvent(result) THEN result.notification_id ELSE None

ASSUME NotificationsAssumption == IsFiniteSet(Notifications)
ASSUME RequestsAssumption ==
  DOMAIN Requests = Notifications /\ \A n \in Notifications : \A e \in Requests[n] : IsEnvelope(e)
ASSUME IdsAssumption ==
  \A m, n \in Notifications : \A o \in Outcomes[m], p \in Outcomes[n] :
    Id(o["right"]) = Id(p["right"]) /\ Id(o["right"]) # None => m = n
ASSUME BoundsAssumption ==
  /\ Capacities \subseteq Nat \ {0} /\ Keys \subseteq Secrets
  /\ Slots \in [Notifications -> Nat]
  /\ Usages \subseteq {"record_first", "check_first"}
  /\ MaxFailures \in Nat /\ MaxLosses \in Nat /\ MaxRestarts \in Nat
  /\ MaxEffects \in Nat /\ MaxEffects > 1 + MaxRestarts

\* d[1] is the notification a delivery carries.
Deliveries == UNION {{n} \X (1..Slots[n]) : n \in Notifications}

VARIABLES
  maxlen,       \* the deduplicator's capacity, never changed
  usage,        \* how the application uses it, never changed
  outcome,      \* what each notification comes to under each key, never changed
  secret,       \* the key in the worker's environment
  memory,       \* the deduplicator's ids, oldest first
  pc,           \* the state of each delivery
  answer,       \* the HTTP status on its way back to SIBS
  effects,      \* how often each notification was acted on, up to MaxEffects
  settled,      \* the notifications SIBS holds to be acknowledged
  failures, losses, restarts

vars == <<maxlen, usage, outcome, secret, memory, pc, answer, effects, settled, failures, losses, restarts>>
setup == <<maxlen, usage, outcome, secret>>
bounds == <<failures, losses, restarts>>

PCs == {"idle", "sent", "act", "record", "ack"}
Answers == {"none", "200", "400", "500"}

Init ==
  /\ maxlen \in Capacities /\ usage \in Usages
  /\ outcome \in { f \in [Notifications -> UNION {Outcomes[n] : n \in Notifications}] :
                    \A n \in Notifications : f[n] \in Outcomes[n] }
  /\ secret \in Keys
  /\ memory = <<>>
  /\ pc = [d \in Deliveries |-> "idle"]
  /\ answer = [d \in Deliveries |-> "none"]
  /\ effects = [n \in Notifications |-> 0]
  /\ settled = {}
  /\ failures = 0 /\ losses = 0 /\ restarts = 0

Reads(n, key) == IsEvent(outcome[n][key])
IdOf(n) == Id(outcome[n]["right"])
Ids == {IdOf(n) : n \in Notifications} \ {None}

Goto(d, l) == pc' = [pc EXCEPT ![d] = l]

Respond(d, a) ==
  /\ Goto(d, "idle")
  /\ answer' = [answer EXCEPT ![d] = a]

\* SIBS sends, again and again, what it does not hold to be acknowledged.
Deliver(d) ==
  /\ pc[d] = "idle" /\ answer[d] = "none"
  /\ d[1] \notin settled
  /\ Goto(d, "sent")
  /\ UNCHANGED <<setup, memory, answer, effects, settled, bounds>>

\* The body does not come to an event: an exception, and its answer.
Reject(d) ==
  /\ pc[d] = "sent"
  /\ ~ Reads(d[1], secret)
  /\ Respond(d, StatusOf(outcome[d[1]][secret].error))
  /\ UNCHANGED <<setup, memory, effects, settled, bounds>>

\* Plausible bug: the answer of the deduplicator is not looked at.
AskIgnored(d) ==
  /\ pc[d] = "sent"
  /\ Reads(d[1], secret)
  /\ Goto(d, "act")
  /\ memory' = IF usage = "record_first" THEN Remember(memory, IdOf(d[1]), None, maxlen) ELSE memory
  /\ UNCHANGED <<setup, answer, effects, settled, bounds>>

\* Plausible bug: the id is recorded before acting, whatever is asked.
AskRecording(d) ==
  /\ pc[d] = "sent"
  /\ Reads(d[1], secret)
  /\ Goto(d, IF Has(memory, IdOf(d[1])) THEN "ack" ELSE "act")
  /\ memory' = Remember(memory, IdOf(d[1]), None, maxlen)
  /\ UNCHANGED <<setup, answer, effects, settled, bounds>>

Ask(d) ==
  /\ pc[d] = "sent"
  /\ Reads(d[1], secret)
  /\ Goto(d, IF Has(memory, IdOf(d[1])) THEN "ack" ELSE "act")
  /\ memory' = IF usage = "record_first" THEN Remember(memory, IdOf(d[1]), None, maxlen) ELSE memory
  /\ UNCHANGED <<setup, answer, effects, settled, bounds>>

Act(d) ==
  /\ pc[d] = "act"
  /\ effects' = [effects EXCEPT ![d[1]] = IF @ < MaxEffects THEN @ + 1 ELSE @]
  /\ Goto(d, IF usage = "record_first" THEN "ack" ELSE "record")
  /\ UNCHANGED <<setup, memory, answer, settled, bounds>>

\* Acting raises (a database error, a timeout): the framework answers 500.
ActFails(d) ==
  /\ pc[d] = "act"
  /\ failures < MaxFailures
  /\ failures' = failures + 1
  /\ Respond(d, "500")
  /\ UNCHANGED <<setup, memory, effects, settled, losses, restarts>>

RecordAfter(d) ==
  /\ pc[d] = "record"
  /\ memory' = Remember(memory, IdOf(d[1]), None, maxlen)
  /\ Goto(d, "ack")
  /\ UNCHANGED <<setup, answer, effects, settled, bounds>>

\* Plausible bug: a status that SIBS takes for a failure.
AckAccepted(d) ==
  /\ pc[d] = "ack"
  /\ Respond(d, "400")
  /\ UNCHANGED <<setup, memory, effects, settled, bounds>>

Ack(d) ==
  /\ pc[d] = "ack"
  /\ Respond(d, "200")
  /\ UNCHANGED <<setup, memory, effects, settled, bounds>>

\* The answer reaches SIBS: a 200 that echoes the notification's id settles it.
Settle(d) ==
  /\ answer[d] # "none"
  /\ answer' = [answer EXCEPT ![d] = "none"]
  /\ settled' = IF answer[d] = "200" /\ IdOf(d[1]) # None
                  THEN settled \cup {d[1]} ELSE settled
  /\ UNCHANGED <<setup, memory, pc, effects, bounds>>

Lose(d) ==
  /\ answer[d] # "none"
  /\ losses < MaxLosses
  /\ losses' = losses + 1
  /\ answer' = [answer EXCEPT ![d] = "none"]
  /\ UNCHANGED <<setup, memory, pc, effects, settled, failures, restarts>>

\* The worker stops and starts again: its handlers and its memory are gone, and
\* a secret that was not right may have been put right.
Restart ==
  /\ restarts < MaxRestarts
  /\ restarts' = restarts + 1
  /\ memory' = <<>>
  /\ pc' = [d \in Deliveries |-> "idle"]
  /\ secret' \in {secret, "right"}
  /\ UNCHANGED <<maxlen, usage, outcome, answer, effects, settled, failures, losses>>

Handle(d) == Reject(d) \/ Ask(d) \/ Act(d) \/ RecordAfter(d) \/ Ack(d)

Next ==
  \/ \E d \in Deliveries :
       Deliver(d) \/ Handle(d) \/ ActFails(d) \/ Settle(d) \/ Lose(d)
  \/ Restart

Spec == Init /\ [][Next]_vars

(***************************************************************************)
(* Fairness: SIBS goes on sending what is not acknowledged, the event loop *)
(* runs its tasks, an answer that is not lost arrives.                     *)
(***************************************************************************)
FairSpec ==
  /\ Spec
  /\ \A d \in Deliveries : WF_vars(Deliver(d)) /\ WF_vars(Handle(d)) /\ WF_vars(Settle(d))
-----------------------------------------------------------------------------
\* The types of the variables: among them, that the memory never outgrows its
\* capacity and holds ids only.
TypeOK ==
  /\ maxlen \in Capacities /\ usage \in Usages
  /\ secret \in Keys \cup {"right"}
  /\ \A n \in Notifications : outcome[n] \in Outcomes[n]
  /\ memory \in Seq(Ids) /\ Len(memory) <= maxlen
  /\ pc \in [Deliveries -> PCs]
  /\ answer \in [Deliveries -> Answers]
  /\ effects \in [Notifications -> 0 .. MaxEffects]
  /\ settled \subseteq Notifications
  /\ failures \in 0 .. MaxFailures
  /\ losses \in 0 .. MaxLosses
  /\ restarts \in 0 .. MaxRestarts

\* is_duplicate() asked first and seen() called after: a notification that SIBS
\* will not send again has been acted on.
AcknowledgedAreProcessed == \A n \in settled : effects[n] > 0

AckedIsProcessed == usage = "check_first" => AcknowledgedAreProcessed

\* "already processed; just ack", says the docstring of an id that was seen, in
\* whichever way the deduplicator is used.
SeenIsProcessed == AcknowledgedAreProcessed

\* seen() asked first: between two restarts a notification is acted on at most
\* once, as long as the memory has room for the ids that are redelivered.
ActedOnOnce ==
  usage = "record_first" /\ Cardinality(Ids) <= maxlen =>
    \A n \in Notifications : IdOf(n) # None => effects[n] <= 1 + restarts

\* Once the worker has the right key, a notification that comes to an event and
\* has an id is in the end settled, although answers are lost, acting fails and
\* the worker restarts, a bounded number of times.
EventuallySettled ==
  \A n \in Notifications :
    secret = "right" /\ Reads(n, "right") /\ IdOf(n) # None ~> n \in settled
=============================================================================
