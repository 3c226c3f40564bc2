------------------------ MODULE WebhookReceiver_proofs ------------------------
(***************************************************************************)
(* Proofs about WebhookReceiver, for any notifications, requests, keys,    *)
(* capacities, overlapping deliveries, failures, losses and restarts.      *)
(***************************************************************************)
EXTENDS WebhookReceiver, RecentIds_proofs

\* What a delivery carries is a notification.
LEMMA DeliveryType == ASSUME NEW d \in Deliveries PROVE d[1] \in Notifications
BY DEF Deliveries

\* An id, if there is one, tells a notification from all others.
LEMMA IdsTellApart ==
  ASSUME TypeOK, NEW m \in Notifications, NEW n \in Notifications,
         IdOf(m) = IdOf(n), IdOf(m) # None
  PROVE  m = n
BY IdsAssumption DEF TypeOK, IdOf

LEMMA IdType ==
  ASSUME NEW n \in Notifications
  PROVE  IdOf(n) \in Ids \cup {None} /\ None \notin Ids
BY DEF Ids

LEMMA IdsFinite == IsFiniteSet(Ids)
<1> DEFINE f == [n \in Notifications |-> IdOf(n)]
           T == {IdOf(n) : n \in Notifications}
<1>1. f \in Surjection(Notifications, T)
  BY DEF Surjection
<1>2. IsFiniteSet(T)
  <2> HIDE DEF f, T
  <2> QED BY <1>1, FS_Surjection, NotificationsAssumption
<1>3. Ids \subseteq T
  BY DEF Ids
<1> QED BY <1>2, <1>3, FS_Subset

\* What is chosen at the start stays, and so do the ids.
LEMMA Frozen == [Next]_vars => UNCHANGED <<maxlen, usage, outcome>>
BY DEF Next, Handle, Deliver, Reject, Ask, Act, ActFails, RecordAfter, Ack, Settle, Lose, Restart,
       setup, vars

LEMMA IdsFrozen ==
  ASSUME UNCHANGED outcome
  PROVE  Ids' = Ids /\ \A n \in Notifications : IdOf(n)' = IdOf(n)
BY DEF Ids, IdOf

\* A call of seen() for what a delivery carries.
LEMMA RecordType ==
  ASSUME TypeOK, NEW d \in Deliveries
  PROVE  LET m == Remember(memory, IdOf(d[1]), None, maxlen)
         IN  /\ m \in Seq(Ids) /\ Len(m) <= maxlen
             /\ \A y : Has(m, y) => Has(memory, y) \/ (y = IdOf(d[1]) /\ y # None)
<1>1. /\ memory \in Seq(Ids) /\ Len(memory) <= maxlen /\ maxlen \in Nat \ {0}
      /\ IdOf(d[1]) \in Ids \cup {None} /\ None \notin Ids
  BY DeliveryType, IdType, BoundsAssumption DEF TypeOK
<1> QED BY <1>1, RememberType
-----------------------------------------------------------------------------
\* A worker that has just started has the types.
LEMMA TypeInit == Init => TypeOK
<1> SUFFICES ASSUME Init PROVE TypeOK
  OBVIOUS
<1>1. memory \in Seq(Ids) /\ Len(memory) <= maxlen
  BY BoundsAssumption DEF Init
<1> QED BY <1>1, BoundsAssumption DEF Init, TypeOK, PCs, Answers

\* No step leaves them.
LEMMA TypeStep == TypeOK /\ [Next]_vars => TypeOK'
<1> SUFFICES ASSUME TypeOK, [Next]_vars PROVE TypeOK'
  OBVIOUS
<1>0. Ids' = Ids
  BY Frozen, IdsFrozen
<1> USE DEF TypeOK, PCs, Answers, setup, bounds, Goto, Respond
<1>1. ASSUME NEW d \in Deliveries, Deliver(d) PROVE TypeOK'
  BY <1>0, <1>1 DEF Deliver
<1>2. ASSUME NEW d \in Deliveries, Reject(d) PROVE TypeOK'
  BY <1>0, <1>2 DEF Reject, StatusOf
<1>3. ASSUME NEW d \in Deliveries, Ask(d) PROVE TypeOK'
  <2>1. memory' \in Seq(Ids) /\ Len(memory') <= maxlen
    BY <1>3, RecordType DEF Ask
  <2>2. pc' \in [Deliveries -> PCs]
    BY <1>3 DEF Ask
  <2>3. UNCHANGED <<setup, answer, effects, settled, bounds>>
    BY <1>3 DEF Ask
  <2> QED BY <1>0, <2>1, <2>2, <2>3
<1>4. ASSUME NEW d \in Deliveries, Act(d) PROVE TypeOK'
  <2>1. d[1] \in Notifications /\ MaxEffects \in Nat
    BY DeliveryType, BoundsAssumption
  <2>2. effects' \in [Notifications -> 0 .. MaxEffects]
    BY <1>4, <2>1 DEF Act
  <2>3. pc' \in [Deliveries -> PCs]
    BY <1>4 DEF Act
  <2>4. UNCHANGED <<setup, memory, answer, settled, bounds>>
    BY <1>4 DEF Act
  <2> QED BY <1>0, <2>2, <2>3, <2>4
<1>5. ASSUME NEW d \in Deliveries, ActFails(d) PROVE TypeOK'
  BY <1>0, <1>5, BoundsAssumption DEF ActFails
<1>6. ASSUME NEW d \in Deliveries, RecordAfter(d) PROVE TypeOK'
  <2>1. memory' \in Seq(Ids) /\ Len(memory') <= maxlen
    BY <1>6, RecordType DEF RecordAfter
  <2>2. pc' \in [Deliveries -> PCs]
    BY <1>6 DEF RecordAfter
  <2>3. UNCHANGED <<setup, answer, effects, settled, bounds>>
    BY <1>6 DEF RecordAfter
  <2> QED BY <1>0, <2>1, <2>2, <2>3
<1>7. ASSUME NEW d \in Deliveries, Ack(d) PROVE TypeOK'
  BY <1>0, <1>7 DEF Ack
<1>8. ASSUME NEW d \in Deliveries, Settle(d) PROVE TypeOK'
  BY <1>0, <1>8, DeliveryType DEF Settle
<1>9. ASSUME NEW d \in Deliveries, Lose(d) PROVE TypeOK'
  BY <1>0, <1>9, BoundsAssumption DEF Lose
<1>10. CASE Restart
  <2>1. <<>> \in Seq(Ids) /\ Len(<<>>) = 0 /\ maxlen \in Nat
    BY BoundsAssumption
  <2> QED BY <1>0, <1>10, <2>1, BoundsAssumption DEF Restart
<1>11. CASE UNCHANGED vars
  BY <1>0, <1>11 DEF vars
<1> QED BY <1>1, <1>2, <1>3, <1>4, <1>5, <1>6, <1>7, <1>8, <1>9, <1>10, <1>11 DEF Next, Handle

\* The types of the state: among them, that the memory keeps to its capacity.
THEOREM TypeCorrect == Spec => []TypeOK
BY TypeInit, TypeStep, PTL DEF Spec
-----------------------------------------------------------------------------
(***************************************************************************)
(* is_duplicate() asked first.  What is in the memory, about to be         *)
(* acknowledged, or acknowledged, has been acted on.                       *)
(***************************************************************************)
Processed ==
  /\ \A n \in Notifications : IdOf(n) # None /\ Has(memory, IdOf(n)) => effects[n] > 0
  /\ \A d \in Deliveries :
       pc[d] \in {"record", "ack"} \/ answer[d] = "200" => effects[d[1]] > 0
  /\ AcknowledgedAreProcessed

CheckInv == TypeOK /\ (usage = "check_first" => Processed)

LEMMA CheckInit == Init => CheckInv
<1> SUFFICES ASSUME Init PROVE Processed
  BY TypeInit DEF CheckInv
<1> QED BY DEF Init, Processed, AcknowledgedAreProcessed, Has

LEMMA CheckStep == CheckInv /\ [Next]_vars => CheckInv'
<1> SUFFICES ASSUME TypeOK, usage = "check_first", Processed, [Next]_vars PROVE Processed'
  BY TypeStep, Frozen DEF CheckInv
<1>0. \A n \in Notifications : IdOf(n)' = IdOf(n)
  BY Frozen, IdsFrozen
<1> USE <1>0 DEF Processed, AcknowledgedAreProcessed, TypeOK, setup, bounds, Goto, Respond
<1>1. ASSUME NEW d \in Deliveries, Deliver(d) PROVE Processed'
  BY <1>1 DEF Deliver
<1>2. ASSUME NEW d \in Deliveries, Reject(d) PROVE Processed'
  BY <1>2 DEF Reject, StatusOf
<1>3. ASSUME NEW d \in Deliveries, Ask(d) PROVE Processed'
  <2>1. d[1] \in Notifications /\ UNCHANGED <<memory, effects, answer, settled>>
    BY <1>3, DeliveryType DEF Ask
  <2>2. pc' = [pc EXCEPT ![d] = IF Has(memory, IdOf(d[1])) THEN "ack" ELSE "act"]
    BY <1>3 DEF Ask
  <2>3. Has(memory, IdOf(d[1])) => effects[d[1]] > 0
    <3>1. ~ Has(memory, None)
      BY <2>1, IdType DEF Has
    <3> QED BY <2>1, <3>1
  <2> QED BY <2>1, <2>2, <2>3
<1>4. ASSUME NEW d \in Deliveries, Act(d) PROVE Processed'
  <2>1. d[1] \in Notifications /\ MaxEffects \in Nat /\ MaxEffects > 0
    BY DeliveryType, BoundsAssumption
  <2>2. \A n \in Notifications : effects[n] \in Nat /\ effects'[n] \in Nat
                                  /\ effects'[n] >= effects[n]
    BY <1>4, <2>1 DEF Act
  <2>3. effects'[d[1]] > 0
    BY <1>4, <2>1 DEF Act
  <2>4. \A n \in Notifications : effects[n] > 0 => effects'[n] > 0
    BY <2>2
  <2>5. pc' = [pc EXCEPT ![d] = "record"] /\ UNCHANGED <<memory, answer, settled>>
    BY <1>4 DEF Act
  <2> QED BY <2>1, <2>3, <2>4, <2>5, DeliveryType
<1>5. ASSUME NEW d \in Deliveries, ActFails(d) PROVE Processed'
  BY <1>5 DEF ActFails
<1>6. ASSUME NEW d \in Deliveries, RecordAfter(d) PROVE Processed'
  <2>1. d[1] \in Notifications /\ effects[d[1]] > 0
    BY <1>6, DeliveryType DEF RecordAfter
  <2>2. memory' = Remember(memory, IdOf(d[1]), None, maxlen)
    BY <1>6 DEF RecordAfter
  <2>3. \A y : Has(memory', y) => Has(memory, y) \/ (y = IdOf(d[1]) /\ y # None)
    BY <2>2, RecordType
  <2>4. ASSUME NEW n \in Notifications, IdOf(n) # None, Has(memory', IdOf(n))
        PROVE  effects[n] > 0
    <3>1. CASE Has(memory, IdOf(n))
      BY <2>4, <3>1
    <3>2. CASE IdOf(n) = IdOf(d[1])
      BY <2>1, <2>4, <3>2, IdsTellApart
    <3> QED BY <2>3, <2>4, <3>1, <3>2
  <2>5. pc' = [pc EXCEPT ![d] = "ack"] /\ UNCHANGED <<effects, answer, settled>>
    BY <1>6 DEF RecordAfter
  <2> QED BY <2>1, <2>4, <2>5
<1>7. ASSUME NEW d \in Deliveries, Ack(d) PROVE Processed'
  BY <1>7 DEF Ack
<1>8. ASSUME NEW d \in Deliveries, Settle(d) PROVE Processed'
  BY <1>8 DEF Settle
<1>9. ASSUME NEW d \in Deliveries, Lose(d) PROVE Processed'
  BY <1>9 DEF Lose
<1>10. CASE Restart
  BY <1>10 DEF Restart, Has
<1>11. CASE UNCHANGED vars
  BY <1>11 DEF vars
<1> QED BY <1>1, <1>2, <1>3, <1>4, <1>5, <1>6, <1>7, <1>8, <1>9, <1>10, <1>11 DEF Next, Handle

\* With is_duplicate() first and seen() after, what is acknowledged has been
\* acted on.
THEOREM AckedIsProcessedHolds == Spec => []AckedIsProcessed
<1>1. CheckInv => AckedIsProcessed
  BY DEF CheckInv, Processed, AckedIsProcessed
<1> QED BY <1>1, CheckInit, CheckStep, PTL DEF Spec
-----------------------------------------------------------------------------
(***************************************************************************)
(* seen() asked first, with room for every id.  Of a notification at most  *)
(* one delivery is about to be acted on; while one is, or while its id is  *)
(* not remembered, it was acted on before the last restart only.           *)
(***************************************************************************)
Unspent(n) == effects[n] <= restarts

OnceAtMost(n) ==
  /\ effects[n] <= 1 + restarts
  /\ ~ Has(memory, IdOf(n)) => Unspent(n)
  /\ \A d \in Deliveries :
       d[1] = n /\ pc[d] = "act" => Has(memory, IdOf(n)) /\ Unspent(n)
  /\ \A d, e \in Deliveries :
       d[1] = n /\ e[1] = n /\ pc[d] = "act" /\ pc[e] = "act" => d = e

Roomy == usage = "record_first" /\ Cardinality(Ids) <= maxlen

Recorded ==
  /\ NoRepeat(memory)
  /\ \A n \in Notifications : IdOf(n) # None => OnceAtMost(n)

RecordInv == TypeOK /\ (Roomy => Recorded)

LEMMA RecordInit == Init => RecordInv
<1> SUFFICES ASSUME Init PROVE Recorded
  BY TypeInit DEF RecordInv
<1> QED BY DEF Init, Recorded, OnceAtMost, Unspent, NoRepeat, Has

\* With room, a call of seen() forgets nothing and remembers the id it is given.
LEMMA RoomyRecord ==
  ASSUME TypeOK, Roomy, NoRepeat(memory), NEW d \in Deliveries
  PROVE  LET m == Remember(memory, IdOf(d[1]), None, maxlen)
         IN  /\ NoRepeat(m)
             /\ \A y : Has(memory, y) => Has(m, y)
             /\ IdOf(d[1]) # None => Has(m, IdOf(d[1]))
<1>1. /\ memory \in Seq(Ids) /\ maxlen \in Nat /\ Cardinality(Ids) <= maxlen
      /\ IdOf(d[1]) \in Ids \cup {None} /\ None \notin Ids
  BY DeliveryType, IdType, BoundsAssumption DEF TypeOK, Roomy
<1> QED BY <1>1, IdsFinite, RememberRoom

LEMMA RecordStep == RecordInv /\ [Next]_vars => RecordInv'
<1> SUFFICES ASSUME TypeOK, Roomy, Recorded, [Next]_vars PROVE Recorded'
  <2> SUFFICES ASSUME TypeOK, Roomy => Recorded, [Next]_vars, Roomy'
               PROVE  Recorded'
    BY TypeStep DEF RecordInv
  <2>1. UNCHANGED <<maxlen, usage, outcome>> /\ Ids' = Ids
    BY Frozen, IdsFrozen
  <2>2. Roomy' <=> Roomy
    BY <2>1 DEF Roomy
  <2> QED BY <2>2
<1>0. \A n \in Notifications : IdOf(n)' = IdOf(n)
  BY Frozen, IdsFrozen
<1>a. usage = "record_first" /\ NoRepeat(memory)
  BY DEF Roomy, Recorded
<1>b. pc \in [Deliveries -> PCs]
  BY DEF TypeOK
\* A step that starts nothing keeps the invariant.
<1>c. ASSUME UNCHANGED <<memory, effects, restarts>>,
             \A d \in Deliveries : pc'[d] = "act" => pc[d] = "act"
      PROVE  Recorded'
  BY <1>0, <1>c DEF Recorded, OnceAtMost, Unspent
<1>1. ASSUME NEW d \in Deliveries,
             Deliver(d) \/ Reject(d) \/ ActFails(d) \/ Ack(d) \/ Settle(d) \/ Lose(d)
      PROVE  Recorded'
  <2>1. UNCHANGED <<memory, effects, restarts>>
    BY <1>1 DEF Deliver, Reject, ActFails, Ack, Settle, Lose, bounds
  <2>2. pc' = pc \/ \E l \in {"sent", "idle"} : pc' = [pc EXCEPT ![d] = l]
    BY <1>1 DEF Deliver, Reject, ActFails, Ack, Settle, Lose, Goto, Respond
  <2>3. \A e \in Deliveries : pc'[e] = "act" => pc[e] = "act"
    BY <1>b, <2>2
  <2> QED BY <1>c, <2>1, <2>3
<1>2. ASSUME NEW d \in Deliveries, Ask(d) PROVE Recorded'
  <2>1. /\ d[1] \in Notifications /\ UNCHANGED <<effects, restarts>>
        /\ pc' = [pc EXCEPT ![d] = IF Has(memory, IdOf(d[1])) THEN "ack" ELSE "act"]
        /\ memory' = Remember(memory, IdOf(d[1]), None, maxlen)
    BY <1>2, <1>a, DeliveryType DEF Ask, Goto, bounds
  <2>2. /\ NoRepeat(memory')
        /\ \A y : Has(memory, y) => Has(memory', y)
        /\ IdOf(d[1]) # None => Has(memory', IdOf(d[1]))
    BY <1>a, <2>1, RoomyRecord
  <2>3. \A e \in Deliveries \ {d} : pc'[e] = pc[e]
    BY <1>b, <2>1
  <2>4. pc'[d] = "act" => ~ Has(memory, IdOf(d[1]))
    BY <1>b, <2>1
  <2>5. ASSUME NEW n \in Notifications, IdOf(n) # None PROVE OnceAtMost(n)'
    <3>1. OnceAtMost(n)
      BY <2>5 DEF Recorded
    <3>2. ASSUME NEW e \in Deliveries, e[1] = n, pc'[e] = "act"
          PROVE  Has(memory', IdOf(n)) /\ Unspent(n)
      <4>1. CASE e = d
        BY <2>2, <2>4, <2>5, <3>1, <3>2, <4>1 DEF OnceAtMost
      <4>2. CASE e # d
        BY <2>2, <2>3, <3>1, <3>2, <4>2 DEF OnceAtMost
      <4> QED BY <4>1, <4>2
    <3>3. ASSUME NEW e \in Deliveries, NEW f \in Deliveries, e[1] = n, f[1] = n,
                 pc'[e] = "act", pc'[f] = "act"
          PROVE  e = f
      <4>1. CASE e # d /\ f # d
        BY <2>3, <3>1, <3>3, <4>1 DEF OnceAtMost
      <4>2. CASE e # d /\ f = d
        BY <2>3, <2>4, <3>1, <3>3, <4>2 DEF OnceAtMost
      <4>3. CASE e = d /\ f # d
        BY <2>3, <2>4, <3>1, <3>3, <4>3 DEF OnceAtMost
      <4> QED BY <4>1, <4>2, <4>3
    <3> QED BY <1>0, <2>1, <2>2, <3>1, <3>2, <3>3 DEF OnceAtMost, Unspent
  <2> QED BY <1>0, <2>2, <2>5 DEF Recorded
<1>3. ASSUME NEW d \in Deliveries, Act(d) PROVE Recorded'
  <2>1. /\ d[1] \in Notifications /\ UNCHANGED <<memory, restarts>>
        /\ pc[d] = "act" /\ pc' = [pc EXCEPT ![d] = "ack"]
    BY <1>3, <1>a, DeliveryType DEF Act, Goto, bounds
  <2>2. \A e \in Deliveries : pc'[e] = "act" => pc[e] = "act" /\ e # d
    BY <1>b, <2>1
  <2>3. /\ restarts \in Nat
        /\ \A n \in Notifications : effects[n] \in Nat /\ effects'[n] \in Nat
        /\ \A n \in Notifications : n # d[1] => effects'[n] = effects[n]
        /\ effects'[d[1]] <= effects[d[1]] + 1
    BY <1>3, <2>1, BoundsAssumption DEF Act, TypeOK
  <2>4. ASSUME NEW n \in Notifications, IdOf(n) # None PROVE OnceAtMost(n)'
    <3>1. OnceAtMost(n)
      BY <2>4 DEF Recorded
    <3>2. CASE n # d[1]
      BY <1>0, <2>1, <2>2, <2>3, <3>1, <3>2 DEF OnceAtMost, Unspent
    <3>3. CASE n = d[1]
      <4>1. Has(memory, IdOf(n)) /\ effects[n] <= restarts
        BY <2>1, <3>1, <3>3 DEF OnceAtMost, Unspent
      <4>2. effects'[n] <= 1 + restarts
        BY <2>3, <3>3, <4>1
      <4>3. \A e \in Deliveries : ~ (e[1] = n /\ pc'[e] = "act")
        BY <2>1, <2>2, <3>1, <3>3 DEF OnceAtMost
      <4> QED BY <1>0, <2>1, <4>1, <4>2, <4>3 DEF OnceAtMost
    <3> QED BY <3>2, <3>3
  <2> QED BY <1>0, <1>a, <2>1, <2>4 DEF Recorded
<1>4. ASSUME NEW d \in Deliveries, RecordAfter(d) PROVE Recorded'
  <2>1. /\ UNCHANGED <<effects, restarts>> /\ pc' = [pc EXCEPT ![d] = "ack"]
        /\ memory' = Remember(memory, IdOf(d[1]), None, maxlen)
    BY <1>4 DEF RecordAfter, Goto, bounds
  <2>2. NoRepeat(memory') /\ \A y : Has(memory, y) => Has(memory', y)
    BY <1>a, <2>1, RoomyRecord
  <2>3. \A e \in Deliveries : pc'[e] = "act" => pc[e] = "act"
    BY <1>b, <2>1
  <2> QED BY <1>0, <2>1, <2>2, <2>3 DEF Recorded, OnceAtMost, Unspent
<1>5. CASE Restart
  <2>1. /\ memory' = <<>> /\ pc' = [d \in Deliveries |-> "idle"]
        /\ restarts' = restarts + 1 /\ UNCHANGED effects
    BY <1>5 DEF Restart
  <2>2. \A y : ~ Has(memory', y)
    BY <2>1 DEF Has
  <2>3. NoRepeat(memory')
    BY <2>1 DEF NoRepeat
  <2>4. restarts \in Nat /\ \A n \in Notifications : effects[n] \in Nat
    BY BoundsAssumption DEF TypeOK
  <2>5. ASSUME NEW n \in Notifications, IdOf(n) # None PROVE OnceAtMost(n)'
    <3>1. effects[n] <= 1 + restarts
      BY <2>5 DEF Recorded, OnceAtMost
    <3> QED BY <2>1, <2>4, <3>1 DEF OnceAtMost, Unspent
  <2> QED BY <1>0, <2>3, <2>5 DEF Recorded
<1>6. CASE UNCHANGED vars
  BY <1>c, <1>6 DEF vars
<1> QED BY <1>1, <1>2, <1>3, <1>4, <1>5, <1>6 DEF Next, Handle

\* With seen() first and room for the ids, a notification is acted on at most
\* once between two restarts, however often and at once it is delivered.
THEOREM ActedOnOnceHolds == Spec => []ActedOnOnce
<1>1. RecordInv => ActedOnOnce
  BY DEF RecordInv, Roomy, Recorded, OnceAtMost, ActedOnOnce
<1> QED BY <1>1, RecordInit, RecordStep, PTL DEF Spec
===============================================================================
