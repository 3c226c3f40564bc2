------------------- MODULE NotificationDeduplicator_proofs -------------------
(***************************************************************************)
(* For every capacity, any ids and any number of callers: without overlap  *)
(* the deduplicator remembers the ids recorded last and implements the     *)
(* window; with overlap it still never takes a new id for a duplicate.     *)
(***************************************************************************)
EXTENDS NotificationDeduplicator, RecentIds_proofs

\* A new deduplicator has the types.
LEMMA TypeInit == Init => TypeOK /\ ArgIsId
BY ModesAssumption DEF Init, TypeOK, ArgIsId, PCs, Outcomes

\* No statement of seen() leaves them, whatever the threads do.
LEMMA TypeStep == TypeOK /\ ArgIsId /\ [Next]_vars => TypeOK' /\ ArgIsId'
<1> SUFFICES ASSUME TypeOK, ArgIsId, [Next]_vars PROVE TypeOK' /\ ArgIsId'
  OBVIOUS
<1> USE DEF TypeOK, ArgIsId, PCs, Outcomes, Goto, Return
<1>1. ASSUME NEW w \in Workers, NEW id \in Ids \cup {NoId}, Call(w, id)
      PROVE  TypeOK' /\ ArgIsId'
  BY <1>1 DEF Call
<1>2. ASSUME NEW w \in Workers, CheckIn(w) PROVE TypeOK' /\ ArgIsId'
  BY <1>2 DEF CheckIn
<1>3. ASSUME NEW w \in Workers, Record(w) PROVE TypeOK' /\ ArgIsId'
  BY <1>3 DEF Record
<1>4. ASSUME NEW w \in Workers, CheckLen(w) PROVE TypeOK' /\ ArgIsId'
  BY <1>4 DEF CheckLen
<1>5. ASSUME NEW w \in Workers, MakeIter(w) PROVE TypeOK' /\ ArgIsId'
  BY <1>5 DEF MakeIter
<1>6. ASSUME NEW w \in Workers, TakeOldest(w) PROVE TypeOK' /\ ArgIsId'
  <2>1. memory # <<>> => memory[1] \in Ids
    OBVIOUS
  <2>2. UNCHANGED <<serial, memory, arg, mark, recorded>>
    BY <1>6 DEF TakeOldest
  <2>3. CASE Return(w, "RuntimeError") /\ UNCHANGED oldest
    BY <2>2, <2>3
  <2>4. CASE Return(w, "StopIteration") /\ UNCHANGED oldest
    BY <2>2, <2>4
  <2>5. CASE /\ memory # <<>> /\ oldest' = [oldest EXCEPT ![w] = memory[1]]
             /\ Goto(w, "del") /\ UNCHANGED <<outcome, raised>> /\ pc[w] = "next"
    <3>1. memory[1] \in Ids
      BY <2>1, <2>5
    <3>2. /\ oldest' \in [Workers -> Ids \cup {NoId}] /\ pc' \in [Workers -> PCs]
          /\ outcome' = outcome /\ raised' = raised
      BY <2>5, <3>1
    <3>3. ArgIsId'
      BY <2>2, <2>5
    <3>4. TypeOK'
      BY <2>2, <3>2
    <3> QED BY <3>3, <3>4
  <2> QED BY <1>6, <2>3, <2>4, <2>5 DEF TakeOldest
<1>7. ASSUME NEW w \in Workers, Evict(w) PROVE TypeOK' /\ ArgIsId'
  <2>1. Without(memory, oldest[w]) \in Seq(Ids)
    BY WithoutType
  <2>2. CASE Return(w, "fresh") /\ memory' = Without(memory, oldest[w])
    BY <1>7, <2>1, <2>2 DEF Evict
  <2>3. CASE Return(w, "KeyError") /\ UNCHANGED memory
    BY <1>7, <2>3 DEF Evict
  <2> QED BY <1>7, <2>2, <2>3 DEF Evict
<1>8. CASE UNCHANGED vars
  BY <1>8 DEF vars
<1> QED
  BY <1>1, <1>2, <1>3, <1>4, <1>5, <1>6, <1>7, <1>8 DEF Next, Worker

\* The types of the state, with any number of threads.
THEOREM TypeCorrect == Spec => []TypeOK
BY TypeInit, TypeStep, PTL DEF Spec
-----------------------------------------------------------------------------
\* A new deduplicator is a window on an empty history.
LEMMA SerialInit == Init /\ serial => SerialInv
<1> SUFFICES ASSUME Init, serial PROVE SerialInv
  OBVIOUS
<1>1. TypeOK /\ ArgIsId
  BY TypeInit
<1>2. memory = <<>> /\ recorded = <<>> /\ Len(memory) = 0 /\ Len(recorded) = 0
  BY DEF Init
<1>3. MemoryIsSuffix /\ NoRepeatInMemory /\ WithinCapacity /\ FreshOncePerWindow
  BY <1>2, MaxLenAssumption
     DEF MemoryIsSuffix, NoRepeatInMemory, WithinCapacity, FreshOncePerWindow
<1>4. OneBusy /\ Locals /\ NothingRaised
  BY DEF Init, OneBusy, Locals, NothingRaised
<1> QED BY <1>1, <1>3, <1>4 DEF SerialInv

\* No step changes whether calls overlap.
LEMMA SerialFrozen == [Next]_vars => serial' = serial
BY DEF Next, Worker, vars, Call, CheckIn, Record, CheckLen, MakeIter, TakeOldest, Evict

\* A step that changes the locals of one worker only.
LEMMA LocalStep ==
  ASSUME SerialInv, TypeOK', ArgIsId', UNCHANGED <<memory, recorded>>
  PROVE  MemoryIsSuffix' /\ NoRepeatInMemory' /\ FreshOncePerWindow'
BY DEF SerialInv, MemoryIsSuffix, NoRepeatInMemory, FreshOncePerWindow

\* With one call at a time, every statement of seen() keeps the invariant.
LEMMA SerialStep == SerialInv /\ [Next]_vars => SerialInv'
<1> SUFFICES ASSUME SerialInv, [Next]_vars PROVE SerialInv'
  OBVIOUS
<1>s. serial /\ serial'
  BY SerialFrozen DEF SerialInv
<1>t. TypeOK' /\ ArgIsId'
  BY TypeStep DEF SerialInv
<1>m. Len(memory) \in Nat /\ Len(recorded) \in Nat /\ MaxLen \in Nat \ {0}
  BY MaxLenAssumption DEF SerialInv, TypeOK
<1>1. ASSUME NEW w \in Workers, NEW id \in Ids \cup {NoId}, Call(w, id) PROVE SerialInv'
  <2>1. MemoryIsSuffix' /\ NoRepeatInMemory' /\ FreshOncePerWindow'
    BY <1>t, <1>1, LocalStep DEF Call
  <2>2. \A v \in Workers : pc[v] = "idle"
    BY <1>s, <1>1 DEF Call
  <2>3. /\ UNCHANGED <<memory, mark, oldest>>
        /\ pc'[w] \in {"idle", "in"}
        /\ \A v \in Workers \ {w} : pc'[v] = "idle"
        /\ outcome' = outcome \/ outcome' = [outcome EXCEPT ![w] = "fresh"]
    BY <1>1, <2>2 DEF Call, Goto, Return, SerialInv, TypeOK
  <2>4. OneBusy'
    BY <2>3 DEF OneBusy
  <2>5. Locals'
    BY <2>3 DEF Locals
  <2>6. WithinCapacity'
    BY <2>2, <2>3 DEF SerialInv, WithinCapacity
  <2>7. NothingRaised'
    BY <2>3 DEF SerialInv, TypeOK, NothingRaised
  <2> QED BY <1>s, <1>t, <2>1, <2>4, <2>5, <2>6, <2>7 DEF SerialInv
<1>2. ASSUME NEW w \in Workers, CheckIn(w) PROVE SerialInv'
  <2>1. MemoryIsSuffix' /\ NoRepeatInMemory' /\ FreshOncePerWindow'
    BY <1>t, <1>2, LocalStep DEF CheckIn
  <2>2. /\ UNCHANGED <<memory, arg, mark, oldest>>
        /\ pc[w] = "in"
        /\ pc'[w] \in {"idle", "set"} /\ (pc'[w] = "set" => ~ Has(memory, arg[w]))
        /\ \A v \in Workers \ {w} : pc'[v] = pc[v]
        /\ outcome' = outcome \/ outcome' = [outcome EXCEPT ![w] = "duplicate"]
    BY <1>2 DEF CheckIn, Goto, Return, SerialInv, TypeOK
  <2>3. OneBusy'
    BY <2>2 DEF SerialInv, OneBusy
  <2>4. Locals'
    BY <2>2 DEF SerialInv, Locals
  <2>5. WithinCapacity'
    <3>1. (\A v \in Workers : pc'[v] \in {"idle", "in", "set"}) =>
            \A v \in Workers : pc[v] \in {"idle", "in", "set"}
      BY <2>2
    <3> QED BY <2>2, <3>1 DEF SerialInv, WithinCapacity
  <2>6. NothingRaised'
    BY <2>2 DEF SerialInv, TypeOK, NothingRaised
  <2> QED BY <1>s, <1>t, <2>1, <2>3, <2>4, <2>5, <2>6 DEF SerialInv
<1>3. ASSUME NEW w \in Workers, Record(w) PROVE SerialInv'
  <2>1. /\ pc[w] = "set" /\ ~ Has(memory, arg[w]) /\ arg[w] \in Ids
        /\ memory' = Append(memory, arg[w]) /\ recorded' = Append(recorded, arg[w])
        /\ pc' = [pc EXCEPT ![w] = "len"] /\ UNCHANGED <<arg, mark, oldest, outcome>>
    BY <1>3 DEF Record, Goto, SerialInv, Locals, ArgIsId
  <2>2. /\ \A v \in Workers \ {w} : pc[v] = "idle" /\ pc'[v] = "idle"
        /\ pc'[w] = "len"
    BY <2>1 DEF SerialInv, OneBusy, TypeOK
  <2>3. Len(memory) <= MaxLen
    <3>1. \A v \in Workers : pc[v] \in {"idle", "in", "set"}
      BY <2>1, <2>2
    <3> QED BY <3>1 DEF SerialInv, WithinCapacity
  <2>4. /\ Len(memory') = Len(memory) + 1 /\ Len(recorded') = Len(recorded) + 1
        /\ \A i \in 1 .. Len(memory) : memory'[i] = memory[i]
        /\ \A i \in 1 .. Len(recorded) : recorded'[i] = recorded[i]
        /\ memory'[Len(memory) + 1] = arg[w] /\ recorded'[Len(recorded) + 1] = arg[w]
        /\ DOMAIN memory = 1 .. Len(memory) /\ DOMAIN recorded = 1 .. Len(recorded)
        /\ DOMAIN memory' = 1 .. Len(memory) + 1 /\ DOMAIN recorded' = 1 .. Len(recorded) + 1
    BY <2>1 DEF SerialInv, TypeOK
  <2>5. MemoryIsSuffix'
    <3>1. /\ Len(memory) <= Len(recorded)
          /\ Len(memory) >= MaxLen \/ Len(memory) = Len(recorded)
          /\ \A i \in 1 .. Len(memory) : memory[i] = recorded[Len(recorded) - Len(memory) + i]
      BY <2>4 DEF SerialInv, MemoryIsSuffix
    <3>2. ASSUME NEW i \in 1 .. Len(memory) + 1
          PROVE  memory'[i] = recorded'[Len(recorded) + 1 - (Len(memory) + 1) + i]
      <4>1. Len(recorded) + 1 - (Len(memory) + 1) + i = Len(recorded) - Len(memory) + i
        BY <1>m
      <4>2. CASE i = Len(memory) + 1
        <5>1. Len(recorded) - Len(memory) + i = Len(recorded) + 1
          BY <1>m, <4>2
        <5> QED BY <2>4, <4>1, <4>2, <5>1
      <4>3. CASE i # Len(memory) + 1
        <5>1. i \in 1 .. Len(memory) /\ Len(recorded) - Len(memory) + i \in 1 .. Len(recorded)
          BY <1>m, <3>1, <4>3
        <5> QED BY <2>4, <3>1, <4>1, <5>1
      <4> QED BY <4>2, <4>3
    <3>3. \A i \in DOMAIN memory' : memory'[i] = recorded'[Len(recorded') - Len(memory') + i]
      BY <2>4, <3>2
    <3>4. Len(memory') = Len(memory) + 1 /\ Len(recorded') = Len(recorded) + 1
      BY <2>4
    <3>5. Len(memory) <= Len(recorded) /\ (Len(memory) >= MaxLen \/ Len(memory) = Len(recorded))
      BY <3>1
    <3>6. Len(memory') <= Len(recorded')
      BY <1>m, <3>4, <3>5
    <3>7. Len(memory') >= MaxLen \/ Len(memory') = Len(recorded')
      BY <1>m, <3>4, <3>5
    <3> QED BY <3>3, <3>6, <3>7 DEF MemoryIsSuffix
  <2>6. NoRepeatInMemory'
    BY <1>m, <2>1, <2>4 DEF SerialInv, NoRepeatInMemory, Has
  <2>7. FreshOncePerWindow'
    <3> SUFFICES ASSUME NEW i \in DOMAIN recorded', NEW j \in DOMAIN recorded',
                        i < j, recorded'[i] = recorded'[j]
                 PROVE  j - i > MaxLen
      BY DEF FreshOncePerWindow
    <3>1. CASE j <= Len(recorded)
      BY <1>m, <2>4, <3>1 DEF SerialInv, FreshOncePerWindow
    <3>2. CASE j = Len(recorded) + 1
      <4>1. i \in 1 .. Len(recorded) /\ recorded[i] = arg[w]
        BY <1>m, <2>4, <3>2
      <4>2. ~ (i > Len(recorded) - Len(memory))
        <5> SUFFICES ASSUME i > Len(recorded) - Len(memory) PROVE FALSE
          OBVIOUS
        <5> DEFINE n == i - (Len(recorded) - Len(memory))
        <5>1. n \in 1 .. Len(memory)
          BY <1>m, <4>1 DEF SerialInv, MemoryIsSuffix
        <5>2. memory[n] = recorded[Len(recorded) - Len(memory) + n]
          BY <2>4, <5>1 DEF SerialInv, MemoryIsSuffix
        <5>3. Len(recorded) - Len(memory) + n = i
          BY <1>m, <4>1
        <5> QED BY <2>1, <2>4, <4>1, <5>1, <5>2, <5>3 DEF Has
      <4>3. Len(memory) >= MaxLen \/ Len(memory) = Len(recorded)
        BY DEF SerialInv, MemoryIsSuffix
      <4> QED BY <1>m, <3>2, <4>1, <4>2, <4>3
    <3> QED BY <1>m, <2>4, <3>1, <3>2
  <2>8. WithinCapacity'
    BY <1>m, <2>2, <2>3, <2>4 DEF WithinCapacity
  <2>9. OneBusy' /\ Locals' /\ NothingRaised'
    BY <2>1, <2>2 DEF SerialInv, OneBusy, Locals, NothingRaised
  <2> QED BY <1>s, <1>t, <2>5, <2>6, <2>7, <2>8, <2>9 DEF SerialInv
<1>4. ASSUME NEW w \in Workers, CheckLen(w) PROVE SerialInv'
  <2>1. MemoryIsSuffix' /\ NoRepeatInMemory' /\ FreshOncePerWindow'
    BY <1>t, <1>4, LocalStep DEF CheckLen
  <2>2. OneBusy' /\ NothingRaised'
    BY <1>4 DEF SerialInv, TypeOK, CheckLen, Goto, Return, OneBusy, NothingRaised
  <2>3. Locals'
    BY <1>m, <1>4 DEF SerialInv, TypeOK, CheckLen, Goto, Return, Locals, WithinCapacity, OneBusy
  <2>4. WithinCapacity'
    <3>1. /\ UNCHANGED memory
          /\ pc'[w] = "iter" \/ Len(memory) <= MaxLen
      BY <1>m, <1>4 DEF SerialInv, TypeOK, CheckLen, Goto, Return
    <3>2. CASE pc'[w] = "iter"
      <4>1. ~ \A v \in Workers : pc'[v] \in {"idle", "in", "set"}
        BY <3>2
      <4> QED BY <3>1, <4>1 DEF SerialInv, WithinCapacity
    <3>3. CASE Len(memory) <= MaxLen
      BY <1>m, <3>1, <3>3 DEF WithinCapacity
    <3> QED BY <3>1, <3>2, <3>3
  <2> QED BY <1>s, <1>t, <2>1, <2>2, <2>3, <2>4 DEF SerialInv
<1>5. ASSUME NEW w \in Workers, MakeIter(w) PROVE SerialInv'
  <2>1. MemoryIsSuffix' /\ NoRepeatInMemory' /\ FreshOncePerWindow'
    BY <1>t, <1>5, LocalStep DEF MakeIter
  <2>2. OneBusy' /\ NothingRaised' /\ Locals' /\ WithinCapacity'
    BY <1>5 DEF SerialInv, TypeOK, MakeIter, Goto, OneBusy, NothingRaised, Locals, WithinCapacity
  <2> QED BY <1>s, <1>t, <2>1, <2>2 DEF SerialInv
<1>6. ASSUME NEW w \in Workers, TakeOldest(w) PROVE SerialInv'
  <2>1. MemoryIsSuffix' /\ NoRepeatInMemory' /\ FreshOncePerWindow'
    BY <1>t, <1>6, LocalStep DEF TakeOldest
  <2>2. pc[w] = "next" /\ Len(memory) = mark[w] /\ memory # <<>>
    BY <1>m, <1>6 DEF TakeOldest, SerialInv, Locals
  <2>3. /\ pc' = [pc EXCEPT ![w] = "del"] /\ oldest' = [oldest EXCEPT ![w] = memory[1]]
        /\ UNCHANGED <<memory, arg, mark, outcome, recorded>>
    BY <1>6, <2>2 DEF TakeOldest, Goto, Return
  <2>4. OneBusy' /\ NothingRaised' /\ Locals' /\ WithinCapacity'
    BY <2>2, <2>3 DEF SerialInv, TypeOK, OneBusy, NothingRaised, Locals, WithinCapacity
  <2> QED BY <1>s, <1>t, <2>1, <2>4 DEF SerialInv
<1>7. ASSUME NEW w \in Workers, Evict(w) PROVE SerialInv'
  <2>1. /\ pc[w] = "del" /\ oldest[w] = memory[1] /\ Len(memory) = MaxLen + 1
        /\ memory # <<>> /\ memory \in Seq(Ids) /\ DOMAIN memory = 1 .. Len(memory)
    BY <1>m, <1>7 DEF Evict, SerialInv, Locals, TypeOK
  <2>2. /\ Has(memory, memory[1])
        /\ Len(Without(memory, memory[1])) = Len(memory) - 1
        /\ \A i \in 1 .. Len(memory) - 1 : Without(memory, memory[1])[i] = memory[i + 1]
    BY <2>1, WithoutFirst DEF SerialInv, NoRepeatInMemory
  <2>3. /\ memory' = Without(memory, memory[1])
        /\ pc' = [pc EXCEPT ![w] = "idle"] /\ outcome' = [outcome EXCEPT ![w] = "fresh"]
        /\ UNCHANGED <<arg, mark, oldest, recorded>>
    BY <1>7, <2>1, <2>2 DEF Evict, Goto, Return
  <2>4. /\ Len(memory') = Len(memory) - 1
        /\ DOMAIN memory' = 1 .. Len(memory) - 1
        /\ \A i \in 1 .. Len(memory) - 1 : memory'[i] = memory[i + 1]
    BY <1>t, <2>2, <2>3 DEF TypeOK
  <2>5. \A v \in Workers : pc'[v] = "idle"
    BY <2>1, <2>3 DEF SerialInv, OneBusy, TypeOK
  <2>6. MemoryIsSuffix'
    <3>1. Len(memory) <= Len(recorded)
      BY DEF SerialInv, MemoryIsSuffix
    <3>2. ASSUME NEW i \in 1 .. Len(memory) - 1
          PROVE  memory'[i] = recorded[Len(recorded) - (Len(memory) - 1) + i]
      <4>1. i + 1 \in 1 .. Len(memory)
        BY <1>m
      <4>2. memory[i + 1] = recorded[Len(recorded) - Len(memory) + (i + 1)]
        BY <2>1, <4>1 DEF SerialInv, MemoryIsSuffix
      <4>3. Len(recorded) - Len(memory) + (i + 1) = Len(recorded) - (Len(memory) - 1) + i
        BY <1>m
      <4> QED BY <2>4, <4>2, <4>3
    <3>3. \A i \in DOMAIN memory' : memory'[i] = recorded'[Len(recorded') - Len(memory') + i]
      BY <2>3, <2>4, <3>2
    <3>4. /\ Len(memory') <= Len(recorded')
          /\ Len(memory') >= MaxLen \/ Len(memory') = Len(recorded')
      BY <1>m, <2>1, <2>3, <2>4, <3>1
    <3> QED BY <3>3, <3>4 DEF MemoryIsSuffix
  <2>7. NoRepeatInMemory'
    <3> SUFFICES ASSUME NEW i \in DOMAIN memory', NEW j \in DOMAIN memory',
                        memory'[i] = memory'[j]
                 PROVE  i = j
      BY DEF NoRepeatInMemory
    <3>1. i \in Nat /\ j \in Nat /\ i + 1 \in 1 .. Len(memory) /\ j + 1 \in 1 .. Len(memory)
      BY <1>m, <2>4
    <3>2. memory[i + 1] = memory[j + 1]
      BY <2>4
    <3>3. i + 1 = j + 1
      BY <2>1, <3>1, <3>2 DEF SerialInv, NoRepeatInMemory
    <3> QED BY <3>1, <3>3
  <2>8. FreshOncePerWindow'
    BY <2>3 DEF SerialInv, FreshOncePerWindow
  <2>9. WithinCapacity'
    BY <1>m, <2>1, <2>4 DEF WithinCapacity
  <2>10. OneBusy' /\ Locals'
    BY <2>5 DEF OneBusy, Locals
  <2>11. NothingRaised'
    BY <2>3 DEF SerialInv, NothingRaised, TypeOK
  <2> QED BY <1>s, <1>t, <2>6, <2>7, <2>8, <2>9, <2>10, <2>11 DEF SerialInv
<1>8. CASE UNCHANGED vars
  <2>1. MemoryIsSuffix' /\ NoRepeatInMemory' /\ FreshOncePerWindow'
    BY <1>t, <1>8, LocalStep DEF vars
  <2> QED
    BY <1>s, <1>t, <1>8, <2>1 DEF vars, SerialInv, OneBusy, WithinCapacity, Locals, NothingRaised
<1> QED
  BY <1>1, <1>2, <1>3, <1>4, <1>5, <1>6, <1>7, <1>8 DEF Next, Worker

\* The inductive invariant of calls that do not overlap, as on one event loop,
\* for every capacity and every set of ids.
THEOREM SerialInvariance == Spec => []IInv
<1>1. Init => IInv
  BY SerialInit DEF IInv
<1>2. IInv /\ [Next]_vars => IInv'
  BY SerialFrozen, SerialStep DEF IInv
<1> QED BY <1>1, <1>2, PTL DEF Spec

\* When calls do not overlap, two notifications with one id are both taken for
\* fresh only when MaxLen other ids were recorded between them.
THEOREM FreshOnceHolds == Spec => []FreshOnce
<1>1. IInv => FreshOnce
  BY DEF IInv, SerialInv, FreshOnce
<1> QED BY <1>1, SerialInvariance, PTL

\* Between calls that do not overlap the memory is exactly the last MaxLen ids
\* recorded.
THEOREM WindowHolds == Spec => []MemoryIsWindow
<1>1. IInv => MemoryIsWindow
  <2> SUFFICES ASSUME SerialInv, Idle PROVE MemoryIsWindow
    BY DEF IInv, MemoryIsWindow
  <2>1. Len(memory) <= MaxLen
    BY DEF SerialInv, WithinCapacity, Idle
  <2>2. Len(memory) \in Nat /\ MaxLen \in Nat
    BY MaxLenAssumption DEF SerialInv, TypeOK
  <2> QED BY <2>1, <2>2 DEF SerialInv, MemoryIsSuffix, MemoryIsWindow
<1> QED BY <1>1, SerialInvariance, PTL

\* Unless calls overlap, seen() never raises.
THEOREM NeverRaisesHolds == Spec => []NeverRaises
<1>1. IInv => NeverRaises
  BY DEF IInv, SerialInv, NeverRaises
<1> QED BY <1>1, SerialInvariance, PTL
-----------------------------------------------------------------------------
\* What is remembered was recorded, and no statement changes that, whatever
\* the threads do: an id is inserted and recorded at once.
OnlyRecorded == \A x \in Ids : Has(memory, x) => Has(recorded, x)

LEMMA OnlyRecordedStep ==
  TypeOK /\ ArgIsId /\ OnlyRecorded /\ [Next]_vars => OnlyRecorded'
<1> SUFFICES ASSUME TypeOK, ArgIsId, OnlyRecorded, [Next]_vars PROVE OnlyRecorded'
  OBVIOUS
<1>1. ASSUME NEW w \in Workers, Record(w) PROVE OnlyRecorded'
  <2>1. arg[w] \in Ids /\ memory \in Seq(Ids) /\ recorded \in Seq(Ids)
    BY <1>1 DEF Record, ArgIsId, TypeOK
  <2>2. ASSUME NEW x \in Ids, Has(memory', x) PROVE Has(recorded', x)
    <3>1. Has(memory, x) \/ x = arg[w]
      BY <1>1, <2>1, <2>2, HasAppend DEF Record
    <3> QED BY <1>1, <2>1, <3>1, HasAppend DEF Record, OnlyRecorded
  <2> QED BY <2>2 DEF OnlyRecorded
<1>2. ASSUME NEW w \in Workers, Evict(w) PROVE OnlyRecorded'
  BY <1>2, HasWithout DEF Evict, TypeOK, OnlyRecorded
<1>3. ASSUME UNCHANGED <<memory, recorded>> PROVE OnlyRecorded'
  BY <1>3 DEF OnlyRecorded
<1> QED
  BY <1>1, <1>2, <1>3
     DEF Next, Worker, vars, Call, CheckIn, CheckLen, MakeIter, TakeOldest

\* seen() returns True only for an id that some call recorded, for any number
\* of threads and however they interleave.
THEOREM NoFalseDuplicateHolds == Spec => NoFalseDuplicate
<1>1. Init => TypeOK /\ ArgIsId /\ OnlyRecorded
  <2>1. Init => OnlyRecorded
    BY DEF Init, OnlyRecorded, Has
  <2> QED BY <2>1, TypeInit
<1>2. TypeOK /\ ArgIsId /\ OnlyRecorded /\ [Next]_vars
        => TypeOK' /\ ArgIsId' /\ OnlyRecorded'
  BY TypeStep, OnlyRecordedStep
<1>3. TypeOK /\ ArgIsId /\ OnlyRecorded /\ [Next]_vars
        => [\A w \in Workers :
              pc[w] = "in" /\ pc'[w] = "idle" => Has(recorded, arg[w])]_vars
  <2> SUFFICES ASSUME TypeOK, ArgIsId, OnlyRecorded, Next,
                      NEW w \in Workers, pc[w] = "in", pc'[w] = "idle"
               PROVE  Has(recorded, arg[w])
    BY DEF vars
  <2>1. PICK v \in Workers : Worker(v)
    BY DEF Next
  <2>2. v = w
    BY <2>1 DEF Worker, Call, CheckIn, Record, CheckLen, MakeIter, TakeOldest, Evict,
                Goto, Return, TypeOK
  <2>3. CheckIn(w)
    BY <2>1, <2>2 DEF Worker, Call, Record, CheckLen, MakeIter, TakeOldest, Evict
  <2>4. Has(memory, arg[w])
    BY <2>3 DEF CheckIn, Goto, TypeOK
  <2>5. arg[w] \in Ids
    BY DEF ArgIsId
  <2> QED BY <2>4, <2>5 DEF OnlyRecorded
<1> QED BY <1>1, <1>2, <1>3, PTL DEF Spec, NoFalseDuplicate
-----------------------------------------------------------------------------
(***************************************************************************)
(* Overlapping calls.  The sets of the calls that have inserted their id,  *)
(* and of those that evict, change by one call at a time.                  *)
(***************************************************************************)
LEMMA SetsFinite ==
  /\ IsFiniteSet(Inserted) /\ Cardinality(Inserted) \in Nat
  /\ IsFiniteSet(Evicting) /\ Cardinality(Evicting) \in Nat
  /\ Cardinality(Evicting) <= Cardinality(Workers) /\ Cardinality(Workers) \in Nat
<1>1. Inserted \in SUBSET Workers /\ Evicting \in SUBSET Workers
  BY DEF Inserted, Evicting
<1> QED BY <1>1, WorkersAssumption, FS_Subset, FS_CardinalityType

\* The step of w to l puts w in a set of statements, or takes it out.
LEMMA SetsStep ==
  ASSUME TypeOK, NEW w \in Workers, NEW l \in PCs, Goto(w, l)
  PROVE  /\ Inserted' = IF l \in {"len", "iter", "next", "del"}
                          THEN Inserted \cup {w} ELSE Inserted \ {w}
         /\ Evicting' = IF l \in {"iter", "next", "del"}
                          THEN Evicting \cup {w} ELSE Evicting \ {w}
<1>1. pc' = [pc EXCEPT ![w] = l] /\ pc \in [Workers -> PCs]
  BY DEF Goto, TypeOK
<1>2. pc'[w] = l /\ \A v \in Workers \ {w} : pc'[v] = pc[v]
  BY <1>1
<1>3. /\ Inserted' = {v \in Workers : pc'[v] \in {"len", "iter", "next", "del"}}
      /\ Evicting' = {v \in Workers : pc'[v] \in {"iter", "next", "del"}}
  BY DEF Inserted, Evicting
<1>4. Inserted' = IF l \in {"len", "iter", "next", "del"}
                    THEN Inserted \cup {w} ELSE Inserted \ {w}
  BY <1>2, <1>3 DEF Inserted
<1>5. Evicting' = IF l \in {"iter", "next", "del"}
                    THEN Evicting \cup {w} ELSE Evicting \ {w}
  BY <1>2, <1>3 DEF Evicting
<1> QED BY <1>4, <1>5

\* How many calls are in each set after the step of w to l.
LEMMA CountStep ==
  ASSUME TypeOK, NEW w \in Workers, NEW l \in PCs, Goto(w, l)
  PROVE  /\ Cardinality(Inserted') =
              IF l \in {"len", "iter", "next", "del"}
                THEN IF w \in Inserted THEN Cardinality(Inserted) ELSE Cardinality(Inserted) + 1
                ELSE IF w \in Inserted THEN Cardinality(Inserted) - 1 ELSE Cardinality(Inserted)
         /\ Cardinality(Evicting') =
              IF l \in {"iter", "next", "del"}
                THEN IF w \in Evicting THEN Cardinality(Evicting) ELSE Cardinality(Evicting) + 1
                ELSE IF w \in Evicting THEN Cardinality(Evicting) - 1 ELSE Cardinality(Evicting)
BY SetsStep, SetsFinite, FS_AddElement, FS_RemoveElement

\* What each statement of w does to the dict's length, the calls that have
\* inserted their id, those that evict, and those that raised.
LEMMA LengthStep ==
  ASSUME TypeOK, ArgIsId, NEW w \in Workers, Worker(w)
  PROVE  \/ /\ UNCHANGED <<memory, recorded, raised>>
            /\ Inserted' = Inserted /\ Evicting' = Evicting
         \/ /\ Len(memory') \in {Len(memory), Len(memory) + 1} /\ raised' = raised
            /\ memory' = IF Has(memory, arg[w]) THEN memory ELSE Append(memory, arg[w])
            /\ recorded' = Append(recorded, arg[w]) /\ arg[w] \in Ids
            /\ Cardinality(Inserted') = Cardinality(Inserted) + 1 /\ Evicting' = Evicting
         \/ /\ Len(memory) <= MaxLen /\ UNCHANGED <<memory, recorded, raised>>
            /\ Cardinality(Inserted') = Cardinality(Inserted) - 1 /\ Evicting' = Evicting
         \/ /\ Len(memory) > MaxLen /\ UNCHANGED <<memory, recorded, raised>>
            /\ Inserted' = Inserted
         \/ /\ raised' = raised + 1 /\ UNCHANGED <<memory, recorded>> /\ Evicting # {}
            /\ Cardinality(Inserted') = Cardinality(Inserted) - 1
            /\ Cardinality(Evicting') = Cardinality(Evicting) - 1
         \/ /\ Len(memory') = Len(memory) - 1 /\ UNCHANGED <<recorded, raised>>
            /\ Evicting # {}
            /\ Cardinality(Inserted') = Cardinality(Inserted) - 1
            /\ Cardinality(Evicting') = Cardinality(Evicting) - 1
<1>p. /\ \A l \in {"len", "iter", "next", "del"} : pc[w] = l => w \in Inserted
      /\ \A l \in {"idle", "in", "set"} : pc[w] = l => w \notin Inserted /\ w \notin Evicting
      /\ \A l \in {"iter", "next", "del"} : pc[w] = l => w \in Evicting
      /\ pc[w] = "len" => w \notin Evicting
  BY DEF Inserted, Evicting
<1>n. memory \in Seq(Ids) /\ Len(memory) \in Nat
  BY DEF TypeOK
<1>1. ASSUME NEW id \in Ids \cup {NoId}, Call(w, id)
      PROVE  /\ UNCHANGED <<memory, recorded, raised>>
             /\ Inserted' = Inserted /\ Evicting' = Evicting
  <2>1. PICK l \in {"idle", "in"} : Goto(w, l)
    BY <1>1 DEF Call, Return
  <2>2. pc[w] = "idle" /\ UNCHANGED <<memory, recorded, raised>>
    BY <1>1 DEF Call, Return
  <2> QED BY <1>p, <2>1, <2>2, SetsStep DEF PCs
<1>2. ASSUME CheckIn(w)
      PROVE  /\ UNCHANGED <<memory, recorded, raised>>
             /\ Inserted' = Inserted /\ Evicting' = Evicting
  <2>1. PICK l \in {"idle", "set"} : Goto(w, l)
    BY <1>2 DEF CheckIn, Return
  <2>2. pc[w] = "in" /\ UNCHANGED <<memory, recorded, raised>>
    BY <1>2 DEF CheckIn, Return
  <2> QED BY <1>p, <2>1, <2>2, SetsStep DEF PCs
<1>3. ASSUME Record(w)
      PROVE  /\ Len(memory') \in {Len(memory), Len(memory) + 1} /\ raised' = raised
             /\ memory' = IF Has(memory, arg[w]) THEN memory ELSE Append(memory, arg[w])
             /\ recorded' = Append(recorded, arg[w]) /\ arg[w] \in Ids
             /\ Cardinality(Inserted') = Cardinality(Inserted) + 1 /\ Evicting' = Evicting
  <2>1. /\ pc[w] = "set" /\ Goto(w, "len") /\ raised' = raised
        /\ memory' = IF Has(memory, arg[w]) THEN memory ELSE Append(memory, arg[w])
        /\ recorded' = Append(recorded, arg[w])
    BY <1>3 DEF Record
  <2>2. arg[w] \in Ids
    BY <2>1 DEF ArgIsId
  <2>3. Len(memory') \in {Len(memory), Len(memory) + 1}
    BY <1>n, <2>1, <2>2
  <2>4. Cardinality(Inserted') = Cardinality(Inserted) + 1
    BY <1>p, <2>1, CountStep DEF PCs
  <2>5. Evicting' = Evicting
    BY <1>p, <2>1, SetsStep DEF PCs
  <2> QED BY <2>1, <2>2, <2>3, <2>4, <2>5
<1>4. ASSUME CheckLen(w)
      PROVE  \/ /\ Len(memory) <= MaxLen /\ UNCHANGED <<memory, recorded, raised>>
                /\ Cardinality(Inserted') = Cardinality(Inserted) - 1 /\ Evicting' = Evicting
             \/ /\ Len(memory) > MaxLen /\ UNCHANGED <<memory, recorded, raised>>
                /\ Inserted' = Inserted
  <2>1. pc[w] = "len" /\ UNCHANGED <<memory, recorded, raised>>
    BY <1>4 DEF CheckLen, Return
  <2>2. CASE Len(memory) > MaxLen
    <3>1. Goto(w, "iter")
      BY <1>4, <2>2 DEF CheckLen
    <3>2. Inserted' = Inserted
      BY <1>p, <2>1, <3>1, SetsStep DEF PCs
    <3> QED BY <2>1, <2>2, <3>2
  <2>3. CASE ~ (Len(memory) > MaxLen)
    <3>1. Goto(w, "idle") /\ Len(memory) <= MaxLen
      BY <1>4, <1>n, <2>3, MaxLenAssumption DEF CheckLen, Return
    <3>2. Cardinality(Inserted') = Cardinality(Inserted) - 1
      BY <1>p, <2>1, <3>1, CountStep DEF PCs
    <3>3. Evicting' = Evicting
      BY <1>p, <2>1, <3>1, SetsStep DEF PCs
    <3> QED BY <2>1, <3>1, <3>2, <3>3
  <2> QED BY <2>2, <2>3
<1>5. ASSUME NEW l \in {"next", "del"}, Goto(w, l), pc[w] \in {"iter", "next"}
      PROVE  Inserted' = Inserted /\ Evicting' = Evicting
  BY <1>p, <1>5, SetsStep DEF PCs
<1>6. ASSUME pc[w] \in {"next", "del"}, Goto(w, "idle")
      PROVE  /\ Evicting # {}
             /\ Cardinality(Inserted') = Cardinality(Inserted) - 1
             /\ Cardinality(Evicting') = Cardinality(Evicting) - 1
  BY <1>p, <1>6, CountStep DEF PCs
<1>7. CASE MakeIter(w)
  <2>1. pc[w] = "iter" /\ Goto(w, "next") /\ UNCHANGED <<memory, recorded, raised>>
    BY <1>7 DEF MakeIter
  <2> QED BY <1>5, <2>1
<1>8. CASE TakeOldest(w)
  <2>1. pc[w] = "next" /\ UNCHANGED <<memory, recorded>>
    BY <1>8 DEF TakeOldest
  <2>2. CASE Goto(w, "idle") /\ raised' = raised + 1
    BY <1>6, <2>1, <2>2
  <2>3. CASE Goto(w, "del") /\ UNCHANGED raised
    BY <1>5, <2>1, <2>3
  <2> QED BY <1>8, <2>2, <2>3 DEF TakeOldest, Return
<1>9. CASE Evict(w)
  <2>1. pc[w] = "del" /\ Goto(w, "idle") /\ UNCHANGED recorded
    BY <1>9 DEF Evict, Return
  <2>2. CASE Has(memory, oldest[w])
    <3>1. memory' = Without(memory, oldest[w]) /\ UNCHANGED raised
      BY <1>9, <2>2 DEF Evict, Return
    <3>2. Len(memory') = Len(memory) - 1
      BY <1>n, <2>2, <3>1, WithoutLen
    <3> QED BY <1>6, <2>1, <3>1, <3>2
  <2>3. CASE ~ Has(memory, oldest[w])
    <3>1. UNCHANGED memory /\ raised' = raised + 1
      BY <1>9, <2>3 DEF Evict, Return
    <3> QED BY <1>6, <2>1, <3>1
  <2> QED BY <2>2, <2>3
<1> QED BY <1>1, <1>2, <1>3, <1>4, <1>7, <1>8, <1>9 DEF Worker

\* Whatever the threads do, the dict outgrows its capacity by no more than the
\* calls under way and those that raised.
THEOREM MemoryBoundedHolds == Spec => []MemoryBounded
<1>1. Init => MemoryBounded
  BY SetsFinite, MaxLenAssumption DEF Init, MemoryBounded
<1>2. TypeOK /\ ArgIsId /\ MemoryBounded /\ [Next]_vars => MemoryBounded'
  <2> SUFFICES ASSUME TypeOK, ArgIsId, MemoryBounded, [Next]_vars PROVE MemoryBounded'
    OBVIOUS
  <2>n. /\ Len(memory) \in Nat /\ MaxLen \in Nat /\ raised \in Nat
        /\ Cardinality(Inserted) \in Nat
    BY SetsFinite, MaxLenAssumption DEF TypeOK
  <2>b. Len(memory) <= MaxLen + Cardinality(Inserted) + raised
    BY DEF MemoryBounded
  <2>p. MemoryBounded' <=> Len(memory') <= MaxLen + Cardinality(Inserted') + raised'
    BY DEF MemoryBounded
  <2>1. CASE UNCHANGED vars
    <3>1. memory' = memory /\ Inserted' = Inserted /\ raised' = raised
      BY <2>1 DEF vars, Inserted
    <3> QED BY <2>b, <2>p, <3>1
  <2>2. ASSUME NEW w \in Workers, Worker(w) PROVE MemoryBounded'
    <3>1. \/ memory' = memory /\ raised' = raised /\ Inserted' = Inserted
          \/ /\ Len(memory') \in {Len(memory), Len(memory) + 1} /\ raised' = raised
             /\ Cardinality(Inserted') = Cardinality(Inserted) + 1
          \/ /\ Len(memory) <= MaxLen /\ memory' = memory /\ raised' = raised
             /\ Cardinality(Inserted') = Cardinality(Inserted) - 1
          \/ /\ raised' = raised + 1 /\ memory' = memory
             /\ Cardinality(Inserted') = Cardinality(Inserted) - 1
          \/ /\ Len(memory') = Len(memory) - 1 /\ raised' = raised
             /\ Cardinality(Inserted') = Cardinality(Inserted) - 1
      BY <2>2, LengthStep
    <3>2. Cardinality(Inserted') \in Nat
      <4>1. Inserted' \in SUBSET Workers
        BY DEF Inserted
      <4> QED BY <4>1, WorkersAssumption, FS_Subset, FS_CardinalityType
    <3> QED BY <2>n, <2>b, <2>p, <3>1, <3>2
  <2> QED BY <2>1, <2>2 DEF Next
<1> QED BY <1>1, <1>2, TypeInit, TypeStep, PTL DEF Spec

\* Nor do calls that evict at the same time forget more than one id for each
\* thread but one.
THEOREM WindowKeptHolds == Spec => []WindowKept
<1>1. Init => WindowKept
  BY DEF Init, WindowKept, Evicting
<1>2. TypeOK /\ ArgIsId /\ WindowKept /\ [Next]_vars => WindowKept'
  <2> SUFFICES ASSUME TypeOK, ArgIsId, WindowKept, [Next]_vars PROVE WindowKept'
    OBVIOUS
  <2>n. /\ Len(memory) \in Nat /\ MaxLen \in Nat
        /\ memory \in Seq(Ids) /\ recorded \in Seq(Ids)
        /\ Cardinality(Evicting) \in Nat /\ Cardinality(Workers) \in Nat
        /\ Cardinality(Evicting') <= Cardinality(Workers)
        /\ Cardinality(Evicting') \in Nat
    <3>1. Evicting' \in SUBSET Workers
      BY DEF Evicting
    <3>2. Cardinality(Evicting') <= Cardinality(Workers) /\ Cardinality(Evicting') \in Nat
      BY <3>1, WorkersAssumption, FS_Subset, FS_CardinalityType
    <3> QED BY <3>2, SetsFinite, MaxLenAssumption DEF TypeOK
  <2> DEFINE Left(n, e) == n - e > MaxLen - Cardinality(Workers)
  <2>p. /\ WindowKept <=> \/ Left(Len(memory), Cardinality(Evicting))
                          \/ Evicting = {} /\ \A i \in DOMAIN recorded : Has(memory, recorded[i])
        /\ WindowKept' <=> \/ Left(Len(memory'), Cardinality(Evicting'))
                           \/ Evicting' = {} /\ \A i \in DOMAIN recorded' : Has(memory', recorded'[i])
    BY DEF WindowKept
  <2>1. CASE memory' = memory /\ recorded' = recorded /\ Evicting' = Evicting
    BY <2>p, <2>1
  <2>2. ASSUME NEW w \in Workers,
               Len(memory') \in {Len(memory), Len(memory) + 1},
               memory' = IF Has(memory, arg[w]) THEN memory ELSE Append(memory, arg[w]),
               recorded' = Append(recorded, arg[w]), arg[w] \in Ids, Evicting' = Evicting
        PROVE  WindowKept'
    <3>1. CASE Left(Len(memory), Cardinality(Evicting))
      <4>1. Left(Len(memory'), Cardinality(Evicting'))
        BY <2>n, <2>2, <3>1
      <4> QED BY <2>p, <4>1
    <3>2. CASE Evicting = {} /\ \A i \in DOMAIN recorded : Has(memory, recorded[i])
      <4>1. \A x : Has(memory, x) \/ x = arg[w] => Has(memory', x)
        BY <2>n, <2>2, HasAppend
      <4>2. ASSUME NEW i \in DOMAIN recorded' PROVE Has(memory', recorded'[i])
        <5>1. Has(recorded', recorded'[i])
          BY <4>2 DEF Has
        <5>2. Has(recorded, recorded'[i]) \/ recorded'[i] = arg[w]
          BY <2>n, <2>2, <5>1, HasAppend
        <5>3. Has(recorded, recorded'[i]) => Has(memory, recorded'[i])
          BY <3>2 DEF Has
        <5> QED BY <4>1, <5>2, <5>3
      <4> QED BY <2>p, <2>2, <3>2, <4>2
    <3> QED BY <2>p, <3>1, <3>2
  <2>3. ASSUME Len(memory) > MaxLen, memory' = memory PROVE WindowKept'
    <3>1. Left(Len(memory'), Cardinality(Evicting'))
      BY <2>n, <2>3
    <3> QED BY <2>p, <3>1
  <2>4. ASSUME Evicting # {}, Len(memory') \in {Len(memory), Len(memory) - 1},
               Cardinality(Evicting') = Cardinality(Evicting) - 1
        PROVE  WindowKept'
    <3>1. Left(Len(memory), Cardinality(Evicting))
      BY <2>p, <2>4
    <3>2. Left(Len(memory'), Cardinality(Evicting'))
      BY <2>n, <2>4, <3>1
    <3> QED BY <2>p, <3>2
  <2>5. ASSUME NEW w \in Workers, Worker(w) PROVE WindowKept'
    <3> HIDE DEF Left
    <3> QED BY <2>1, <2>2, <2>3, <2>4, <2>5, LengthStep
  <2>6. CASE UNCHANGED vars
    BY <2>1, <2>6 DEF vars, Evicting
  <2> QED BY <2>5, <2>6 DEF Next
<1> QED BY <1>1, <1>2, TypeInit, TypeStep, PTL DEF Spec
-----------------------------------------------------------------------------
Verdicts == [w \in Workers |-> VerdictOf(w)]

\* A step of w changes the verdict of w alone.
LEMMA VerdictStep ==
  ASSUME TypeOK, NEW w \in Workers, NEW l \in PCs,
         pc' = [pc EXCEPT ![w] = l],
         outcome' = outcome \/ outcome' = [outcome EXCEPT ![w] = outcome'[w]]
  PROVE  Verdicts' = [Verdicts EXCEPT ![w] = VerdictOf(w)']
<1>1. \A v \in Workers \ {w} : pc'[v] = pc[v] /\ outcome'[v] = outcome[v]
  BY DEF TypeOK
<1>2. \A v \in Workers \ {w} : VerdictOf(v)' = VerdictOf(v)
  BY <1>1 DEF VerdictOf
<1>3. Verdicts' = [v \in Workers |-> VerdictOf(v)']
  BY DEF Verdicts
<1>4. [Verdicts EXCEPT ![w] = VerdictOf(w)']
        = [v \in Workers |-> IF v = w THEN VerdictOf(w)' ELSE VerdictOf(v)]
  BY DEF Verdicts
<1>5. \A v \in Workers :
        VerdictOf(v)' = IF v = w THEN VerdictOf(w)' ELSE VerdictOf(v)
  BY <1>2
<1> QED BY <1>3, <1>4, <1>5

WindowNext == Window!Next \/ UNCHANGED <<WindowOf, Verdicts>>

\* A step of w that leaves the window and its verdict alone is a stutter.
LEMMA StutterStep ==
  ASSUME TypeOK, NEW w \in Workers, NEW l \in PCs,
         pc' = [pc EXCEPT ![w] = l],
         outcome' = outcome \/ outcome' = [outcome EXCEPT ![w] = outcome'[w]],
         VerdictOf(w)' = VerdictOf(w), WindowOf' = WindowOf
  PROVE  WindowNext
<1>1. Verdicts' = [Verdicts EXCEPT ![w] = VerdictOf(w)']
  BY VerdictStep
<1>2. Verdicts' = Verdicts
  BY <1>1 DEF Verdicts
<1> QED BY <1>2 DEF WindowNext

\* Without overlap, every statement of seen() is a step of the window or is
\* not seen: the insertion decides, the eviction is hidden.
LEMMA WindowStep == SerialInv /\ [Next]_vars => WindowNext
<1> SUFFICES ASSUME SerialInv, [Next]_vars PROVE WindowNext
  OBVIOUS
<1>t. TypeOK /\ ArgIsId /\ serial
  BY DEF SerialInv
<1>m. /\ Len(memory) \in Nat /\ MaxLen \in Nat \ {0}
      /\ memory \in Seq(Ids) /\ ~ Has(memory, NoId)
  BY <1>t, MaxLenAssumption, NoIdAssumption DEF TypeOK, Has
<1>w. ASSUME NEW w \in Workers, pc[w] \in {"idle", "in", "set"},
             serial => (pc[w] = "idle" => \A v \in Workers : pc[v] = "idle")
      PROVE  Len(memory) <= MaxLen /\ WindowOf = memory
  <2>1. \A v \in Workers : pc[v] \in {"idle", "in", "set"}
    BY <1>t, <1>w DEF SerialInv, OneBusy
  <2> QED BY <1>m, <2>1 DEF SerialInv, WithinCapacity, WindowOf
<1>1. ASSUME NEW w \in Workers, NEW id \in Ids \cup {NoId}, Call(w, id) PROVE WindowNext
  <2>1. Len(memory) <= MaxLen /\ WindowOf = memory /\ WindowOf' = WindowOf
    BY <1>1, <1>w DEF Call, WindowOf
  <2>2. CASE id = NoId
    <3>1. /\ pc' = [pc EXCEPT ![w] = "idle"] /\ outcome' = [outcome EXCEPT ![w] = "fresh"]
          /\ outcome'[w] = "fresh" /\ VerdictOf(w)' = "fresh"
      BY <1>t, <1>1, <2>2 DEF Call, Return, Goto, TypeOK, VerdictOf
    <3>2. Verdicts' = [Verdicts EXCEPT ![w] = "fresh"]
      BY <1>t, <3>1, VerdictStep DEF PCs
    <3>3. Window!Decide(w, NoId)
      BY <1>m, <2>1, <3>2 DEF Window!Decide, Window!Has, Window!Remember, Has, Remember, Verdicts
    <3> QED BY <3>3 DEF WindowNext, Window!Next
  <2>3. CASE id # NoId
    <3>1. /\ pc' = [pc EXCEPT ![w] = "in"] /\ outcome' = outcome
          /\ VerdictOf(w)' = "none"
      BY <1>t, <1>1, <2>3 DEF Call, Goto, TypeOK, VerdictOf
    <3>2. Verdicts' = [Verdicts EXCEPT ![w] = "none"]
      BY <1>t, <3>1, VerdictStep DEF PCs
    <3>3. Window!Ask(w)
      BY <2>1, <3>2 DEF Window!Ask, Verdicts
    <3> QED BY <3>3 DEF WindowNext, Window!Next
  <2> QED BY <2>2, <2>3
<1>2. ASSUME NEW w \in Workers, CheckIn(w) PROVE WindowNext
  <2>1. Len(memory) <= MaxLen /\ WindowOf = memory /\ WindowOf' = WindowOf
    BY <1>2, <1>w DEF CheckIn, WindowOf
  <2>2. CASE Has(memory, arg[w])
    <3>1. /\ pc' = [pc EXCEPT ![w] = "idle"] /\ outcome' = [outcome EXCEPT ![w] = "duplicate"]
          /\ outcome'[w] = "duplicate" /\ VerdictOf(w)' = "duplicate" /\ arg[w] \in Ids
      BY <1>t, <1>2, <2>2 DEF CheckIn, Return, Goto, TypeOK, VerdictOf, ArgIsId
    <3>2. Verdicts' = [Verdicts EXCEPT ![w] = "duplicate"]
      BY <1>t, <3>1, VerdictStep DEF PCs
    <3>3. Window!Decide(w, arg[w])
      BY <1>m, <2>1, <2>2, <3>2 DEF Window!Decide, Window!Has, Window!Remember, Has, Remember, Verdicts
    <3> QED BY <3>1, <3>3 DEF WindowNext, Window!Next
  <2>3. CASE ~ Has(memory, arg[w])
    <3>1. /\ pc' = [pc EXCEPT ![w] = "set"] /\ outcome' = outcome
          /\ VerdictOf(w)' = VerdictOf(w)
      BY <1>t, <1>2, <2>3 DEF CheckIn, Goto, TypeOK, VerdictOf
    <3> QED BY <1>t, <2>1, <3>1, StutterStep DEF PCs
  <2> QED BY <2>2, <2>3
<1>3. ASSUME NEW w \in Workers, Record(w) PROVE WindowNext
  <2>1. Len(memory) <= MaxLen /\ WindowOf = memory
    BY <1>3, <1>w DEF Record
  <2>2. /\ pc[w] = "set" /\ ~ Has(memory, arg[w]) /\ arg[w] \in Ids /\ arg[w] # NoId
        /\ memory' = Append(memory, arg[w])
        /\ pc' = [pc EXCEPT ![w] = "len"] /\ outcome' = outcome
        /\ VerdictOf(w)' = "fresh"
    BY <1>t, <1>3, NoIdAssumption
       DEF Record, Goto, SerialInv, Locals, ArgIsId, TypeOK, VerdictOf
  <2>3. Verdicts' = [Verdicts EXCEPT ![w] = "fresh"]
    BY <1>t, <2>2, VerdictStep DEF PCs
  <2>4. WindowOf' = Remember(memory, arg[w], NoId, MaxLen)
    <3>1. Len(memory') = Len(memory) + 1
      BY <1>m, <2>2
    <3>2. CASE Len(memory) < MaxLen
      BY <1>m, <2>2, <3>1, <3>2 DEF WindowOf, Remember
    <3>3. CASE Len(memory) = MaxLen
      <4>1. Tail(Append(memory, arg[w])) = Append(Tail(memory), arg[w])
        <5>1. memory # <<>>
          BY <1>m, <3>3
        <5> QED BY <1>m, <2>2, <5>1
      <4>2. WindowOf' = Tail(Append(memory, arg[w]))
        BY <1>m, <2>2, <3>1, <3>3 DEF WindowOf
      <4>3. Remember(memory, arg[w], NoId, MaxLen) = Append(Tail(memory), arg[w])
        BY <1>m, <2>2, <3>3 DEF Remember
      <4> QED BY <4>1, <4>2, <4>3
    <3> QED BY <1>m, <2>1, <3>2, <3>3
  <2>5. Window!Decide(w, arg[w])
    BY <2>1, <2>2, <2>3, <2>4
       DEF Window!Decide, Window!Has, Window!Remember, Has, Remember, Verdicts
  <2> QED BY <2>2, <2>5 DEF WindowNext, Window!Next
<1>4. ASSUME NEW w \in Workers, CheckLen(w) PROVE WindowNext
  <2>1. VerdictOf(w)' = VerdictOf(w) /\ WindowOf' = WindowOf
    BY <1>t, <1>4 DEF CheckLen, Goto, Return, TypeOK, VerdictOf, WindowOf
  <2>2. CASE pc' = [pc EXCEPT ![w] = "iter"] /\ outcome' = outcome
    BY <1>t, <2>1, <2>2, StutterStep DEF PCs
  <2>3. CASE pc' = [pc EXCEPT ![w] = "idle"] /\ outcome' = [outcome EXCEPT ![w] = "fresh"]
    <3>1. outcome'[w] = "fresh"
      BY <1>t, <2>3 DEF TypeOK
    <3> QED BY <1>t, <2>1, <2>3, <3>1, StutterStep DEF PCs
  <2> QED BY <1>4, <2>2, <2>3 DEF CheckLen, Goto, Return
<1>5. ASSUME NEW w \in Workers, MakeIter(w) PROVE WindowNext
  <2>1. /\ pc' = [pc EXCEPT ![w] = "next"] /\ outcome' = outcome
        /\ VerdictOf(w)' = VerdictOf(w) /\ WindowOf' = WindowOf
    BY <1>t, <1>5 DEF MakeIter, Goto, TypeOK, VerdictOf, WindowOf
  <2> QED BY <1>t, <2>1, StutterStep DEF PCs
<1>6. ASSUME NEW w \in Workers, TakeOldest(w) PROVE WindowNext
  <2>1. pc[w] = "next" /\ Len(memory) = mark[w] /\ memory # <<>>
    BY <1>m, <1>6 DEF TakeOldest, SerialInv, Locals
  <2>2. /\ pc' = [pc EXCEPT ![w] = "del"] /\ outcome' = outcome
        /\ VerdictOf(w)' = VerdictOf(w) /\ WindowOf' = WindowOf
    BY <1>t, <1>6, <2>1 DEF TakeOldest, Goto, Return, TypeOK, VerdictOf, WindowOf
  <2> QED BY <1>t, <2>2, StutterStep DEF PCs
<1>7. ASSUME NEW w \in Workers, Evict(w) PROVE WindowNext
  <2>1. /\ pc[w] = "del" /\ oldest[w] = memory[1] /\ Len(memory) = MaxLen + 1
        /\ memory # <<>>
    BY <1>m, <1>7 DEF Evict, SerialInv, Locals
  <2>2. Has(memory, memory[1]) /\ Without(memory, memory[1]) = Tail(memory)
    BY <1>m, <2>1, WithoutFirst, WithoutFirstIsTail DEF SerialInv, NoRepeatInMemory
  <2>3. /\ memory' = Tail(memory) /\ pc' = [pc EXCEPT ![w] = "idle"]
        /\ outcome' = [outcome EXCEPT ![w] = "fresh"] /\ outcome'[w] = "fresh"
        /\ VerdictOf(w)' = VerdictOf(w)
    BY <1>t, <1>7, <2>1, <2>2 DEF Evict, Goto, Return, TypeOK, VerdictOf
  <2>4. WindowOf' = WindowOf
    <3>1. Len(Tail(memory)) = MaxLen
      BY <1>m, <2>1
    <3> QED BY <1>m, <2>1, <2>3, <3>1 DEF WindowOf
  <2> QED BY <1>t, <2>3, <2>4, StutterStep DEF PCs
<1>8. CASE UNCHANGED vars
  BY <1>8 DEF vars, WindowNext, WindowOf, Verdicts, VerdictOf
<1> QED
  BY <1>1, <1>2, <1>3, <1>4, <1>5, <1>6, <1>7, <1>8 DEF Next, Worker

\* The deduplicator implements the window its class promises, whenever calls do
\* not overlap, for every capacity and every set of ids.
THEOREM WindowImplemented == Spec => ImplementsWindow
<1>1. Init => (serial => Window!Init)
  <2> SUFFICES ASSUME Init PROVE Window!Init
    OBVIOUS
  <2>1. WindowOf = <<>>
    BY MaxLenAssumption DEF Init, WindowOf
  <2>2. Verdicts = [w \in Workers |-> "none"]
    BY DEF Init, Verdicts, VerdictOf
  <2> QED BY <2>1, <2>2 DEF Window!Init, Verdicts
<1>2. IInv /\ [Next]_vars
        => [serial => Window!Next]_<<WindowOf, [w \in Workers |-> VerdictOf(w)]>>
  BY WindowStep DEF IInv, WindowNext, Verdicts
<1> QED BY <1>1, <1>2, SerialInvariance, PTL DEF Spec, ImplementsWindow
=============================================================================
