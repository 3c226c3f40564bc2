---------------------- MODULE NotificationDeduplicator ----------------------
(***************************************************************************)
(* NotificationDeduplicator of pysibs/webhooks.py: a dict that remembers   *)
(* the ids of the last MaxLen notifications, and its method seen(), taken  *)
(* one statement at a time.  The class takes no lock.  With `serial', as   *)
(* on an event loop or in a single thread, a call of seen() runs to its    *)
(* end before another begins; without it the calls are those of the        *)
(* threads of one process, and interleave.                                 *)
(***************************************************************************)
EXTENDS Integers, Sequences, FiniteSets, RecentIds

CONSTANTS
  Ids,          \* notification ids
  NoId,         \* None: the notification carries no id
  MaxLen,       \* maxlen
  Workers,      \* the threads or tasks that call seen()
  Modes,        \* the values of serial
  MaxRecorded   \* bound: calls are made until this many ids were recorded

ASSUME MaxLenAssumption == MaxLen \in Nat \ {0}
ASSUME WorkersAssumption == IsFiniteSet(Workers)
ASSUME NoIdAssumption == NoId \notin Ids
ASSUME ModesAssumption == Modes \subseteq BOOLEAN
ASSUME MaxRecordedAssumption == MaxRecorded \in Nat

VARIABLES
  serial,       \* calls do not overlap, never changed
  memory,       \* the dict's keys, in the order in which they were inserted
  pc,           \* the statement each worker is about to execute
  arg,          \* the id it was called with
  mark,         \* len(memory) when its iterator was made
  oldest,       \* its local variable of that name
  outcome,      \* what its last call returned or raised
  recorded,     \* history: every id recorded, in order
  raised        \* history: how many calls have raised

vars == <<serial, memory, pc, arg, mark, oldest, outcome, recorded, raised>>

PCs == {"idle", "in", "set", "len", "iter", "next", "del"}
Outcomes == {"none", "fresh", "duplicate", "RuntimeError", "StopIteration", "KeyError"}

Init ==
  /\ serial \in Modes
  /\ memory = <<>>
  /\ pc = [w \in Workers |-> "idle"]
  /\ arg = [w \in Workers |-> NoId]
  /\ mark = [w \in Workers |-> 0]
  /\ oldest = [w \in Workers |-> NoId]
  /\ outcome = [w \in Workers |-> "none"]
  /\ recorded = <<>>
  /\ raised = 0

Goto(w, l) == pc' = [pc EXCEPT ![w] = l]

Return(w, o) ==
  /\ Goto(w, "idle")
  /\ outcome' = [outcome EXCEPT ![w] = o]
  /\ raised' = IF o \in {"fresh", "duplicate"} THEN raised ELSE raised + 1

\* Plausible bugs: None recorded like any id; the id put in the dict before
\* the question is asked.
CallNoneToo(w, id) ==
  /\ pc[w] = "idle"
  /\ serial => \A v \in Workers : pc[v] = "idle"
  /\ Len(recorded) < MaxRecorded
  /\ arg' = [arg EXCEPT ![w] = id]
  /\ Goto(w, "in")
  /\ UNCHANGED <<serial, memory, mark, oldest, outcome, recorded, raised>>

CallSetDefault(w, id) ==
  /\ pc[w] = "idle" /\ id # NoId
  /\ Len(recorded) < MaxRecorded
  /\ arg' = [arg EXCEPT ![w] = id]
  /\ Goto(w, "in")
  /\ memory' = IF Has(memory, id) THEN memory ELSE Append(memory, id)
  /\ UNCHANGED <<serial, mark, oldest, outcome, recorded, raised>>

\* seen(id) is called; None is never a duplicate and never recorded.
Call(w, id) ==
  /\ pc[w] = "idle"
  /\ serial => \A v \in Workers : pc[v] = "idle"
  /\ Len(recorded) < MaxRecorded
  /\ arg' = [arg EXCEPT ![w] = id]
  /\ IF id = NoId THEN Return(w, "fresh")
                  ELSE Goto(w, "in") /\ UNCHANGED <<outcome, raised>>
  /\ UNCHANGED <<serial, memory, mark, oldest, recorded>>

\* if notification_id in self._seen: return True
CheckIn(w) ==
  /\ pc[w] = "in"
  /\ IF Has(memory, arg[w])
       THEN Return(w, "duplicate")
       ELSE Goto(w, "set") /\ UNCHANGED <<outcome, raised>>
  /\ UNCHANGED <<serial, memory, arg, mark, oldest, recorded>>

\* self._seen[notification_id] = None: a key that is there keeps its place.
Record(w) ==
  /\ pc[w] = "set"
  /\ memory' = IF Has(memory, arg[w]) THEN memory ELSE Append(memory, arg[w])
  /\ recorded' = Append(recorded, arg[w])
  /\ Goto(w, "len")
  /\ UNCHANGED <<serial, arg, mark, oldest, outcome, raised>>

\* Plausible bug: the capacity compared with >=.
CheckLenEager(w) ==
  /\ pc[w] = "len"
  /\ IF Len(memory) >= MaxLen THEN Goto(w, "iter") /\ UNCHANGED <<outcome, raised>>
                              ELSE Return(w, "fresh")
  /\ UNCHANGED <<serial, memory, arg, mark, oldest, recorded>>

\* if len(self._seen) > self._maxlen
CheckLen(w) ==
  /\ pc[w] = "len"
  /\ IF Len(memory) > MaxLen THEN Goto(w, "iter") /\ UNCHANGED <<outcome, raised>>
                             ELSE Return(w, "fresh")
  /\ UNCHANGED <<serial, memory, arg, mark, oldest, recorded>>

\* Plausible bug: the iterator made before the id was inserted.
MakeIterEarly(w) ==
  /\ pc[w] = "iter"
  /\ mark' = [mark EXCEPT ![w] = Len(memory) - 1]
  /\ Goto(w, "next")
  /\ UNCHANGED <<serial, memory, arg, oldest, outcome, recorded, raised>>

\* iter(self._seen)
MakeIter(w) ==
  /\ pc[w] = "iter"
  /\ mark' = [mark EXCEPT ![w] = Len(memory)]
  /\ Goto(w, "next")
  /\ UNCHANGED <<serial, memory, arg, oldest, outcome, recorded, raised>>

\* Plausible bug: the newest id is taken in place of the oldest.
TakeNewest(w) ==
  /\ pc[w] = "next"
  /\ oldest' = [oldest EXCEPT ![w] = memory[Len(memory)]]
  /\ Goto(w, "del")
  /\ UNCHANGED <<serial, memory, arg, mark, outcome, recorded, raised>>

\* oldest = next(...): a dict that changed size since, or is empty, raises.
TakeOldest(w) ==
  /\ pc[w] = "next"
  /\ \/ /\ Len(memory) # mark[w]
        /\ Return(w, "RuntimeError") /\ UNCHANGED oldest
     \/ /\ Len(memory) = mark[w] /\ memory = <<>>
        /\ Return(w, "StopIteration") /\ UNCHANGED oldest
     \/ /\ Len(memory) = mark[w] /\ memory # <<>>
        /\ oldest' = [oldest EXCEPT ![w] = memory[1]]
        /\ Goto(w, "del") /\ UNCHANGED <<outcome, raised>>
  /\ UNCHANGED <<serial, memory, arg, mark, recorded>>

\* Plausible bug: an oldest id that is gone is no error, and nothing else is evicted.
EvictIfThere(w) ==
  /\ pc[w] = "del"
  /\ memory' = Without(memory, oldest[w])
  /\ Return(w, "fresh")
  /\ UNCHANGED <<serial, arg, mark, oldest, recorded>>

\* del self._seen[oldest]; return False
Evict(w) ==
  /\ pc[w] = "del"
  /\ IF Has(memory, oldest[w])
       THEN /\ memory' = Without(memory, oldest[w])
            /\ Return(w, "fresh")
       ELSE Return(w, "KeyError") /\ UNCHANGED memory
  /\ UNCHANGED <<serial, arg, mark, oldest, recorded>>

Worker(w) ==
  \/ \E id \in Ids \cup {NoId} : Call(w, id)
  \/ CheckIn(w) \/ Record(w) \/ CheckLen(w)
  \/ MakeIter(w) \/ TakeOldest(w) \/ Evict(w)

Next == \E w \in Workers : Worker(w)

Spec == Init /\ [][Next]_vars

-----------------------------------------------------------------------------
\* No call is under way.
Idle == \A w \in Workers : pc[w] = "idle"

\* The types of the variables: among them, that only ids are remembered, never
\* the None of a notification without one.
TypeOK ==
  /\ serial \in BOOLEAN
  /\ memory \in Seq(Ids) /\ recorded \in Seq(Ids)
  /\ pc \in [Workers -> PCs]
  /\ arg \in [Workers -> Ids \cup {NoId}]
  /\ mark \in [Workers -> Nat]
  /\ oldest \in [Workers -> Ids \cup {NoId}]
  /\ outcome \in [Workers -> Outcomes]
  /\ raised \in Nat

(***************************************************************************)
(* With one call at a time the memory is a window on the history, and the  *)
(* statements between the insertion and the eviction only ever see it one  *)
(* id too long.                                                            *)
(***************************************************************************)
OneBusy == \A v, w \in Workers : pc[v] # "idle" /\ pc[w] # "idle" => v = w

MemoryIsSuffix ==
  /\ Len(memory) <= Len(recorded)
  /\ Len(memory) >= MaxLen \/ Len(memory) = Len(recorded)
  /\ \A i \in DOMAIN memory : memory[i] = recorded[Len(recorded) - Len(memory) + i]

NoRepeatInMemory == \A i, j \in DOMAIN memory : memory[i] = memory[j] => i = j

WithinCapacity ==
  /\ Len(memory) <= MaxLen + 1
  /\ (\A w \in Workers : pc[w] \in {"idle", "in", "set"}) => Len(memory) <= MaxLen

ArgIsId == \A w \in Workers : pc[w] # "idle" => arg[w] \in Ids

Locals ==
  \A w \in Workers :
    /\ pc[w] = "set" => ~ Has(memory, arg[w])
    /\ pc[w] \in {"iter", "next", "del"} => Len(memory) = MaxLen + 1
    /\ pc[w] = "next" => mark[w] = Len(memory)
    /\ pc[w] = "del" => oldest[w] = memory[1]

\* An id is recorded again only when MaxLen others were recorded since: two
\* notifications with one id are both taken for fresh only that far apart.
FreshOncePerWindow ==
  \A i, j \in DOMAIN recorded : i < j /\ recorded[i] = recorded[j] => j - i > MaxLen

\* The same of calls that do not overlap.
FreshOnce == serial => FreshOncePerWindow

NothingRaised == \A w \in Workers : outcome[w] \in {"none", "fresh", "duplicate"}

\* Unless calls overlap, seen() never raises: the iterator is used before the
\* dict changes again, and the id it yields is still there to be deleted.
NeverRaises == serial => NothingRaised

\* The inductive invariant of calls that do not overlap: what the memory holds is what
\* was recorded last, and each statement of seen() finds the memory, the mark
\* and the oldest id as the statement before it left them.
SerialInv ==
  /\ TypeOK /\ ArgIsId
  /\ serial /\ OneBusy
  /\ MemoryIsSuffix
  /\ NoRepeatInMemory
  /\ WithinCapacity
  /\ Locals
  /\ FreshOncePerWindow
  /\ NothingRaised

IInv == serial => SerialInv

\* Between calls that do not overlap, the memory is exactly the last MaxLen ids recorded.
MemoryIsWindow ==
  serial /\ Idle =>
    /\ Len(memory) <= MaxLen
    /\ Len(memory) = MaxLen \/ Len(memory) = Len(recorded)
    /\ \A i \in DOMAIN memory : memory[i] = recorded[Len(recorded) - Len(memory) + i]

(***************************************************************************)
(* What is left of the window when the threads of one process overlap.     *)
(***************************************************************************)
Inserted == {w \in Workers : pc[w] \in {"len", "iter", "next", "del"}}
Evicting == {w \in Workers : pc[w] \in {"iter", "next", "del"}}

\* The dict is no longer than its capacity, the calls under way and those that
\* raised: each of these leaves one id too many, for good.
MemoryBounded == Len(memory) <= MaxLen + Cardinality(Inserted) + raised

\* Nor do calls that evict at the same time, all for one id too many, forget more
\* than an id for each thread but one: the others are remembered once they are
\* all done.
WindowKept ==
  \/ Len(memory) - Cardinality(Evicting) > MaxLen - Cardinality(Workers)
  \/ Evicting = {} /\ \A i \in DOMAIN recorded : Has(memory, recorded[i])

\* A fresh notification is never taken for a duplicate: seen() returns True
\* only for an id some call has recorded, whatever the threads do.
NoFalseDuplicate ==
  [][\A w \in Workers :
       pc[w] = "in" /\ pc'[w] = "idle" => Has(recorded, arg[w])]_vars
-----------------------------------------------------------------------------
(***************************************************************************)
(* The window a caller sees is the dict without the id about to be         *)
(* evicted.  A call has decided once it has inserted its id, or found it.  *)
(***************************************************************************)
WindowOf == IF Len(memory) > MaxLen THEN Tail(memory) ELSE memory

VerdictOf(w) ==
  IF pc[w] \in {"in", "set"} THEN "none"
  ELSE IF pc[w] = "idle" THEN outcome[w]
  ELSE "fresh"

Window == INSTANCE DuplicateWindow WITH
  Askers  <- Workers,
  window  <- WindowOf,
  verdict <- [w \in Workers |-> VerdictOf(w)]

\* When calls do not overlap, the statements of seen() together are one
\* question, answered from the window of the ids recorded last: a caller never
\* sees the dict between its insertion and its eviction.
ImplementsWindow ==
  /\ serial => Window!Init
  /\ [][serial => Window!Next]_<<WindowOf, [w \in Workers |-> VerdictOf(w)]>>
=============================================================================
