---------------------------- MODULE ChargeLedger ----------------------------
(***************************************************************************)
(* What a merchant may rely on, with no word about HTTP: an order is       *)
(* charged at most once; a call answered "ok" is for an order that has     *)
(* been charged; a call answered "refused" has not charged it and never    *)
(* will; only a call answered "unknown" may still charge its order after   *)
(* it has been answered.                                                   *)
(***************************************************************************)
CONSTANTS Calls,        \* the calls that may charge an order
          OrderOf,      \* the order each of them is for
          ChargeIds     \* names for the charges, so that two are told apart

VARIABLES ledger,       \* the charges made: records [call, id]
          answer        \* what each call has been told so far

Answers == {"none", "ok", "refused", "unknown"}

Charges == [call : Calls, id : ChargeIds]

Charged(o) == \E e \in ledger : OrderOf[e.call] = o

Init == /\ ledger = {}
        /\ answer = [c \in Calls |-> "none"]

Charge(c, i) ==
  /\ answer[c] \in {"none", "unknown"}
  /\ ~ Charged(OrderOf[c])
  /\ ledger' = ledger \cup {[call |-> c, id |-> i]}
  /\ UNCHANGED answer

Answer(c, a) ==
  /\ answer[c] = "none"
  /\ a = "ok" => Charged(OrderOf[c])
  /\ a = "refused" => \A e \in ledger : e.call # c
  /\ answer' = [answer EXCEPT ![c] = a]
  /\ UNCHANGED ledger

Next == \E c \in Calls : \/ \E i \in ChargeIds : Charge(c, i)
                         \/ \E a \in Answers \ {"none"} : Answer(c, a)

Spec == Init /\ [][Next]_<<ledger, answer>>
=============================================================================
