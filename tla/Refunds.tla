------------------------------- MODULE Refunds -------------------------------
(***************************************************************************)
(* The money of one purchase, refunded in parts or in full: the merchant's *)
(* books against the gateway's.                                            *)
(* The merchant books the amounts it passes to create_payment and          *)
(* refund_payment; the gateway books the numbers it reads.  Both count in  *)
(* units of 10^-Scale.  For when an operation is possible at all, and for  *)
(* what becomes of a call that fails, see PaymentFlow and HTTPClient.      *)
(***************************************************************************)
EXTENDS Money

CONSTANTS
  Currencies,       \* the currencies payments are made in
  Amounts,          \* the amounts a merchant may pass
  Exact,            \* the digits a float is sure to keep (15)
  MaxOperations     \* bound: operations on the payment

\* Without an amount, the rest of the payment is refunded.
NoAmount == {}
Amount == [type : {"number", "other"}, units : Int]

ASSUME AmountsAssumption == Amounts \subseteq Amount
ASSUME ExactAssumption == 10^Exact \in Nat /\ 10^Exact < 2^(Mantissa - 1)
ASSUME OperationsAssumption == MaxOperations \in Nat \ {0}

VARIABLES
  currency,         \* of the payment, never changed
  balance,          \* at the gateway: what the shopper has paid and not got back
  books,            \* the same by the merchant's books
  operations,       \* history: the operations carried out
  sent, read,       \* history: the last amount sent and the number read of it,
                    \* in minor units; sets that are empty without one
  long              \* history: whether some amount had more than Exact digits

vars == <<currency, balance, books, operations, sent, read, long>>

Init ==
  /\ currency \in Currencies
  /\ balance = 0 /\ books = 0 /\ operations = 0
  /\ sent = {} /\ read = {} /\ long = FALSE

\* What is sent of an amount v: the numbers the gateway may read.
AmountObj(v) == Written(Quantized(v, currency), DecimalsForCurrency(currency))

\* An operation with amount v is carried out; the gateway books number w.
CarryOut(v, w) ==
  /\ operations' = operations + 1
  /\ sent' = {Quantized(v, currency)}
  /\ read' = {w}
  /\ long' = (long \/ Quantized(v, currency) >= 10^Exact)
  /\ UNCHANGED currency

\* An amount that is not accepted raises SIBSValidationError: no step.
CreatePayment(v) ==
  /\ operations = 0
  /\ Accepts(v, currency)
  /\ \E w \in AmountObj(v) :
       /\ balance' = w * MinorUnit(currency)
       /\ books' = v.units
       /\ CarryOut(v, w)

\* Plausible bug: the amount tested for truth, so that 0 asks for all.
RequestedIfTrue(amount) == {v \in amount : v.type = "number" => v.units # 0}

\* RefundRequest.amount: amount is not None.
Requested(amount) == amount

\* The amount that is given is normalized before anything is sent; the gateway
\* refuses to refund more than there is.
RefundPart(v) ==
  /\ Accepts(v, currency)
  /\ \E w \in AmountObj(v) :
       /\ w * MinorUnit(currency) <= balance
       /\ balance' = balance - w * MinorUnit(currency)
       /\ books' = books - v.units
       /\ CarryOut(v, w)

\* A body without an amount refunds all there is; the merchant books that, or
\* the amount it gave.
RefundAll(amount) ==
  /\ balance' = 0
  /\ books' = IF amount = NoAmount THEN 0 ELSE books - (CHOOSE v \in amount : TRUE).units
  /\ operations' = operations + 1
  /\ sent' = {} /\ read' = {}
  /\ UNCHANGED <<currency, long>>

RefundPayment(amount) ==
  /\ operations \in 1..(MaxOperations - 1)
  /\ \/ \E v \in Requested(amount) : RefundPart(v)
     \/ Requested(amount) = NoAmount /\ RefundAll(amount)

Next ==
  \/ \E v \in Amounts : CreatePayment(v)
  \/ \E amount \in {NoAmount} \cup {{v} : v \in Amounts} : RefundPayment(amount)

Spec == Init /\ [][Next]_vars
-----------------------------------------------------------------------------
\* The types of the variables: among them, that the gateway never books less
\* than nothing.
TypeOK ==
  /\ currency \in Currencies
  /\ balance \in Nat /\ books \in Int
  /\ operations \in 0..MaxOperations
  /\ sent \subseteq Nat /\ read \subseteq Nat
  /\ long \in BOOLEAN

(***************************************************************************)
(* The merchant's books and the gateway's are never further apart than     *)
(* half a minor unit for each operation, and a full refund brings both to  *)
(* nothing: rounding never adds up to more, and nothing but a missing      *)
(* amount is taken for a full refund.                                      *)
(***************************************************************************)
BooksAgree ==
  ~ long => 2 * Magnitude(balance - books) <= operations * MinorUnit(currency)

\* An amount of at most Exact digits is read by the gateway as it was
\* normalized, although it travels as a float.
WireExact == sent # {} /\ (\A n \in sent : n < 10^Exact) => read = sent

=============================================================================
