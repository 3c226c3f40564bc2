---------------------------- MODULE Refunds_proofs ----------------------------
(***************************************************************************)
(* Proofs about Refunds, for floats of any width, any amounts and any      *)
(* currencies: with 53 bits of mantissa and 15 digits, what the code runs  *)
(* on.                                                                     *)
(***************************************************************************)
EXTENDS Refunds, Money_proofs

\* An accepted amount is a whole number of minor units, and more than none.
LEMMA AcceptedType ==
  ASSUME NEW v \in Amounts, NEW c, Accepts(v, c)
  PROVE  /\ v.units \in Int
         /\ Quantized(v, c) \in Nat \ {0}
         /\ 2 * Magnitude(Quantized(v, c) * MinorUnit(c) - v.units) <= MinorUnit(c)
<1>1. v.units \in Int
  BY AmountsAssumption DEF Amount
<1>2. MinorUnit(c) \in Nat \ {0}
  BY UnitType
<1>3. /\ Quantized(v, c) \in Int
      /\ 2 * Magnitude(Quantized(v, c) * MinorUnit(c) - v.units) <= MinorUnit(c)
  BY <1>1, <1>2, RoundingError DEF Quantized
<1>4. Quantized(v, c) > 0
  BY DEF Accepts
<1> QED BY <1>1, <1>3, <1>4

\* What may be written for it.
LEMMA AmountType ==
  ASSUME NEW v \in Amounts, Accepts(v, currency), NEW w \in AmountObj(v)
  PROVE  /\ w \in Nat \ {0}
         /\ Quantized(v, currency) < 10^Exact => w = Quantized(v, currency)
<1> DEFINE n == Quantized(v, currency)
           d == DecimalsForCurrency(currency)
<1>1. n \in Nat \ {0} /\ d \in {0, 2, 3}
  BY AcceptedType, DecimalsType
<1>2. w \in Written(n, d)
  BY DEF AmountObj
<1> HIDE DEF n, d
<1>3. w \in Nat \ {0}
  BY <1>1, <1>2, WrittenType
<1>4. ASSUME n < 10^Exact PROVE w = n
  <2>1. Half \in Nat /\ 10^Exact \in Nat /\ 10^Exact < Half
    BY HalfType, ExactAssumption DEF Half
  <2>2. n + 1 < 2^(Mantissa - 1)
    BY <1>1, <1>4, <2>1 DEF Half
  <2>3. Written(n, d) = {n}
    BY <1>1, <2>2, WrittenExact
  <2> QED BY <1>2, <2>3
<1> QED BY <1>3, <1>4 DEF n

\* A step creates the payment, refunds an amount of it, or all of it.
LEMMA NextCases ==
  ASSUME Next
  PROVE  \/ \E v \in Amounts : CreatePayment(v)
         \/ operations \in 1..(MaxOperations - 1) /\ \E v \in Amounts : RefundPart(v)
         \/ operations \in 1..(MaxOperations - 1) /\ RefundAll(NoAmount)
<1>1. CASE \E v \in Amounts : CreatePayment(v)
  BY <1>1
<1>2. CASE \E amount \in {NoAmount} \cup {{v} : v \in Amounts} : RefundPayment(amount)
  <2>1. PICK amount \in {NoAmount} \cup {{v} : v \in Amounts} : RefundPayment(amount)
    BY <1>2
  <2>2. operations \in 1..(MaxOperations - 1)
    BY <2>1 DEF RefundPayment
  <2>3. (\E v \in amount : RefundPart(v)) \/ (amount = NoAmount /\ RefundAll(amount))
    BY <2>1 DEF RefundPayment, Requested
  <2>4. \A v \in amount : v \in Amounts
    BY DEF NoAmount
  <2> QED BY <2>2, <2>3, <2>4
<1> QED BY <1>1, <1>2 DEF Next
-----------------------------------------------------------------------------
\* The variables keep their types: the gateway never owes more than it was paid.
THEOREM TypeCorrect == Spec => []TypeOK
<1>1. Init => TypeOK
  <2> SUFFICES ASSUME Init PROVE TypeOK
    OBVIOUS
  <2>1. operations \in 0..MaxOperations /\ balance \in Nat /\ books \in Int
    BY OperationsAssumption DEF Init
  <2>2. sent \subseteq Nat /\ read \subseteq Nat /\ currency \in Currencies
    BY DEF Init
  <2>3. long \in BOOLEAN
    BY DEF Init
  <2> QED BY <2>1, <2>2, <2>3 DEF TypeOK
<1>2. TypeOK /\ [Next]_vars => TypeOK'
  <2> SUFFICES ASSUME TypeOK, [Next]_vars PROVE TypeOK'
    OBVIOUS
  <2> USE DEF TypeOK
  <2>0. MaxOperations \in Nat \ {0} /\ MinorUnit(currency) \in Nat \ {0}
    BY OperationsAssumption, UnitType
  <2>1. ASSUME NEW v \in Amounts, CreatePayment(v) PROVE TypeOK'
    <3>1. Accepts(v, currency) /\ operations = 0
      BY <2>1 DEF CreatePayment
    <3>2. PICK w \in AmountObj(v) : /\ balance' = w * MinorUnit(currency)
                                    /\ books' = v.units
                                    /\ CarryOut(v, w)
      BY <2>1 DEF CreatePayment
    <3>3. w \in Nat \ {0} /\ v.units \in Int /\ Quantized(v, currency) \in Nat
      BY <3>1, AcceptedType, AmountType
    <3>4. balance' \in Nat
      BY <2>0, <3>2, <3>3
    <3> QED BY <2>0, <3>1, <3>2, <3>3, <3>4 DEF CarryOut
  <2>2. ASSUME operations \in 1..(MaxOperations - 1), NEW v \in Amounts, RefundPart(v)
        PROVE  TypeOK'
    <3>1. Accepts(v, currency)
      BY <2>2 DEF RefundPart
    <3>2. PICK w \in AmountObj(v) : /\ w * MinorUnit(currency) <= balance
                                    /\ balance' = balance - w * MinorUnit(currency)
                                    /\ books' = books - v.units
                                    /\ CarryOut(v, w)
      BY <2>2 DEF RefundPart
    <3>3. w \in Nat \ {0} /\ v.units \in Int /\ Quantized(v, currency) \in Nat
      BY <3>1, AcceptedType, AmountType
    <3>4. w * MinorUnit(currency) \in Nat
      BY <2>0, <3>3
    <3>5. balance' \in Nat /\ books' \in Int
      BY <3>2, <3>3, <3>4
    <3> QED BY <2>0, <2>2, <3>2, <3>3, <3>5 DEF CarryOut
  <2>3. CASE operations \in 1..(MaxOperations - 1) /\ RefundAll(NoAmount)
    BY <2>0, <2>3 DEF RefundAll
  <2>4. CASE UNCHANGED vars
    BY <2>4 DEF vars
  <2> QED BY <2>1, <2>2, <2>3, <2>4, NextCases
<1> QED BY <1>1, <1>2, PTL DEF Spec

\* The gateway reads a short amount as it was normalized.
THEOREM WireExactHolds == Spec => []WireExact
<1>1. Init => WireExact
  BY DEF Init, WireExact
<1>2. WireExact /\ [Next]_vars => WireExact'
  <2> SUFFICES ASSUME WireExact, [Next]_vars PROVE WireExact'
    OBVIOUS
  <2>1. ASSUME NEW v \in Amounts, Accepts(v, currency), NEW w \in AmountObj(v), CarryOut(v, w)
        PROVE  WireExact'
    BY <2>1, AmountType DEF CarryOut, WireExact
  <2>2. ASSUME NEW v \in Amounts, CreatePayment(v) PROVE WireExact'
    BY <2>1, <2>2 DEF CreatePayment
  <2>3. ASSUME NEW v \in Amounts, RefundPart(v) PROVE WireExact'
    BY <2>1, <2>3 DEF RefundPart
  <2>4. CASE RefundAll(NoAmount)
    BY <2>4 DEF RefundAll, WireExact
  <2>5. CASE UNCHANGED vars
    BY <2>5 DEF vars, WireExact
  <2> QED BY <2>2, <2>3, <2>4, <2>5, NextCases
<1> QED BY <1>1, <1>2, PTL DEF Spec
-----------------------------------------------------------------------------
LEMMA Triangle ==
  ASSUME NEW x \in Int, NEW y \in Int
  PROVE  /\ Magnitude(x) \in Nat /\ Magnitude(-x) = Magnitude(x)
         /\ Magnitude(x - y) <= Magnitude(x) + Magnitude(y)
BY DEF Magnitude

\* The books and the balance drift apart by half a minor unit for each operation
\* at most.
THEOREM BooksAgreeHolds == Spec => []BooksAgree
<1>1. Init => BooksAgree
  <2> SUFFICES ASSUME Init PROVE BooksAgree
    OBVIOUS
  <2>1. Magnitude(balance - books) = 0 /\ operations * MinorUnit(currency) = 0
    BY UnitType DEF Init, Magnitude
  <2> QED BY <2>1 DEF BooksAgree
<1>2. TypeOK /\ BooksAgree /\ [Next]_vars => BooksAgree'
  <2> SUFFICES ASSUME TypeOK, BooksAgree, [Next]_vars, ~ long'
               PROVE  2 * Magnitude(balance' - books') <= operations' * MinorUnit(currency')
    BY DEF BooksAgree
  <2> DEFINE unit == MinorUnit(currency)
  <2>0. /\ unit \in Nat \ {0} /\ balance \in Nat /\ books \in Int /\ operations \in Nat
        /\ operations * unit \in Nat /\ (operations + 1) * unit = operations * unit + unit
    <3>1. unit \in Nat \ {0}
      BY UnitType
    <3> QED BY <3>1 DEF TypeOK
  \* What an operation books is half a minor unit off at most.
  <2>1. ASSUME NEW v \in Amounts, Accepts(v, currency), NEW w \in AmountObj(v), CarryOut(v, w)
        PROVE  /\ w * unit \in Nat /\ v.units \in Int
               /\ 2 * Magnitude(w * unit - v.units) <= unit
               /\ operations' = operations + 1 /\ MinorUnit(currency') = unit
               /\ ~ long
    <3>1. ~ (Quantized(v, currency) >= 10^Exact) /\ ~ long
      BY <2>1 DEF CarryOut
    <3>2. /\ v.units \in Int /\ Quantized(v, currency) \in Nat \ {0}
          /\ 2 * Magnitude(Quantized(v, currency) * unit - v.units) <= unit
      BY <2>1, AcceptedType
    <3>3. w \in Nat /\ w = Quantized(v, currency)
      <4>1. Quantized(v, currency) < 10^Exact
        BY <3>1, <3>2, ExactAssumption
      <4> QED BY <2>1, <4>1, AmountType
    <3>4. w * unit \in Nat
      BY <2>0, <3>3
    <3>5. operations' = operations + 1 /\ MinorUnit(currency') = unit
      BY <2>1 DEF CarryOut
    <3> QED BY <3>1, <3>2, <3>3, <3>4, <3>5
  <2> HIDE DEF unit
  <2> SUFFICES operations' * unit >= 2 * Magnitude(balance' - books') /\ MinorUnit(currency') = unit
    <3>1. operations' \in Nat
      BY <2>0, NextCases DEF CreatePayment, RefundPart, RefundAll, CarryOut, vars
    <3> QED BY <2>0, <3>1, Triangle
  <2>2. ASSUME NEW v \in Amounts, CreatePayment(v)
        PROVE  operations' * unit >= 2 * Magnitude(balance' - books') /\ MinorUnit(currency') = unit
    <3>1. Accepts(v, currency) /\ operations = 0
      BY <2>2 DEF CreatePayment
    <3>2. PICK w \in AmountObj(v) : /\ balance' = w * unit
                                    /\ books' = v.units
                                    /\ CarryOut(v, w)
      BY <2>2 DEF CreatePayment, unit
    <3> QED BY <2>0, <2>1, <3>1, <3>2
  <2>3. ASSUME NEW v \in Amounts, RefundPart(v)
        PROVE  operations' * unit >= 2 * Magnitude(balance' - books') /\ MinorUnit(currency') = unit
    <3>1. Accepts(v, currency)
      BY <2>3 DEF RefundPart
    <3>2. PICK w \in AmountObj(v) : /\ balance' = balance - w * unit
                                    /\ books' = books - v.units
                                    /\ CarryOut(v, w)
      BY <2>3 DEF RefundPart, unit
    <3> DEFINE x == balance - books
               y == w * unit - v.units
    <3>3. /\ w * unit \in Nat /\ v.units \in Int /\ 2 * Magnitude(y) <= unit
          /\ operations' = operations + 1 /\ MinorUnit(currency') = unit /\ ~ long
      BY <2>1, <3>1, <3>2
    <3>4. 2 * Magnitude(x) <= operations * unit
      BY <3>3 DEF BooksAgree, unit
    <3>5. x \in Int /\ y \in Int /\ balance' - books' = x - y
      BY <2>0, <3>2, <3>3
    <3> HIDE DEF x, y
    <3>6. /\ Magnitude(x) \in Nat /\ Magnitude(y) \in Nat /\ Magnitude(x - y) \in Nat
          /\ Magnitude(x - y) <= Magnitude(x) + Magnitude(y)
      <4>1. x - y \in Int
        BY <3>5
      <4> QED BY <3>5, <4>1, Triangle
    <3> QED BY <2>0, <3>3, <3>4, <3>5, <3>6
  <2>4. ASSUME RefundAll(NoAmount)
        PROVE  operations' * unit >= 2 * Magnitude(balance' - books') /\ MinorUnit(currency') = unit
    <3>1. /\ balance' = 0 /\ books' = 0 /\ operations' = operations + 1 /\ currency' = currency
      BY <2>4 DEF RefundAll
    <3>2. Magnitude(balance' - books') = 0
      BY <3>1 DEF Magnitude
    <3> QED BY <2>0, <3>1, <3>2 DEF unit
  <2>5. CASE UNCHANGED vars
    BY <2>5 DEF vars, BooksAgree, unit
  <2> QED BY <2>2, <2>3, <2>4, <2>5, NextCases
<1> QED BY <1>1, <1>2, TypeCorrect, PTL DEF Spec
=============================================================================
