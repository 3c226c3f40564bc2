-------------------------------- MODULE Money --------------------------------
(***************************************************************************)
(* From the amount a merchant gives to the number the gateway reads:       *)
(* pysibs/money.py, and _amount_obj of pysibs/_payloads.py.  An amount is  *)
(* given in units of 10^-Scale; once normalized it counts the minor units  *)
(* of its currency.                                                        *)
(***************************************************************************)
EXTENDS Integers, FiniteSetsExt

CONSTANTS
  Scale,            \* the decimals an amount may be given with
  Precision,        \* the digits of the decimal context (28)
  Mantissa          \* the bits of a float's mantissa (53)

ASSUME ScaleAssumption == Scale \in Nat /\ Scale >= 3
ASSUME FloatAssumption == Precision \in Nat \ {0} /\ Mantissa \in Nat \ {0}

\* No more than arithmetic, as far as it is needed: the proofs have no axioms of
\* powers.
ASSUME PowersAssumption ==
  /\ \A k \in 0..(Mantissa + 12) : 2^(k + 1) = 2 * 2^k
  /\ \A k \in 0..Scale : 10^k \in Nat \ {0}

CurrencyDecimals ==
  [JPY |-> 0, KRW |-> 0, CLP |-> 0, ISK |-> 0, BHD |-> 3, KWD |-> 3, OMR |-> 3, TND |-> 3]

DecimalsForCurrency(c) == IF c \in DOMAIN CurrencyDecimals THEN CurrencyDecimals[c] ELSE 2

\* A minor unit of the currency, in the units amounts are given in.
MinorUnit(c) == 10^(Scale - DecimalsForCurrency(c))

Magnitude(n) == IF n < 0 THEN -n ELSE n

\* Plausible bug: what is beyond the minor unit cut off.
Truncate(n, unit) == IF n < 0 THEN -((-n) \div unit) ELSE n \div unit

\* The multiple of unit nearest to n, a tie away from zero.
RoundHalfUp(n, unit) ==
  LET up == (2 * Magnitude(n) + unit) \div (2 * unit)
  IN  IF n < 0 THEN -up ELSE up

(***************************************************************************)
(* What is accepted: a str, int or Decimal that is a finite number (the    *)
(* type "number" here; anything else is "other"), small enough to be       *)
(* quantized, and greater than zero once it is.                            *)
(***************************************************************************)
Quantized(v, c) == RoundHalfUp(v.units, MinorUnit(c))

\* Plausible bug: no test of the sign.
AcceptsAnySign(v, c) ==
  /\ v.type = "number"
  /\ Magnitude(Quantized(v, c)) < 10^Precision
  /\ Quantized(v, c) # 0

Accepts(v, c) ==
  /\ v.type = "number"
  /\ Magnitude(Quantized(v, c)) < 10^Precision
  /\ Quantized(v, c) > 0
-----------------------------------------------------------------------------
(***************************************************************************)
(* float(amount): m / 2^k for the m of Mantissa bits nearest to n * 10^-d, *)
(* a tie to the even one.                                                  *)
(***************************************************************************)
HalfEven(n, m) ==
  LET q == n \div m
      r == n % m
  IN  IF 2 * r > m \/ (2 * r = m /\ q % 2 = 1) THEN q + 1 ELSE q

AtExponent(n, d, k) ==
  IF k >= 0 THEN HalfEven(n * 2^k, 10^d) ELSE HalfEven(n, 10^d * 2^(-k))

LargeEnough(n, d, k) ==
  IF k >= 0 THEN n * 2^k >= 2^(Mantissa - 1) * 10^d
            ELSE n >= 2^(Mantissa - 1) * 10^d * 2^(-k)

Float(n, d) ==
  LET k == CHOOSE k \in (-Mantissa)..(4 * d + Mantissa) :
             LargeEnough(n, d, k) /\ ~ LargeEnough(n, d, k - 1)
      m == AtExponent(n, d, k)
  IN  IF m = 2^Mantissa THEN <<m \div 2, k - 1>> ELSE <<m, k>>

(***************************************************************************)
(* The number written for it in JSON, in units of 10^-d: one of the        *)
(* shortest that read as the same float.                                   *)
(***************************************************************************)
SameFloat(n, d) ==
  LET reach == n \div 2^(Mantissa - 1) + 1
  IN  {w \in Max({1, n - reach})..(n + reach) : Float(w, d) = Float(n, d)}

\* The fewest digits: divisible by every power of ten that any of them is.
Shortest(ns) ==
  {w \in ns : \A v \in ns, z \in 0..(Precision + 1) : v % 10^z = 0 => w % 10^z = 0}

ShortestAsFloat(n, d) ==
  IF n < 0 THEN {-w : w \in Shortest(SameFloat(-n, d))} ELSE Shortest(SameFloat(n, d))

\* Plausible bug: two decimals written whatever the currency.
WrittenWithTwoDecimals(n, d) ==
  IF d > 2 THEN {RoundHalfUp(n, 10^(d - 2)) * 10^(d - 2)} ELSE ShortestAsFloat(n, d)

Written(n, d) == ShortestAsFloat(n, d)
=============================================================================
