----------------------------- MODULE Money_proofs -----------------------------
(***************************************************************************)
(* Lemmas about Money, for floats and amounts of any width: an amount is   *)
(* rounded by half a minor unit at most, and one that is short enough      *)
(* comes out of a float as it went in.                                     *)
(***************************************************************************)
EXTENDS Money, WellFoundedInduction, TLAPS

\* Every set of natural numbers has a least element: what stands in for
\* induction, since a set, unlike a predicate, is a value.
LEMMA Least ==
  ASSUME NEW T \in SUBSET Nat, T # {}
  PROVE  \E m \in T : \A n \in T : m <= n
<1>1. PICK m \in T : \A n \in T : ~ (<<n, m>> \in OpToRel(<, Nat))
  BY NatLessThanWellFounded, WFMin
<1>2. \A n \in T : ~ (n < m)
  BY <1>1 DEF OpToRel
<1>3. \A n \in T : m \in Nat /\ n \in Nat
  OBVIOUS
<1>4. \A n \in T : m <= n
  BY <1>2, <1>3
<1> QED BY <1>4
-----------------------------------------------------------------------------
(***************************************************************************)
(* Powers of two, and the decimals of a currency.                          *)
(***************************************************************************)
Top == Mantissa + 12

LEMMA PowerType == \A k \in 0..(Top + 1) : 2^k \in Nat \ {0}
<1> DEFINE T == {k \in 0..(Top + 1) : 2^k \notin Nat \ {0}}
<1>0. Top \in Nat
  BY FloatAssumption DEF Top
<1> SUFFICES ASSUME T # {} PROVE FALSE
  OBVIOUS
<1>1. PICK m \in T : \A k \in T : m <= k
  <2>1. T \in SUBSET Nat
    BY <1>0
  <2> HIDE DEF T
  <2> QED BY <2>1, Least
<1>2. m # 0
  <2>1. 2^0 = 1
    OBVIOUS
  <2>2. ASSUME m = 0 PROVE FALSE
    <3>1. 2^m \notin Nat \ {0}
      OBVIOUS
    <3>2. 2^m = 2^0
      BY <2>2, Zenon
    <3> QED BY <2>1, <3>1, <3>2
  <2> QED BY <2>2
<1>3. m - 1 \in 0..Top /\ m - 1 \notin T
  BY <1>0, <1>1, <1>2
<1>4. 2^(m - 1) \in Nat \ {0}
  BY <1>0, <1>3
<1>5. 2^((m - 1) + 1) = 2 * 2^(m - 1)
  BY <1>3, PowersAssumption DEF Top
<1>6. (m - 1) + 1 = m
  BY <1>3
<1> QED BY <1>4, <1>5, <1>6

LEMMA PowerStep == \A k \in 1..(Top + 1) : 2^k = 2 * 2^(k - 1)
<1> TAKE k \in 1..(Top + 1)
<1>0. Top \in Nat
  BY FloatAssumption DEF Top
<1>1. k - 1 \in 0..Top /\ (k - 1) + 1 = k
  BY <1>0
<1>2. 2^((k - 1) + 1) = 2 * 2^(k - 1)
  BY <1>1, PowersAssumption DEF Top
<1> QED BY <1>1, <1>2

LEMMA DecimalsType == ASSUME NEW c PROVE DecimalsForCurrency(c) \in {0, 2, 3}
BY DEF DecimalsForCurrency, CurrencyDecimals

LEMMA UnitType == ASSUME NEW c PROVE MinorUnit(c) \in Nat \ {0}
<1>1. Scale - DecimalsForCurrency(c) \in 0..Scale
  BY DecimalsType, ScaleAssumption
<1> QED BY <1>1, PowersAssumption DEF MinorUnit
-----------------------------------------------------------------------------
LEMMA Division ==
  ASSUME NEW n \in Nat, NEW m \in Nat \ {0}
  PROVE  /\ n \div m \in Nat /\ n % m \in 0..(m - 1)
         /\ n = m * (n \div m) + (n % m)
  BY Z3

\* A quantized amount is half a minor unit away at most.
LEMMA RoundingError ==
  ASSUME NEW n \in Int, NEW unit \in Nat \ {0}
  PROVE  /\ RoundHalfUp(n, unit) \in Int
         /\ 2 * Magnitude(RoundHalfUp(n, unit) * unit - n) <= unit
         /\ n >= 0 => RoundHalfUp(n, unit) >= 0
<1> DEFINE a == Magnitude(n)
           up == (2 * a + unit) \div (2 * unit)
           rest == (2 * a + unit) % (2 * unit)
<1>1. a \in Nat /\ 2 * a + unit \in Nat /\ 2 * unit \in Nat \ {0}
  BY DEF Magnitude
<1>2. up \in Nat /\ rest \in 0..(2 * unit - 1) /\ 2 * a + unit = (2 * unit) * up + rest
  <2> HIDE DEF a
  <2> QED BY <1>1, Division
<1>3. up * unit \in Nat /\ (2 * unit) * up = 2 * (up * unit)
  BY <1>2
<1>4. 2 * (up * unit) - 2 * a <= unit /\ 2 * a - 2 * (up * unit) <= unit
  <2> HIDE DEF a, up, rest
  <2> DEFINE x == up * unit
  <2>1. x \in Nat /\ 2 * a + unit = 2 * x + rest
    BY <1>2, <1>3
  <2> HIDE DEF x
  <2>2. 2 * x - 2 * a <= unit /\ 2 * a - 2 * x <= unit
    BY <1>1, <1>2, <2>1
  <2> QED BY <2>2 DEF x
<1>5. CASE n < 0
  <2>1. RoundHalfUp(n, unit) = -up /\ a = -n
    BY <1>5 DEF RoundHalfUp, Magnitude
  <2>2. (-up) * unit = -(up * unit)
    BY <1>2
  <2> HIDE DEF a, up
  <2> DEFINE x == up * unit
  <2>3. x \in Nat /\ (-up) * unit - n = a - x
    BY <1>1, <1>3, <2>1, <2>2
  <2>4. 2 * x - 2 * a <= unit /\ 2 * a - 2 * x <= unit
    BY <1>4
  <2> HIDE DEF x
  <2>5. 2 * Magnitude(a - x) <= unit
    BY <1>1, <2>3, <2>4 DEF Magnitude
  <2> QED BY <1>2, <1>5, <2>1, <2>3, <2>5
<1>6. CASE n >= 0
  <2>1. RoundHalfUp(n, unit) = up /\ a = n
    BY <1>6 DEF RoundHalfUp, Magnitude
  <2> HIDE DEF a, up
  <2> DEFINE x == up * unit
  <2>2. x \in Nat /\ 2 * x - 2 * a <= unit /\ 2 * a - 2 * x <= unit
    BY <1>3, <1>4
  <2> HIDE DEF x
  <2>3. 2 * Magnitude(x - a) <= unit
    BY <1>1, <2>2 DEF Magnitude
  <2> QED BY <1>2, <2>1, <2>3 DEF x
<1> QED BY <1>5, <1>6

\* A float is the nearest of its exponent.
LEMMA HalfEvenNear ==
  ASSUME NEW n \in Nat, NEW m \in Nat \ {0}
  PROVE  LET h == HalfEven(n, m)
         IN  h \in Nat /\ 2 * (m * h) <= 2 * n + m /\ 2 * n <= 2 * (m * h) + m
<1> DEFINE q == n \div m
           r == n % m
           x == m * q
<1>1. q \in Nat /\ r \in 0..(m - 1) /\ n = x + r
  BY Division
<1>2. x \in Nat /\ m * (q + 1) = x + m
  BY <1>1
<1> HIDE DEF q, r, x
<1>3. HalfEven(n, m) = IF 2 * r > m \/ (2 * r = m /\ q % 2 = 1) THEN q + 1 ELSE q
  BY DEF HalfEven, q, r
<1>4. CASE 2 * r >= m /\ HalfEven(n, m) = q + 1
  BY <1>1, <1>2, <1>4
<1>5. CASE 2 * r <= m /\ HalfEven(n, m) = q
  <2>1. m * q = x
    BY DEF x
  <2> QED BY <1>1, <1>2, <1>5, <2>1
<1> QED BY <1>1, <1>3, <1>4, <1>5
-----------------------------------------------------------------------------
(***************************************************************************)
(* The float of n * 10^-d, for an n that the mantissa has room for: it is  *)
(* the m / 2^k nearest to it, with a mantissa m of full length.            *)
(***************************************************************************)
Half == 2^(Mantissa - 1)

LEMMA HalfType == Half \in Nat \ {0} /\ 2^Mantissa = 2 * Half
<1>1. Mantissa - 1 \in 0..(Top + 1) /\ Mantissa \in 1..(Top + 1)
  BY FloatAssumption DEF Top
<1> QED BY <1>1, PowerType, PowerStep DEF Half

\* The powers of ten of a currency's decimals.
Ten(d) == 10^d

LEMMA TenType == ASSUME NEW d \in {0, 2, 3} PROVE Ten(d) \in 1..1000 /\ Ten(d) \in Nat \ {0}
<1>1. 10^0 = 1 /\ 10^2 = 100 /\ 10^3 = 1000
  OBVIOUS
<1>2. CASE d = 0
  <2>1. Ten(d) = 10^0
    BY <1>2, Zenon DEF Ten
  <2> QED BY <1>1, <2>1
<1>3. CASE d = 2
  <2>1. Ten(d) = 10^2
    BY <1>3, Zenon DEF Ten
  <2> QED BY <1>1, <2>1
<1>4. CASE d = 3
  <2>1. Ten(d) = 10^3
    BY <1>4, Zenon DEF Ten
  <2> QED BY <1>1, <2>1
<1> QED BY <1>2, <1>3, <1>4

\* A float of n / D with exponent k, where a is 2^k: m is full and the nearest.
IsFloat(n, D, a, m) ==
  /\ Half * D <= n * a /\ n * a < 2 * (Half * D)
  /\ 2 * (D * m) <= 2 * (n * a) + D /\ 2 * (n * a) <= 2 * (D * m) + D

LEMMA FloatIs ==
  ASSUME NEW n \in Nat \ {0}, n < Half, NEW d \in {0, 2, 3}
  PROVE  \E k \in 1..Top : \E m \in Nat :
           /\ IsFloat(n, 10^d, 2^k, m)
           /\ Float(n, d) = IF m = 2 * Half THEN <<Half, k - 1>> ELSE <<m, k>>
<1> DEFINE D == 10^d
           Fits(k) == LargeEnough(n, d, k) /\ ~ LargeEnough(n, d, k - 1)
           Exponents == (-Mantissa)..(4 * d + Mantissa)
<1>a. D = Ten(d) /\ Ten(d) \in 1..1000 /\ Ten(d) \in Nat \ {0}
  <2>1. D = Ten(d)
    BY DEF Ten
  <2> QED BY <2>1, TenType
<1>b. Half \in Nat \ {0} /\ 2^Mantissa = 2 * Half
  BY HalfType
<1>c. /\ Mantissa \in Nat \ {0} /\ Top = Mantissa + 12
      /\ 4 * d + Mantissa \in Mantissa..Top
  BY FloatAssumption DEF Top
<1>1. /\ Half \in Nat \ {0} /\ 2^Mantissa = 2 * Half /\ D \in 1..1000 /\ D \in Nat \ {0}
      /\ Mantissa \in Nat \ {0} /\ Top = Mantissa + 12
      /\ 4 * d + Mantissa \in Mantissa..Top
  BY <1>a, <1>b, <1>c
\* An exponent that is not positive makes it no float of full length.
<1>2. ASSUME NEW k \in Int, k <= 0 PROVE k \in Exponents => ~ LargeEnough(n, d, k)
  <2>1. CASE k = 0
    <3>1. n * 2^0 = n
      OBVIOUS
    <3>2. 2^k = 2^0
      BY <2>1, Zenon
    <3>3. Half * D >= Half
      BY <1>1
    <3> QED BY <1>1, <2>1, <3>1, <3>2, <3>3 DEF LargeEnough, Half
  <2>2. CASE k < 0 /\ k \in Exponents
    <3>1. -k \in 1..Mantissa
      BY <1>1, <2>2
    <3>2. 2^(-k) \in Nat \ {0}
      BY <1>1, <3>1, PowerType
    <3>3. Half * D >= Half /\ Half * D \in Nat
      BY <1>1
    <3>4. (Half * D) * 2^(-k) >= Half * D
      BY <3>2, <3>3
    <3> QED BY <1>1, <2>2, <3>2, <3>3, <3>4 DEF LargeEnough, Half
  <2> QED BY <1>2, <2>1, <2>2
\* The largest exponent makes it long enough.
<1>3. LargeEnough(n, d, 4 * d + Mantissa)
  <2> DEFINE p(i) == 2^(Mantissa - 1 + i)
  <2>0. \A i \in 0..13 : p(i) \in Nat \ {0}
    <3> TAKE i \in 0..13
    <3>1. Mantissa - 1 + i \in 0..(Top + 1)
      BY <1>1
    <3> QED BY <3>1, PowerType
  <2>1. \A i \in 1..13 : p(i) = 2 * p(i - 1)
    <3> TAKE i \in 1..13
    <3>1. Mantissa - 1 + i \in 1..(Top + 1) /\ (Mantissa - 1 + i) - 1 = Mantissa - 1 + (i - 1)
      BY <1>1
    <3> QED BY <3>1, PowerStep
  <2>2. p(0) = Half /\ Half \in Nat
    BY <1>1 DEF Half
  <2> HIDE DEF p
  <2>3. p(1) = 2 * Half /\ p(9) = 512 * Half /\ p(13) = 8192 * Half
    BY <2>1, <2>2
  <2>4. 10^0 = 1 /\ 10^2 = 100 /\ 10^3 = 1000
    OBVIOUS
  <2>5. p(4 * d + 1) >= Half * D /\ p(4 * d + 1) \in Nat
    <3>1. CASE d = 0
      <4>1. D = 10^0
        BY <3>1, Zenon
      <4> QED BY <2>2, <2>3, <2>4, <3>1, <4>1
    <3>2. CASE d = 2
      <4>1. D = 10^2
        BY <3>2, Zenon
      <4> QED BY <2>2, <2>3, <2>4, <3>2, <4>1
    <3>3. CASE d = 3
      <4>1. D = 10^3
        BY <3>3, Zenon
      <4> QED BY <2>2, <2>3, <2>4, <3>3, <4>1
    <3> QED BY <3>1, <3>2, <3>3
  <2>6. n * p(4 * d + 1) >= p(4 * d + 1)
    BY <2>5
  <2>7. Mantissa - 1 + (4 * d + 1) = 4 * d + Mantissa
    BY <1>1
  <2>8. p(4 * d + 1) = 2^(4 * d + Mantissa)
    BY <2>7 DEF p
  <2>9. n * 2^(4 * d + Mantissa) >= Half * D
    <3>1. Half * D \in Nat /\ n * p(4 * d + 1) \in Nat
      BY <1>1, <2>5
    <3> QED BY <2>5, <2>6, <2>8, <3>1
  <2> QED BY <1>1, <2>9 DEF LargeEnough, Half
<1>4. \E k \in Exponents : Fits(k)
  <2> DEFINE T == {k \in 0..(4 * d + Mantissa) : LargeEnough(n, d, k)}
  <2>1. T \in SUBSET Nat /\ T # {}
    BY <1>1, <1>3
  <2>2. PICK k \in T : \A j \in T : k <= j
    <3> HIDE DEF T
    <3> QED BY <2>1, Least
  <2>3. k # 0
    BY <1>1, <1>2
  <2>4. k - 1 \in 0..(4 * d + Mantissa) /\ k - 1 \notin T /\ k \in Exponents
    BY <1>1, <2>2, <2>3
  <2> QED BY <2>4
<1> DEFINE k == CHOOSE k \in Exponents : Fits(k)
<1>5. k \in Exponents /\ LargeEnough(n, d, k) /\ ~ LargeEnough(n, d, k - 1)
  BY <1>4
<1> DEFINE m == AtExponent(n, d, k)
<1>6. Float(n, d) = IF m = 2^Mantissa THEN <<m \div 2, k - 1>> ELSE <<m, k>>
  BY DEF Float
<1> HIDE DEF k
<1>7. k \in 1..Top /\ k - 1 \in Nat
  BY <1>1, <1>2, <1>5
<1>8. 2^k \in Nat \ {0} /\ 2^(k - 1) \in Nat \ {0} /\ 2^k = 2 * 2^(k - 1)
  BY <1>1, <1>7, PowerType, PowerStep
<1>9. n * 2^k >= Half * D /\ ~ (n * 2^(k - 1) >= Half * D)
  BY <1>5, <1>7 DEF LargeEnough, Half
<1>10. n * 2^k < 2 * (Half * D)
  <2>1. n * 2^(k - 1) \in Nat /\ Half * D \in Nat /\ n * 2^k = 2 * (n * 2^(k - 1))
    BY <1>1, <1>8
  <2> QED BY <1>9, <2>1
<1>11. m = HalfEven(n * 2^k, D)
  BY <1>7 DEF AtExponent
<1>12. /\ m \in Nat /\ 2 * (D * m) <= 2 * (n * 2^k) + D
       /\ 2 * (n * 2^k) <= 2 * (D * m) + D
  <2>1. n * 2^k \in Nat
    BY <1>8
  <2> HIDE DEF D, m
  <2> QED BY <1>1, <1>11, <2>1, HalfEvenNear
<1>13. m = 2 * Half => m \div 2 = Half
  <2> HIDE DEF m
  <2> QED BY <1>1
<1> QED BY <1>1, <1>6, <1>7, <1>9, <1>10, <1>12, <1>13 DEF IsFloat

\* The floats of full length around n / D are closer to each other than 1 / D.
LEMMA Dense ==
  ASSUME NEW n \in Nat \ {0}, n < Half, NEW D \in Nat \ {0}, NEW a \in Nat \ {0}, NEW m \in Nat,
         IsFloat(n, D, a, m)
  PROVE  D < a
<1>1. Half \in Nat /\ Half * D <= n * a
  BY HalfType DEF IsFloat
<1> SUFFICES ASSUME a <= D PROVE FALSE
  OBVIOUS
<1>2. n * a <= n * D
  BY SMTT(30)
<1>3. n * D + D <= Half * D
  <2>1. (n + 1) * D = n * D + D
    OBVIOUS
  <2>2. (n + 1) * D <= Half * D
    BY <1>1
  <2> QED BY <2>1, <2>2
<1>4. n * a \in Nat /\ n * D \in Nat /\ Half * D \in Nat
  BY <1>1
<1> QED BY <1>1, <1>2, <1>3, <1>4

\* Amounts one apart, both short enough for the mantissa, are different floats.
LEMMA FloatsApart ==
  ASSUME NEW n \in Nat \ {0}, n + 1 < Half, NEW d \in {0, 2, 3}
  PROVE  Float(n, d) # Float(n + 1, d)
<1> SUFFICES ASSUME Float(n, d) = Float(n + 1, d) PROVE FALSE
  OBVIOUS
<1> DEFINE D == Ten(d)
<1>1. Half \in Nat \ {0} /\ D \in Nat \ {0} /\ n + 1 \in Nat \ {0} /\ n < Half /\ Top \in Nat
  BY HalfType, TenType, FloatAssumption DEF Top
<1>2. PICK k \in 1..Top : \E m \in Nat :
        /\ IsFloat(n, D, 2^k, m)
        /\ Float(n, d) = IF m = 2 * Half THEN <<Half, k - 1>> ELSE <<m, k>>
  BY <1>1, FloatIs DEF Ten
<1>3. PICK m \in Nat :
        /\ IsFloat(n, D, 2^k, m)
        /\ Float(n, d) = IF m = 2 * Half THEN <<Half, k - 1>> ELSE <<m, k>>
  BY <1>2
<1>4. PICK j \in 1..Top : \E l \in Nat :
        /\ IsFloat(n + 1, D, 2^j, l)
        /\ Float(n + 1, d) = IF l = 2 * Half THEN <<Half, j - 1>> ELSE <<l, j>>
  BY <1>1, FloatIs DEF Ten
<1>5. PICK l \in Nat :
        /\ IsFloat(n + 1, D, 2^j, l)
        /\ Float(n + 1, d) = IF l = 2 * Half THEN <<Half, j - 1>> ELSE <<l, j>>
  BY <1>4
<1> DEFINE a == 2^k
           b == 2^j
<1>6. a \in Nat \ {0} /\ b \in Nat \ {0}
  BY <1>1, PowerType
<1> HIDE DEF D, a, b
<1>7. IsFloat(n, D, a, m) /\ IsFloat(n + 1, D, b, l)
  BY <1>3, <1>5 DEF a, b
<1>8. D < a /\ D < b
  BY <1>1, <1>6, <1>7, Dense
<1> DEFINE x == n * a
           y == n * b
           s == D * m
           t == D * l
           h == D * Half
<1>9. /\ x \in Nat /\ y \in Nat /\ s \in Nat /\ t \in Nat /\ h \in Nat
      /\ (n + 1) * b = y + b
  BY <1>1, <1>6
<1>10. 2 * s <= 2 * x + D /\ 2 * (y + b) <= 2 * t + D
  BY <1>7, <1>9 DEF IsFloat
<1>11. CASE k = j /\ m = l
  <2>1. a = b
    BY <1>11 DEF a, b
  <2>2. x = y /\ s = t
    BY <1>11, <2>1
  <2> HIDE DEF x, y, s, t, h
  <2> QED BY <1>1, <1>6, <1>8, <1>9, <1>10, <2>1, <2>2
\* The mantissa of n rounded up to the next power of two.
<1>12. CASE k = j + 1 /\ m = 2 * Half /\ l = Half
  <2>1. a = 2 * b
    <3>1. k \in 1..(Top + 1) /\ k - 1 = j
      BY <1>1, <1>12
    <3> QED BY <3>1, PowerStep DEF a, b
  <2>2. x = 2 * y /\ s = 2 * h /\ t = h
    BY <1>1, <1>6, <1>12, <2>1
  <2> HIDE DEF x, y, s, t, h
  <2> QED BY <1>1, <1>6, <1>8, <1>9, <1>10, <2>2
\* The mantissa of n + 1 rounded up to the next power of two.
<1>13. CASE j = k + 1 /\ l = 2 * Half /\ m = Half
  <2>1. b = 2 * a
    <3>1. j \in 1..(Top + 1) /\ j - 1 = k
      BY <1>1, <1>13
    <3> QED BY <3>1, PowerStep DEF a, b
  <2>2. y = 2 * x /\ t = 2 * h /\ s = h
    BY <1>1, <1>6, <1>13, <2>1
  <2> HIDE DEF x, y, s, t, h
  <2> QED BY <1>1, <1>6, <1>8, <1>9, <1>10, <2>1, <2>2
<1>14. \/ k = j /\ m = l
       \/ k = j + 1 /\ m = 2 * Half /\ l = Half
       \/ j = k + 1 /\ l = 2 * Half /\ m = Half
  <2>1. (IF m = 2 * Half THEN <<Half, k - 1>> ELSE <<m, k>>)
          = (IF l = 2 * Half THEN <<Half, j - 1>> ELSE <<l, j>>)
    BY <1>3, <1>5
  <2> QED BY <1>1, <2>1
<1> QED BY <1>11, <1>12, <1>13, <1>14
-----------------------------------------------------------------------------
(***************************************************************************)
(* The number written for a float.                                         *)
(***************************************************************************)
LEMMA MaxOfTwo ==
  ASSUME NEW a \in Int, NEW b \in Int
  PROVE  Max({a, b}) \in {a, b} /\ Max({a, b}) >= a /\ Max({a, b}) >= b
<1>1. \E x \in {a, b} : \A y \in {a, b} : x >= y
  OBVIOUS
<1> QED BY <1>1 DEF Max

\* Whatever is written for an amount is an amount.
LEMMA WrittenType ==
  ASSUME NEW n \in Nat \ {0}, NEW d
  PROVE  Written(n, d) \subseteq Nat \ {0}
<1> DEFINE reach == n \div 2^(Mantissa - 1) + 1
           low == Max({1, n - reach})
<1>1. reach \in Nat
  <2>1. n \div Half \in Nat
    BY HalfType, Division
  <2> QED BY <2>1 DEF Half
<1>2. low \in Int /\ low >= 1
  <2> HIDE DEF reach
  <2>1. n - reach \in Int
    BY <1>1
  <2> QED BY <2>1, MaxOfTwo
<1> HIDE DEF low, reach
<1>3. low..(n + reach) \subseteq Nat \ {0}
  BY <1>1, <1>2
<1>4. Written(n, d) \subseteq low..(n + reach)
  <2>1. ~ (n < 0)
    OBVIOUS
  <2> QED BY <2>1 DEF Written, ShortestAsFloat, Shortest, SameFloat, low, reach
<1> QED BY <1>3, <1>4

\* An amount the mantissa has room for is written as it is: no other amount is
\* the same float.
THEOREM WrittenExact ==
  ASSUME NEW n \in Nat \ {0}, n + 1 < 2^(Mantissa - 1), NEW d \in {0, 2, 3}
  PROVE  Written(n, d) = {n}
<1> DEFINE reach == n \div 2^(Mantissa - 1) + 1
           low == Max({1, n - reach})
<1>1. reach = 1
  <2>1. Half \in Nat \ {0} /\ n < Half
    BY HalfType DEF Half
  <2>2. n \div Half = 0
    BY <2>1
  <2> QED BY <2>2 DEF Half
<1>2. low \in Nat \ {0} /\ low <= n /\ low >= n - 1
  <2> HIDE DEF reach
  <2>1. n - reach \in Int
    BY <1>1
  <2> DEFINE b == n - reach
  <2> HIDE DEF b
  <2>2. Max({1, b}) \in {1, b} /\ Max({1, b}) >= 1 /\ Max({1, b}) >= b
    <3>1. b \in Int /\ 1 \in Int
      BY <2>1 DEF b
    <3> QED BY <3>1, MaxOfTwo, Zenon
  <2>3. low \in {1, b} /\ low >= 1 /\ low >= b
    BY <2>2 DEF b
  <2> HIDE DEF low
  <2> QED BY <1>1, <2>3 DEF b
<1> HIDE DEF low, reach
<1>3. SameFloat(n, d) = {w \in low..(n + reach) : Float(w, d) = Float(n, d)}
  BY DEF SameFloat, low, reach
<1>4. ASSUME NEW w \in low..(n + reach), w # n
      PROVE  Float(w, d) # Float(n, d)
  <2>1. w = n + 1 \/ (w = n - 1 /\ w \in Nat \ {0})
    BY <1>1, <1>2, <1>4
  <2>2. CASE w = n + 1
    BY <2>2, FloatsApart DEF Half
  <2>3. CASE w = n - 1 /\ w \in Nat \ {0}
    <3>1. w + 1 = n /\ w + 1 < Half
      BY <2>3, HalfType DEF Half
    <3> QED BY <2>3, <3>1, FloatsApart
  <2> QED BY <2>1, <2>2, <2>3
<1>5. SameFloat(n, d) = {n}
  <2>1. n \in low..(n + reach)
    BY <1>1, <1>2
  <2> QED BY <1>3, <1>4, <2>1
<1>6. Shortest({n}) = {n}
  BY DEF Shortest
<1>7. ~ (n < 0)
  OBVIOUS
<1> QED BY <1>5, <1>6, <1>7 DEF Written, ShortestAsFloat
=============================================================================
