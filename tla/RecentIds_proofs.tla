--------------------------- MODULE RecentIds_proofs ---------------------------
(***************************************************************************)
(* Lemmas about the dict of a deduplicator as a sequence of ids.           *)
(***************************************************************************)
EXTENDS RecentIds, SequenceTheorems, FiniteSetTheorems, TLAPS

\* Removing an id that occurs once shortens the sequence by one.
LEMMA WithoutType ==
  ASSUME NEW S, NEW s \in Seq(S), NEW x
  PROVE  Without(s, x) \in Seq(S)
<1>1. CASE ~ Has(s, x)
  BY <1>1 DEF Without
<1>2. CASE Has(s, x)
  <2> DEFINE k == CHOOSE i \in DOMAIN s : s[i] = x
             t == [i \in 1 .. Len(s) - 1 |-> IF i < k THEN s[i] ELSE s[i + 1]]
  <2>1. k \in 1 .. Len(s)
    BY <1>2 DEF Has
  <2>2. Len(s) - 1 \in Nat
    BY <2>1
  <2>3. \A i \in 1 .. Len(s) - 1 : t[i] \in S
    <3> TAKE i \in 1 .. Len(s) - 1
    <3>1. i \in 1 .. Len(s) /\ i + 1 \in 1 .. Len(s)
      BY <2>2
    <3>2. s[i] \in S /\ s[i + 1] \in S
      BY <3>1
    <3> QED BY <3>2
  <2>4. t \in [1 .. Len(s) - 1 -> S]
    BY <2>3
  <2>5. t \in Seq(S)
    BY <2>2, <2>4
  <2>6. Without(s, x) = t
    BY <1>2 DEF Without
  <2> QED BY <2>5, <2>6
<1> QED BY <1>1, <1>2

LEMMA WithoutLen ==
  ASSUME NEW S, NEW s \in Seq(S), NEW x, Has(s, x)
  PROVE  Len(Without(s, x)) = Len(s) - 1
<1> DEFINE k == CHOOSE i \in DOMAIN s : s[i] = x
           t == [i \in 1 .. Len(s) - 1 |-> IF i < k THEN s[i] ELSE s[i + 1]]
<1>1. Len(s) \in Nat /\ Len(s) >= 1
  BY DEF Has
<1>2. Len(t) = Len(s) - 1
  BY <1>1
<1>3. Without(s, x) = t
  BY DEF Without
<1> QED BY <1>2, <1>3

\* Without() of the oldest id is the tail of the dict.
LEMMA WithoutFirst ==
  ASSUME NEW S, NEW s \in Seq(S), s # <<>>,
         \A i, j \in DOMAIN s : s[i] = s[j] => i = j
  PROVE  /\ Has(s, s[1])
         /\ Len(Without(s, s[1])) = Len(s) - 1
         /\ \A i \in 1 .. Len(s) - 1 : Without(s, s[1])[i] = s[i + 1]
<1>1. Len(s) \in Nat /\ Len(s) >= 1 /\ DOMAIN s = 1 .. Len(s) /\ 1 \in DOMAIN s
  OBVIOUS
<1>2. Has(s, s[1])
  BY <1>1 DEF Has
<1> DEFINE k == CHOOSE i \in DOMAIN s : s[i] = s[1]
           t == [i \in 1 .. Len(s) - 1 |-> IF i < k THEN s[i] ELSE s[i + 1]]
<1>3. k = 1
  BY <1>1
<1>4. Without(s, s[1]) = t
  BY <1>2 DEF Without
<1>5. \A i \in 1 .. Len(s) - 1 : t[i] = s[i + 1]
  BY <1>3
<1>6. Len(t) = Len(s) - 1
  BY <1>1
<1> QED BY <1>2, <1>4, <1>5, <1>6
\* A sequence with one more element, and one with an element less.
LEMMA HasAppend ==
  ASSUME NEW S, NEW s \in Seq(S), NEW x \in S, NEW y
  PROVE  Has(Append(s, x), y) <=> Has(s, y) \/ y = x
<1>1. /\ Len(s) \in Nat /\ DOMAIN s = 1 .. Len(s)
      /\ DOMAIN Append(s, x) = 1 .. Len(s) + 1
      /\ \A i \in 1 .. Len(s) : Append(s, x)[i] = s[i]
      /\ Append(s, x)[Len(s) + 1] = x
  OBVIOUS
<1>2. ASSUME Has(Append(s, x), y) PROVE Has(s, y) \/ y = x
  <2>1. PICK i \in 1 .. Len(s) + 1 : Append(s, x)[i] = y
    BY <1>1, <1>2 DEF Has
  <2>2. CASE i = Len(s) + 1
    BY <1>1, <2>1, <2>2
  <2>3. CASE i # Len(s) + 1
    <3>1. i \in 1 .. Len(s)
      BY <1>1, <2>3
    <3> QED BY <1>1, <2>1, <3>1 DEF Has
  <2> QED BY <2>2, <2>3
<1>3. ASSUME Has(s, y) PROVE Has(Append(s, x), y)
  <2>1. PICK i \in 1 .. Len(s) : s[i] = y
    BY <1>1, <1>3 DEF Has
  <2>2. i \in 1 .. Len(s) + 1
    BY <1>1
  <2> QED BY <1>1, <2>1, <2>2 DEF Has
<1>4. Has(Append(s, x), x)
  <2>1. Len(s) + 1 \in 1 .. Len(s) + 1
    BY <1>1
  <2> QED BY <1>1, <2>1 DEF Has
<1> QED BY <1>2, <1>3, <1>4

LEMMA HasWithout ==
  ASSUME NEW S, NEW s \in Seq(S), NEW x, NEW y, Has(Without(s, x), y)
  PROVE  Has(s, y)
<1>1. CASE ~ Has(s, x)
  BY <1>1 DEF Without
<1>2. CASE Has(s, x)
  <2> DEFINE k == CHOOSE i \in DOMAIN s : s[i] = x
             t == [i \in 1 .. Len(s) - 1 |-> IF i < k THEN s[i] ELSE s[i + 1]]
  <2>1. Without(s, x) = t
    BY <1>2 DEF Without
  <2>2. PICK i \in 1 .. Len(s) - 1 : t[i] = y
    BY <2>1 DEF Has
  <2>3. s[i] = y \/ s[i + 1] = y
    BY <2>2
  <2>4. Len(s) \in Nat /\ i \in DOMAIN s /\ i + 1 \in DOMAIN s
    OBVIOUS
  <2> QED BY <2>3, <2>4 DEF Has
<1> QED BY <1>1, <1>2

\* The oldest id leaves the tail behind.
LEMMA WithoutFirstIsTail ==
  ASSUME NEW S, NEW s \in Seq(S), s # <<>>,
         \A i, j \in DOMAIN s : s[i] = s[j] => i = j
  PROVE  Without(s, s[1]) = Tail(s)
<1>1. /\ Len(Without(s, s[1])) = Len(s) - 1
      /\ \A i \in 1 .. Len(s) - 1 : Without(s, s[1])[i] = s[i + 1]
  BY WithoutFirst
<1>2. Without(s, s[1]) \in Seq(S) /\ Tail(s) \in Seq(S)
  BY WithoutType
<1>3. /\ Len(Tail(s)) = Len(s) - 1
      /\ \A i \in 1 .. Len(s) - 1 : Tail(s)[i] = s[i + 1]
  OBVIOUS
<1>4. /\ Len(Without(s, s[1])) = Len(Tail(s))
      /\ \A i \in 1 .. Len(Without(s, s[1])) : Without(s, s[1])[i] = Tail(s)[i]
  BY <1>1, <1>3
<1> QED BY <1>2, <1>4, SeqEqual

\* No id occurs twice.
NoRepeat(s) == \A i, j \in DOMAIN s : s[i] = s[j] => i = j

\* One undisturbed call of seen() keeps the ids of the dict among S, within
\* its capacity, and remembers at most the id it was given besides.
LEMMA RememberType ==
  ASSUME NEW S, NEW s \in Seq(S), NEW none, none \notin S, NEW id \in S \cup {none},
         NEW maxlen \in Nat \ {0}, Len(s) <= maxlen
  PROVE  /\ Remember(s, id, none, maxlen) \in Seq(S)
         /\ Len(Remember(s, id, none, maxlen)) <= maxlen
         /\ \A y : Has(Remember(s, id, none, maxlen), y) => Has(s, y) \/ (y = id /\ id \in S)
<1>1. CASE id = none \/ Has(s, id)
  BY <1>1 DEF Remember
<1>2. CASE ~ (id = none \/ Has(s, id)) /\ Len(s) < maxlen
  <2>1. Remember(s, id, none, maxlen) = Append(s, id) /\ id \in S
    BY <1>2 DEF Remember
  <2> QED BY <1>2, <2>1, HasAppend
<1>3. CASE ~ (id = none \/ Has(s, id)) /\ ~ (Len(s) < maxlen)
  <2>1. Remember(s, id, none, maxlen) = Append(Tail(s), id) /\ id \in S
    BY <1>3 DEF Remember
  <2>2. Len(s) \in Nat /\ Len(s) = maxlen /\ s # <<>>
    BY <1>3
  <2>3. Tail(s) \in Seq(S) /\ Len(Tail(s)) = Len(s) - 1
    BY <2>2
  <2>4. ASSUME NEW y, Has(Tail(s), y) PROVE Has(s, y)
    <3>1. PICK i \in 1 .. Len(s) - 1 : Tail(s)[i] = y
      BY <2>3, <2>4 DEF Has
    <3>2. Tail(s)[i] = s[i + 1] /\ i + 1 \in DOMAIN s
      BY <2>2
    <3> QED BY <3>1, <3>2 DEF Has
  <2>5. \A y : Has(Append(Tail(s), id), y) => Has(s, y) \/ y = id
    <3> TAKE y
    <3>1. Has(Append(Tail(s), id), y) <=> Has(Tail(s), y) \/ y = id
      BY <2>1, <2>3, HasAppend
    <3> QED BY <2>4, <3>1
  <2>6. Append(Tail(s), id) \in Seq(S) /\ Len(Append(Tail(s), id)) = Len(s)
    BY <2>1, <2>2, <2>3
  <2> QED BY <2>1, <2>2, <2>5, <2>6
<1> QED BY <1>1, <1>2, <1>3

\* With room for all of S nothing is ever forgotten.
LEMMA RememberRoom ==
  ASSUME NEW S, IsFiniteSet(S), NEW s \in Seq(S), NoRepeat(s), NEW none, none \notin S,
         NEW id \in S \cup {none}, NEW maxlen \in Nat, Cardinality(S) <= maxlen
  PROVE  /\ NoRepeat(Remember(s, id, none, maxlen))
         /\ \A y : Has(s, y) => Has(Remember(s, id, none, maxlen), y)
         /\ id # none => Has(Remember(s, id, none, maxlen), id)
<1>1. CASE id = none \/ Has(s, id)
  BY <1>1 DEF Remember
<1>2. CASE ~ (id = none \/ Has(s, id))
  <2> DEFINE t == Append(s, id)
  <2>1. /\ Len(s) \in Nat /\ DOMAIN s = 1 .. Len(s) /\ id \in S
        /\ t \in Seq(S) /\ DOMAIN t = 1 .. Len(s) + 1
        /\ \A i \in 1 .. Len(s) : t[i] = s[i] /\ t[i] # id
        /\ t[Len(s) + 1] = id
    BY <1>2 DEF Has
  <2>2. NoRepeat(t)
    <3> SUFFICES ASSUME NEW i \in 1 .. Len(s) + 1, NEW j \in 1 .. Len(s) + 1, t[i] = t[j]
                 PROVE  i = j
      BY <2>1 DEF NoRepeat
    <3>1. CASE i = Len(s) + 1 \/ j = Len(s) + 1
      <4>1. i \notin 1 .. Len(s) \/ j \notin 1 .. Len(s)
        BY <2>1, <3>1
      <4>2. t[i] = id /\ t[j] = id
        BY <2>1, <3>1
      <4> QED BY <2>1, <4>2
    <3>2. CASE i # Len(s) + 1 /\ j # Len(s) + 1
      <4>1. i \in 1 .. Len(s) /\ j \in 1 .. Len(s)
        BY <2>1, <3>2
      <4> QED BY <2>1, <4>1 DEF NoRepeat
    <3> QED BY <3>1, <3>2
  <2>3. Len(s) < maxlen
    <3>1. t \in Injection(1 .. Len(s) + 1, S)
      <4>1. t \in [1 .. Len(s) + 1 -> S]
        <5> HIDE DEF t
        <5>1. t \in [DOMAIN t -> S]
          BY <2>1
        <5> QED BY <2>1, <5>1
      <4> QED BY <2>1, <2>2, <4>1 DEF NoRepeat, Injection, IsInjective
    <3>2. Cardinality(1 .. Len(s) + 1) <= Cardinality(S)
      BY <3>1, FS_Injection
    <3>3. Cardinality(1 .. Len(s) + 1) = Len(s) + 1
      BY <2>1, FS_Interval
    <3>4. Cardinality(S) \in Nat
      BY FS_CardinalityType
    <3> QED BY <2>1, <3>2, <3>3, <3>4
  <2>4. Remember(s, id, none, maxlen) = t
    BY <1>2, <2>3 DEF Remember
  <2> QED BY <2>1, <2>2, <2>4, HasAppend
<1> QED BY <1>1, <1>2
===============================================================================
