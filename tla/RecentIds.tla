------------------------------ MODULE RecentIds ------------------------------
(***************************************************************************)
(* The dict NotificationDeduplicator keeps, as the sequence of its keys in *)
(* the order in which they were inserted.                                  *)
(***************************************************************************)
EXTENDS Integers, Sequences

Has(s, x) == \E i \in DOMAIN s : s[i] = x

\* s without x, which occurs in it at most once.
Without(s, x) ==
  IF Has(s, x)
    THEN LET k == CHOOSE i \in DOMAIN s : s[i] = x
         IN  [i \in 1 .. Len(s) - 1 |-> IF i < k THEN s[i] ELSE s[i + 1]]
    ELSE s

\* Plausible bug: the capacity is exceeded by one.
RememberOneMore(s, id, none, maxlen) ==
  IF id = none \/ Has(s, id) THEN s
  ELSE IF Len(s) <= maxlen THEN Append(s, id) ELSE Append(Tail(s), id)

\* The dict after one undisturbed call of seen(id).
Remember(s, id, none, maxlen) ==
  IF id = none \/ Has(s, id) THEN s
  ELSE IF Len(s) < maxlen THEN Append(s, id) ELSE Append(Tail(s), id)
=============================================================================
