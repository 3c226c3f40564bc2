---------------------------- MODULE MCHTTPClient ----------------------------
(***************************************************************************)
(* Small instances of HTTPClient for TLC.                                  *)
(***************************************************************************)
EXTENDS HTTPClient, TLC

CONSTANTS p1, p2, p3, p4, g1, o1, o2, k1

\* p1 and p2 are submitted for one order, p3 and p4 for another; the key of
\* p4 is invalid.
TwoOrders == (p1 :> o1 @@ p2 :> o1 @@ p3 :> o2 @@ p4 :> o2)
NoKeys == (p1 :> NoKey @@ p2 :> NoKey @@ p3 :> NoKey @@ p4 :> InvalidKey)

SameOrder == (p1 :> o1 @@ p2 :> o1)
OneKey == (p1 :> k1 @@ p2 :> k1)

\* "retries" given as an int; a config that names 408 and 500 as well.
Ints == {CoerceRetries(n) : n \in 0..2}
Wide == [CoerceRetries(1) EXCEPT !.retry_statuses = @ \cup {408, 500}]

\* The application declares POST idempotent.
PostIdempotent == [CoerceRetries(1) EXCEPT !.idempotent_methods = @ \cup {"POST"}]

UnkeyedConfigs == {CoerceRetries(0), CoerceRetries(2), Wide}
KeyedConfigs == {CoerceRetries(0), PostIdempotent}
=============================================================================
