------------------------------ MODULE MCRefunds ------------------------------
(***************************************************************************)
(* Amounts for Refunds, in thousandths: ties and near ties of each kind of *)
(* currency, zero, less than zero, sums of three and four digits, one that *)
(* the decimal context cannot hold, and one of a type that is refused.     *)
(***************************************************************************)
EXTENDS Refunds

SomeAmounts ==
  { [type |-> "number", units |-> n] :
      n \in {-5, 0, 4, 5, 15, 1005, 2499, 2500, 3335, 9994, 10005, 99999, 4097000, 10000000} }
  \cup {[type |-> "other", units |-> 1]}
=============================================================================
