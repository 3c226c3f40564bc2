\* Currencies of two, none and three decimals.  The payment ends, so the system
\* really may stop.
SPECIFICATION Spec
CONSTANTS
  Scale = 3
  Precision = 4
  Mantissa = 11
  Exact = 3
  Currencies = {"EUR", "JPY", "KWD"}
  Amounts <- SomeAmounts
  MaxOperations = 5
INVARIANTS TypeOK BooksAgree WireExact
CHECK_DEADLOCK FALSE
