\* An answer to create_payment whose signature is a number.  The payment ends,
\* so the system really may stop.
SPECIFICATION Spec
CONSTANTS
  Values <- Occurring
  Kinds = {"PURS"}
  Methods = {"CARD"}
  Bodies <- Distinct
  Creations <- OnlyBad
  Challenges <- OnlyWhole
  Cards <- Plain
  Wants = {}
INVARIANTS OnlySIBSErrors
CHECK_DEADLOCK FALSE
