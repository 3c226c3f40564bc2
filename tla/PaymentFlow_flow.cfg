\* Every kind, method and operation, a text of its own for each phase, and
\* answers to create_payment and card operations that the parsers reject.  The
\* payment ends, so the system really may stop.
SPECIFICATION FairSpec
CONSTANTS
  Values <- Occurring
  Kinds = {"PURS", "AUTH"}
  Methods = {"CARD", "TOKEN", "MBWAY", "REFERENCE"}
  Bodies <- Distinct
  Creations <- CreatesAndBad
  Challenges <- AllChallenges
  Cards <- Tokens
  Wants = {"capture", "cancel", "refund"}
INVARIANTS TypeOK IInv SeenWasReached ChallengeWasRaised
PROPERTIES OutcomeLearned
CHECK_DEADLOCK FALSE
