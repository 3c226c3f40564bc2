\* A card authorization, with the texts docs/internal-notes.md lists.  The
\* payment ends, so the system really may stop.
SPECIFICATION Spec
CONSTANTS
  Values <- Occurring
  Kinds = {"AUTH"}
  Methods = {"CARD"}
  Bodies <- CardTexts
  Creations <- OnlySigned
  Challenges <- OnlyWhole
  Cards <- Plain
  Wants = {}
INVARIANTS SeenWasReached
CHECK_DEADLOCK FALSE
