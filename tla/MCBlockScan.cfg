SPECIFICATION Spec
CONSTANTS
  Untaken = {"rept"}
  MaxNest = 4
  MaxTexts = 3
INVARIANTS
  BlockEndsWithItsEnd
CHECK_DEADLOCK FALSE
