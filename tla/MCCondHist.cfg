SPECIFICATION HSpec
CONSTANTS
  MAXCONDLEV = 4
  MaxIfNesting = 2
  Values = {1, 2}
  BranchInIgnored = FALSE
CONSTRAINT NoErrorYet
INVARIANTS
  ParentsAssembled
  Linked
PROPERTIES
  ImplementsCondSpec
CHECK_DEADLOCK FALSE
