SPECIFICATION Spec
CONSTANTS
  MAXCONDLEV = 4
  MaxIfNesting = 2
  Values = {1, 2}
PROPERTIES
  IgnoredBlockIsIgnored
CHECK_DEADLOCK FALSE
