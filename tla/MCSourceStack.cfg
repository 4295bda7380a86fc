SPECIFICATION Spec
CONSTANTS
  Macros = {A}
  NoMacro = NoMacro
  maxmacrecurs = 2
  maxmacparams = 1
  maxloopiters = 2
  MaxRept = 2
  MaxDepth = 4
  MAXCONDLEV = 1
  MaxIfNesting = 0
  Values = {}
INVARIANTS
  RecursionsCounted
  IrpValueLeft
PROPERTIES
  ImplementsSourceSpec
CHECK_DEADLOCK FALSE
