SPECIFICATION Spec
CONSTANTS
  a = a
  b = b
  c = c
  lab = lab
  Names = {a, b, c}
  Locals = {lab}
  MaxLines = 5
  INLSTACKSIZE = 2
CONSTANT Menus <- MCMenus
INVARIANTS UseMeansDefinition DefinedOnce SymbolsOfObject LocalScope
CHECK_DEADLOCK FALSE
