SPECIFICATION Spec
CONSTANTS
  W = 2
  L = 3
  Versions = {0, 1}
  Programs <- MCPrograms
INVARIANTS SameContents SameSymbols SameRelocs
CHECK_DEADLOCK FALSE
