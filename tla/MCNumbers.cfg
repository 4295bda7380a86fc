\* Every number read exactly, or evaluated with one operator.
CONSTANTS
  HALF_BITS = 5
  Literals <- MCLiterals
  Operands <- MCOperands
SPECIFICATION Spec
INVARIANTS BinaryLiteralExact 
CHECK_DEADLOCK FALSE
