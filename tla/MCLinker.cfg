SPECIFICATION Spec
CONSTANTS
  Objects = {"o1", "o2"}
  Members = {"m1", "m2"}
  CtorNames = {"INIT_g"}
  CtorLabel = "CTORS"
  Names <- MCNames
  Files <- MCFiles
  Programs <- MCPrograms
INVARIANTS OnlyOutgrownDangle OneDefinition UndefinedReported DuplicatesReported ProgramClosed
PROPERTY Resolves
CHECK_DEADLOCK FALSE
