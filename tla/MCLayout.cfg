\* Every program of MCResolver, laid out, assembled and written.
SPECIFICATION ASpec
CONSTANTS
  Labels = {"x", "y"}
  Half = 64
  ShortReach = 4
  WordReach = 10
  LongBranches = TRUE
  NumSecs = 2
  Programs <- LayoutPrograms
  MAXPASSES = 40
  FASTOPTPHASE = 2
  MAXSIZECHANGES = 2
INVARIANTS
  NoMaxPasses BranchesReach OnlyTodoIsStale LayoutSettled
  AssembledAsResolved WrittenAsAssembled OverflowReported
PROPERTIES SafeModeIsSafe Terminates
CHECK_DEADLOCK FALSE
