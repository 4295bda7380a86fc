\* 600 instructions, six sets of options, five processors.
CONSTANTS
  MEM = 16
  Code <- MCCode
  OptionSets <- MCOptionSets
  Cpus = {"m68000", "m68020", "m68040", "m68060", "mcfb"}
  Processors <- MCProcessors
SPECIFICATION Spec
INVARIANTS SameEffect FitsItsPlace CodeIsAvailable
CHECK_DEADLOCK FALSE
