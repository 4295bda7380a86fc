SPECIFICATION Spec
CONSTANTS
  Programs <- MCPrograms
INVARIANTS Arranged InitialisedWritten GcClosed InOneSection RelocsNameTheirSection
PROPERTY Merges
CHECK_DEADLOCK FALSE
