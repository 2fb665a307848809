\* Only system calls fail.
CONSTANTS
  SourceChunks = 3
  OutputChunks = 2
  MaxVersion = 6
  Absent = Absent
  Faults = {"io"}
SPECIFICATION Spec
\* The call ends.
CHECK_DEADLOCK FALSE
INVARIANT NothingLeftBehind
