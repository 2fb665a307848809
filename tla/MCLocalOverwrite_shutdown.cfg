\* Only the context is cancelled.
CONSTANTS
  SourceChunks = 3
  OutputChunks = 2
  MaxVersion = 6
  Absent = Absent
  Faults = {"cancel"}
SPECIFICATION Spec
\* The call ends.
CHECK_DEADLOCK FALSE
PROPERTY UploadIgnoresShutdown
