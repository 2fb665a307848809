\* A file of two chunks, an output of four, everything that may go wrong and up
\* to two writes by another program.
CONSTANTS
  SourceChunks = 2
  OutputChunks = 4
  MaxVersion = 3
  Absent = Absent
  Faults <- AllFaults
SPECIFICATION FairSpec
\* The call ends.
CHECK_DEADLOCK FALSE
INVARIANTS
  InfoIsCurrent
  IInv
PROPERTIES
  KeepsContract
  IsAttempt
  StepsRunOut
  Returns
