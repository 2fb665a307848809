\* A tree of six entries through buffers of one, everything that may go wrong, and a fair
\* scheduler.
CONSTANTS
  Tree <- SmallTree
  OptionSets <- SomeOptions
  WalkBuffer = 1
  PathBuffer = 1
  Faults <- AllFaults
SPECIFICATION FairSpec
\* The scan ends.
CHECK_DEADLOCK FALSE
INVARIANTS
  BacklogComplete
  BacklogIsPrefix
  SafeToClose
  IInv
  StuckOnlyBehindFull
PROPERTIES
  ScanReturns
  GoroutinesEnd
  StepsRunOut
  KeepsContract
