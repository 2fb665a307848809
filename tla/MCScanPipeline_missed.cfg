\* Nothing happens but that the caller cancels.
CONSTANTS
  Tree <- SmallTree
  OptionSets <- SomeOptions
  WalkBuffer = 1
  PathBuffer = 1
  Faults = {"cancel"}
SPECIFICATION Spec
\* The scan ends.
CHECK_DEADLOCK FALSE
INVARIANT NoErrorMissed
