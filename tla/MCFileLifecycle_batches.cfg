\* Either store, one retry, any three faults over any number of batches.
CONSTANTS
  MaxRetries = 1
  Stores <- BothStores
  Links = {FALSE}
  Faults <- AllFaults
  MaxFaults = 3
SPECIFICATION FairSpec
INVARIANTS
  SkippedIsProcessed
  ProcessedOnce
  SuccessIsRecorded
  SmoothBatchSettles
  IInv
PROPERTIES
  FailureNotSkipped
  OnlyReportsSettle
  Converges
