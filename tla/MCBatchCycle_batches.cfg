\* Either backlog, any three faults over any number of scans and processing calls.
CONSTANTS
  Managers <- BothManagers
  Path <- AllPaths
  ReadsAs <- AsLines
  Stub = "b"
  Walked <- InOrder
  Broken = {"bad"}
  Concurrency = 1
  Faults <- AllFaults
  MaxFaults = 3
SPECIFICATION FairSpec
INVARIANTS
  CutNeverProcessed
  OneWorkerPerFile
  OnlyWhatIsNeeded
  OneBatchSuffices
  IInv
PROPERTY Converges
\* A hung call stays so when nothing else goes on.
CHECK_DEADLOCK FALSE
