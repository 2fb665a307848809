\* Two workers, a backlog longer than relPaths, the feeder and workerChan hold
\* together and than errChan has room for; cancellation at any moment, a reader
\* that may break off, fair goroutines.
CONSTANTS
  w1 = w1
  w2 = w2
  Worker <- TwoWorkers
  Total = 6
  ReadBuffer = 1
  ProgressEach = 2
  ReadMayFail = TRUE
  Name <- SixNames
SPECIFICATION FairSpec
\* ProcessFiles ends, and it can hang on errChan.
CHECK_DEADLOCK FALSE
INVARIANTS
  AllAttempted
  FinalReportExact
  MilestonesReportedOnce
  IInv
  StuckOnlyOnErrors
PROPERTIES
  QuietAfterReturn
  KeepsContract
  IsCall
  StepsRunOut
  EndsUnlessErrorsOverflow
  ReaderNotLeaked
