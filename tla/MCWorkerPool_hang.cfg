\* Two workers, two entries more than errChan has room for, fair goroutines; the
\* reader does not break off.
CONSTANTS
  w1 = w1
  w2 = w2
  Worker <- TwoWorkers
  Total = 4
  ReadBuffer = 1
  ProgressEach = 2
  ReadMayFail = FALSE
  Name <- FourNames
SPECIFICATION FairSpec
\* ProcessFiles ends, and it can hang on errChan.
CHECK_DEADLOCK FALSE
PROPERTY CompletesDespiteFileErrors
