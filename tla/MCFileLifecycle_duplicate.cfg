\* A symbolic link, followed; nothing goes wrong.
CONSTANTS
  MaxRetries = 1
  Stores = {"leveldb"}
  Links = {TRUE}
  Faults = {}
  MaxFaults = 0
SPECIFICATION Spec
INVARIANT NoDuplicateProcessing
