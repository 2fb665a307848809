\* Nothing happens but a write by another program.
CONSTANTS
  MaxRetries = 1
  Stores = {"leveldb"}
  Links = {FALSE}
  Faults = {"writer"}
  MaxFaults = 1
SPECIFICATION Spec
INVARIANT DoneIsProcessed
