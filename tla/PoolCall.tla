------------------------------ MODULE PoolCall ------------------------------
(***************************************************************************)
(* The goroutines of WorkerPool as BatchCycle has them: a processing call  *)
(* with the lines it has still to process, the errors it has met and no    *)
(* channel.  What BatchCycle assumes of ProcessFiles - which lines the     *)
(* workers get, that each is processed once, when the call returns and     *)
(* when it hangs - is here what the goroutines do.                         *)
(***************************************************************************)
EXTENDS WorkerPool

CONSTANT Name   \* Name[j]: the path in the j-th line of the backlog

\* A scan lists no path twice: OneWorkerPerFile of BatchCycle.
ASSUME NameAssumption ==
  /\ Name \in Seq(STRING) /\ Len(Name) = Total
  /\ \A i, j \in Entry : Name[i] = Name[j] => i = j

LineOf(j) == [entry |-> j, part |-> 1, name |-> Name[j]]

CallProc ==
  CASE main = "open" -> "counted" [] main = "wait" -> "reading" [] OTHER -> "idle"
CallTodo == IF main = "wait" THEN {LineOf(j) : j \in Outcomes("todo")} ELSE {}
CallErrors == Cardinality(Outcomes("failed"))
CallNeeds == {Name[j] : j \in Entry \ Outcomes("ok")}

\* What has gone wrong: with files, and with the call when it left some undone.
Stopped == main = "aborted" \/ (main = "returned" /\ Outcomes("todo") # {})
CallFaultsLeft == Total + 1 - CallErrors - (IF Stopped THEN 1 ELSE 0)

\* A gzip file that was closed, with names that need no trimming.
Cycle == INSTANCE BatchCycle WITH
  Managers <- {"gzip"}, Path <- {Name[j] : j \in Entry},
  ReadsAs <- [p \in {Name[j] : j \in Entry} |-> <<p>>], Stub <- "", Walked <- Name,
  Broken <- {}, Faults <- {"process", "cancel", "read"}, MaxFaults <- Total + 1,
  manager <- "gzip", stored <- Name, end <- "whole", scan <- "idle", next <- Total + 1,
  since <- Total + 1, proc <- CallProc, todo <- CallTodo, errors <- CallErrors,
  needs <- CallNeeds, broke <- FALSE, again <- FALSE,
  spent <- main \in {"wait", "returned"}, faultsLeft <- CallFaultsLeft

Calls == Cycle!Count \/ Cycle!GiveUp \/ Cycle!Processing

\* A call of ProcessFiles is a call as BatchCycle has it: the workers are given each line
\* once, a file is processed and recorded or fails, the call returns with lines left only
\* when something stopped it, never with more errors than workers, and no worker is left
\* to go on when there are twice as many (workflow.go:104-187).
IsCall == CallProc = "idle" /\ [][Calls]_(Cycle!vars)
=============================================================================
