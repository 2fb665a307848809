--------------------------- MODULE WorkerPoolInv ----------------------------
(***************************************************************************)
(* The inductive invariant of WorkerPool: the facts about the channels and *)
(* the counters from which its safety properties follow.  TLC checks it on *)
(* a small instance (MCWorkerPool) and WorkerPoolProofs proves it.         *)
(***************************************************************************)
EXTENDS WorkerPool

\* How many entries the feeder has received so far.
Fed == nextEntry - 1 - Len(relPaths)

\* Goroutines exist from the moment the backlog is open, and the caller only
\* returns when every worker has signalled.
Phases ==
  /\ main \in {"count", "open", "aborted"} =>
       /\ reader = "off" /\ feeder = "off"
       /\ \A w \in Worker : worker[w] = "off"
       /\ \A j \in Entry : fate[j] = "todo"
  /\ main \in {"wait", "returned"} =>
       /\ reader # "off" /\ feeder # "off"
       /\ \A w \in Worker : worker[w] # "off"
  /\ main = "returned" => \A w \in Worker : worker[w] = "gone"

\* The channels hold consecutive entries: workerChan those after the taken
\* ones, then the feeder's hand, then relPaths up to nextEntry.  Only a
\* cancellation makes a gap, and then nothing enters workerChan any more.
Order ==
  /\ \A i \in 1..Len(relPaths) : relPaths[i] = Fed + i
  /\ \A i \in 1..Len(workerChan) : workerChan[i] = taken + i
  /\ taken + Len(workerChan) <= Fed
  /\ feeder \in {"off", "recv"} => taken + Len(workerChan) = Fed
  /\ feeder = "send" => hand = Fed /\ taken + Len(workerChan) = Fed - 1
  /\ feeder = "done" /\ ctx = "live" =>
       relPaths = <<>> /\ RelPathsClosed /\ taken + Len(workerChan) = Fed
  /\ reader = "done" /\ ctx = "live" => nextEntry = Total + 1

\* An entry is settled or in one worker's hands exactly when it was taken.
Jobs ==
  /\ \A w \in Worker : worker[w] = "busy" =>
       job[w] \in Entry /\ job[w] <= taken /\ fate[job[w]] = "todo"
  /\ \A v, w \in Worker :
       worker[v] = "busy" /\ worker[w] = "busy" /\ job[v] = job[w] => v = w
  /\ \A j \in Entry : fate[j] = "todo" /\ j <= taken =>
       \E w \in Worker : worker[w] = "busy" /\ job[w] = j
  /\ \A j \in Entry : j > taken => fate[j] = "todo"
  /\ \A w \in Worker : worker[w] \in {"exit", "gone"} =>
       feeder = "done" /\ workerChan = <<>>

At(place) == {w \in Worker : worker[w] = place}

\* The counters count: signalled workers, failed files and successes.
Counts ==
  /\ doneCount = Cardinality(At("gone"))
  /\ errCount + Cardinality(At("errSend")) = Cardinality(Outcomes("failed"))
  /\ processed = Cardinality(Outcomes("ok"))

Reporting ==
  /\ \A w \in Worker : current[w] <= processed
  /\ \A i \in 1..Len(reports) : reports[i] <= processed
  /\ main = "returned" =>
       Len(reports) > 0 /\ reports[Len(reports)] = processed

\* The reports of the workers: all of them but the last once the call has returned.
Reported == IF main = "returned" THEN 1..(Len(reports) - 1) ELSE 1..Len(reports)

\* Every multiple that the counter has passed is in one report or in the hands of
\* one worker.
Milestones ==
  /\ \A w \in Worker : worker[w] = "report" =>
       current[w] \in 1..processed /\ IsMilestone(current[w])
  /\ \A i \in Reported : reports[i] \in 1..processed /\ IsMilestone(reports[i])
  /\ \A n \in 1..processed : IsMilestone(n) =>
       \/ \E i \in Reported : reports[i] = n
       \/ \E w \in Worker : worker[w] = "report" /\ current[w] = n
  /\ \A i, j \in Reported : reports[i] = reports[j] => i = j
  /\ \A i \in Reported, w \in Worker : worker[w] = "report" => reports[i] # current[w]
  /\ \A v, w \in Worker :
       worker[v] = "report" /\ worker[w] = "report" /\ current[v] = current[w] => v = w

\* The channels, the hands of the goroutines and the counters of
\* processWithConcurrency (workflow.go:131-187) agree on which entries are
\* queued, taken, settled and counted.
IInv ==
  /\ TypeOK /\ Phases /\ Order /\ Jobs /\ Counts /\ Reporting /\ Milestones
=============================================================================
