------------------------ MODULE WorkerPoolEndsProofs ------------------------
(***************************************************************************)
(* Proofs of what WorkerPoolEnds states, from the inductive invariant of   *)
(* WorkerPool: for every number of workers, every backlog length and every *)
(* buffer size.                                                            *)
(***************************************************************************)
EXTENDS WorkerPoolEnds, WorkerPoolProofs

Places == {"off", "recv", "busy", "errSend", "report", "exit", "gone"}

\* A sum of which one part decreases and no other grows.
LEMMA SumDecreases ==
  ASSUME NEW a \in Nat, NEW b \in Nat, NEW c \in Nat,
         NEW x \in Nat, NEW y \in Nat, NEW z \in Nat,
         x < a, y <= b, z <= c
  PROVE  x + y + z < a + b + c
OBVIOUS

\* The steps left at each place.
LEMMA StepsAtPlaces ==
  /\ StepsAt("busy") = 4 /\ StepsAt("errSend") = 3 /\ StepsAt("report") = 3
  /\ StepsAt("off") = 2 /\ StepsAt("recv") = 2
  /\ StepsAt("exit") = 1 /\ StepsAt("gone") = 0
  /\ \A place \in Places : StepsAt(place) \in 0..4
BY DEF StepsAt, Places

LEMMA AtLeastFinite ==
  ASSUME NEW n \in Nat
  PROVE  IsFiniteSet(AtLeast(n)) /\ Cardinality(AtLeast(n)) \in Nat
<1>1. AtLeast(n) \subseteq Worker
  BY DEF AtLeast
<1> QED  BY <1>1, WorkerAssumption, FS_Subset, FS_CardinalityType

\* One worker's move counts only for itself.
LEMMA LevelStep ==
  ASSUME WorkerType, NEW w \in Worker, NEW place \in Places, NEW n \in Nat,
         worker' = [worker EXCEPT ![w] = place]
  PROVE  Cardinality(AtLeast(n)') =
           Cardinality(AtLeast(n)) - OneIf(StepsAt(worker[w]) >= n)
             + OneIf(StepsAt(place) >= n)
<1> DEFINE S == AtLeast(n)
<1>1. S' = {v \in Worker : StepsAt(worker'[v]) >= n}
  BY DEF AtLeast
<1>2. /\ worker'[w] = place
      /\ \A v \in Worker \ {w} : worker'[v] = worker[v]
  BY DEF WorkerType
<1>3. w \in S <=> StepsAt(worker[w]) >= n
  BY DEF AtLeast
<1>4. IsFiniteSet(S) /\ Cardinality(S) \in Nat
  BY AtLeastFinite
<1> HIDE DEF S
<1>5. CASE StepsAt(place) >= n
  <2>1. S' = S \union {w}
    BY <1>1, <1>2, <1>5 DEF S, AtLeast
  <2>2. Cardinality(S') = IF w \in S THEN Cardinality(S) ELSE Cardinality(S) + 1
    BY <1>4, <2>1, FS_AddElement
  <2> QED  BY <1>3, <1>4, <1>5, <2>2 DEF OneIf, S
<1>6. CASE ~(StepsAt(place) >= n)
  <2>1. S' = S \ {w}
    BY <1>1, <1>2, <1>6 DEF S, AtLeast
  <2>2. Cardinality(S') = IF w \in S THEN Cardinality(S) - 1 ELSE Cardinality(S)
    BY <1>4, <2>1, FS_RemoveElement
  <2> QED  BY <1>3, <1>4, <1>6, <2>2 DEF OneIf, S
<1> QED  BY <1>5, <1>6

LEMMA WorkerMoves ==
  ASSUME WorkerType, NEW w \in Worker, NEW place \in Places,
         worker' = [worker EXCEPT ![w] = place]
  PROVE  WorkerSteps' = WorkerSteps - StepsAt(worker[w]) + StepsAt(place)
<1> DEFINE old == StepsAt(worker[w])
           new == StepsAt(place)
<1>1. old \in 0..4 /\ new \in 0..4
  BY StepsAtPlaces DEF WorkerType, Places
<1>2. ASSUME NEW n \in {1, 2, 3, 4}
      PROVE  /\ Cardinality(AtLeast(n)) \in Nat
             /\ Cardinality(AtLeast(n)') =
                  Cardinality(AtLeast(n)) - OneIf(old >= n) + OneIf(new >= n)
  BY LevelStep, AtLeastFinite
<1> HIDE DEF old, new
<1>3. ASSUME NEW k \in 0..4
      PROVE  OneIf(k >= 1) + OneIf(k >= 2) + OneIf(k >= 3) + OneIf(k >= 4) = k
  BY DEF OneIf
<1>4. \A n \in {1, 2, 3, 4}, k \in 0..4 : OneIf(k >= n) \in {0, 1}
  BY DEF OneIf
<1>5. WorkerSteps' = Cardinality(AtLeast(1)') + Cardinality(AtLeast(2)')
                       + Cardinality(AtLeast(3)') + Cardinality(AtLeast(4)')
  BY DEF WorkerSteps
<1>6. WorkerSteps' = WorkerSteps - old + new
  BY <1>1, <1>2, <1>3, <1>4, <1>5 DEF WorkerSteps
<1> QED  BY <1>6 DEF old, new

\* The parts of the measure are natural numbers.
LEMMA StepsLeftParts ==
  ASSUME TypeOK
  PROVE  /\ WorkerSteps \in Nat /\ OtherSteps \in Nat /\ EntrySteps \in Nat
         /\ StepsLeft \in Nat
<1>1. WorkerSteps \in Nat
  BY AtLeastFinite DEF WorkerSteps
<1>2. OtherSteps \in Nat
  BY DEF OtherSteps, OneIf
<1>3. EntrySteps \in Nat
  <2>1. /\ Total + 1 - nextEntry \in Nat /\ Len(relPaths) \in Nat
        /\ Len(workerChan) \in Nat
    BY TotalAssumption DEF TypeOK, ReaderType, FeederType
  <2>2. 4 * OneIf(feeder = "send") \in Nat
    BY DEF OneIf
  <2>3. 6 * (Total + 1 - nextEntry) \in Nat
    BY <2>1
  <2> QED  BY <2>1, <2>2, <2>3 DEF EntrySteps
<1> QED  BY <1>1, <1>2, <1>3 DEF StepsLeft

\* A worker's step brings it nearer to its end, and what it takes out of workerChan has
\* counted for more there.
LEMMA WorkerUsesStep ==
  ASSUME TypeOK, NEW w \in Worker, WorkerStep(w)
  PROVE  StepsLeft' < StepsLeft
<1> USE DEF mainVars, readVars, feedVars
<1>0. /\ WorkerType /\ workerChan \in Seq(Entry) /\ Len(workerChan) \in Nat
      /\ WorkerSteps \in Nat /\ EntrySteps \in Nat /\ OtherSteps \in Nat
  BY StepsLeftParts DEF TypeOK, FeederType
<1>1. UNCHANGED <<ctx, main, reader, feeder>> => OtherSteps' = OtherSteps
  BY DEF OtherSteps, RelPathsClosed
<1>2. ASSUME NEW place \in Places, worker' = [worker EXCEPT ![w] = place],
             StepsAt(place) < StepsAt(worker[w]),
             UNCHANGED <<ctx, main, reader, nextEntry, relPaths, feeder, workerChan>>
      PROVE  StepsLeft' < StepsLeft
  <2>1. WorkerSteps' = WorkerSteps - StepsAt(worker[w]) + StepsAt(place)
    BY <1>0, <1>2, WorkerMoves
  <2>2. StepsAt(place) \in Int /\ StepsAt(worker[w]) \in Int
    BY <1>0, StepsAtPlaces DEF WorkerType, Places
  <2>3. EntrySteps' = EntrySteps
    BY <1>2 DEF EntrySteps
  <2> QED  BY <1>0, <1>1, <1>2, <2>1, <2>2, <2>3 DEF StepsLeft
<1>9. CASE Take(w)
  <2>1. /\ worker' = [worker EXCEPT ![w] = "busy"] /\ worker[w] = "recv"
        /\ workerChan # <<>> /\ workerChan' = Tail(workerChan)
        /\ UNCHANGED <<ctx, main, reader, nextEntry, relPaths, feeder>>
    BY <1>9 DEF Take
  <2>2. WorkerSteps' = WorkerSteps - StepsAt("recv") + StepsAt("busy")
    <3>1. "busy" \in Places
      BY DEF Places
    <3> QED  BY <1>0, <2>1, <3>1, WorkerMoves
  <2>3. Len(workerChan') = Len(workerChan) - 1
    BY <1>0, <2>1, TailFacts
  <2>4. EntrySteps' = EntrySteps - 3
    BY <1>0, <2>1, <2>3, TotalAssumption
       DEF EntrySteps, OneIf, TypeOK, ReaderType
  <2> QED  BY <1>0, <1>1, <2>1, <2>2, <2>4, StepsAtPlaces DEF StepsLeft
<1>3. CASE Succeed(w)
  <2>1. CASE worker' = [worker EXCEPT ![w] = "report"]
    BY <1>2, <1>3, <2>1, StepsAtPlaces DEF Succeed, Places
  <2>2. CASE worker' = [worker EXCEPT ![w] = "recv"]
    BY <1>2, <1>3, <2>2, StepsAtPlaces DEF Succeed, Places
  <2> QED  BY <1>3, <2>1, <2>2 DEF Succeed
<1>4. CASE Fail(w)
  BY <1>2, <1>4, StepsAtPlaces DEF Fail, Places
<1>5. CASE SendErr(w)
  BY <1>2, <1>5, StepsAtPlaces DEF SendErr, Places
<1>6. CASE Report(w)
  BY <1>2, <1>6, StepsAtPlaces DEF Report, Places
<1>7. CASE Exit(w)
  BY <1>2, <1>7, StepsAtPlaces DEF Exit, Places
<1>8. CASE AwaitWorker(w)
  BY <1>2, <1>8, StepsAtPlaces DEF AwaitWorker, Places
<1> QED  BY <1>9, <1>3, <1>4, <1>5, <1>6, <1>7, <1>8 DEF WorkerStep

\* So does every other step.
LEMMA StepUsesStep ==
  ASSUME TypeOK, Phases, Next
  PROVE  StepsLeft' < StepsLeft
<1> USE DEF mainVars, readVars, feedVars, workVars
<1>0. /\ WorkerSteps \in Nat /\ EntrySteps \in Nat /\ OtherSteps \in Nat
      /\ main \in {"count", "open", "wait", "returned", "aborted"}
      /\ nextEntry \in 1..(Total + 1) /\ Total \in Nat
      /\ relPaths \in Seq(Entry) /\ Len(relPaths) \in Nat
      /\ workerChan \in Seq(Entry) /\ Len(workerChan) \in Nat
  BY StepsLeftParts, TotalAssumption DEF TypeOK, CallerType, ReaderType, FeederType
<1>a. WorkerSteps \in Nat /\ EntrySteps \in Nat /\ OtherSteps \in Nat
  BY <1>0
<1>d. ASSUME OtherSteps' < OtherSteps, OtherSteps' \in Nat,
             EntrySteps' <= EntrySteps, EntrySteps' \in Nat, WorkerSteps' = WorkerSteps
      PROVE  StepsLeft' < StepsLeft
  <2>1. WorkerSteps' <= WorkerSteps /\ WorkerSteps' \in Nat
    BY <1>a, <1>d
  <2>2. OtherSteps' + EntrySteps' + WorkerSteps' < OtherSteps + EntrySteps + WorkerSteps
    BY <1>a, <1>d, <2>1, SumDecreases
  <2> QED  BY <2>2 DEF StepsLeft
<1>s. EntrySteps' = EntrySteps => EntrySteps' <= EntrySteps /\ EntrySteps' \in Nat
  BY <1>a
<1>1. UNCHANGED worker => WorkerSteps' = WorkerSteps
  BY DEF WorkerSteps, AtLeast
<1>2. UNCHANGED <<nextEntry, relPaths, feeder, workerChan>> => EntrySteps' = EntrySteps
  BY DEF EntrySteps
<1>4. CASE CountBacklog
  <2>1. OtherSteps' < OtherSteps /\ OtherSteps' \in Nat
    BY <1>0, <1>4 DEF CountBacklog, OtherSteps, OneIf, RelPathsClosed
  <2>2. EntrySteps' = EntrySteps /\ WorkerSteps' = WorkerSteps
    BY <1>1, <1>2, <1>4 DEF CountBacklog
  <2> QED  BY <1>d, <1>s, <2>1, <2>2
<1>5. CASE OpenBacklog
  <2>2. /\ reader = "off" /\ feeder = "off" /\ \A w \in Worker : worker[w] = "off"
        /\ reader' = "reading" /\ feeder' = "recv"
        /\ \A w \in Worker : worker'[w] = "recv"
        /\ UNCHANGED <<ctx, nextEntry, relPaths, workerChan>>
    BY <1>5 DEF OpenBacklog, Phases
  <2>3. \A n \in {1, 2, 3, 4} : AtLeast(n)' = AtLeast(n)
    <3> SUFFICES ASSUME NEW n \in {1, 2, 3, 4}
                 PROVE  {w \in Worker : StepsAt(worker'[w]) >= n}
                          = {w \in Worker : StepsAt(worker[w]) >= n}
      BY DEF AtLeast
    <3> QED  BY <2>2, StepsAtPlaces
  <2>4. WorkerSteps' = WorkerSteps
    BY <2>3 DEF WorkerSteps
  <2>5. EntrySteps' = EntrySteps
    BY <2>2 DEF EntrySteps, OneIf
  <2>6. OtherSteps' < OtherSteps /\ OtherSteps' \in Nat
    BY <1>0, <1>5, <2>2 DEF OpenBacklog, OtherSteps, OneIf, RelPathsClosed
  <2> QED  BY <1>d, <1>s, <2>4, <2>5, <2>6
<1>6. CASE OpenFails
  <2>1. OtherSteps' < OtherSteps /\ OtherSteps' \in Nat
    BY <1>0, <1>6 DEF OpenFails, OtherSteps, OneIf, RelPathsClosed
  <2>2. EntrySteps' = EntrySteps /\ WorkerSteps' = WorkerSteps
    BY <1>1, <1>2, <1>6 DEF OpenFails
  <2> QED  BY <1>d, <1>s, <2>1, <2>2
<1>7. CASE FinalReport
  <2>1. OtherSteps' < OtherSteps /\ OtherSteps' \in Nat
    BY <1>0, <1>7 DEF FinalReport, OtherSteps, OneIf, RelPathsClosed
  <2>2. EntrySteps' = EntrySteps /\ WorkerSteps' = WorkerSteps
    BY <1>1, <1>2, <1>7 DEF FinalReport
  <2> QED  BY <1>d, <1>s, <2>1, <2>2
<1>8. CASE Cancel
  <2>1. OtherSteps' < OtherSteps /\ OtherSteps' \in Nat
    BY <1>0, <1>8 DEF Cancel, OtherSteps, OneIf, RelPathsClosed
  <2>2. EntrySteps' = EntrySteps /\ WorkerSteps' = WorkerSteps
    BY <1>1, <1>2, <1>8 DEF Cancel
  <2> QED  BY <1>d, <1>s, <2>1, <2>2
<1>9. CASE ReadEntry
  <2>1. Len(relPaths') = Len(relPaths) + 1
    BY <1>0, <1>9, AppendFacts DEF ReadEntry, Entry
  <2>2. EntrySteps' = EntrySteps - 1
    BY <1>0, <1>9, <2>1 DEF ReadEntry, EntrySteps, OneIf
  <2>3. OtherSteps' = OtherSteps
    BY <1>9 DEF ReadEntry, OtherSteps, OneIf, RelPathsClosed
  <2> QED  BY <1>0, <1>1, <1>9, <2>2, <2>3 DEF ReadEntry, StepsLeft
<1>10. CASE ReadEnd \/ ReadBreaks
  <2>1. OtherSteps' < OtherSteps /\ OtherSteps' \in Nat
    BY <1>0, <1>10 DEF ReadEnd, ReadBreaks, OtherSteps, OneIf, RelPathsClosed
  <2>2. EntrySteps' = EntrySteps /\ WorkerSteps' = WorkerSteps
    BY <1>1, <1>2, <1>10 DEF ReadEnd, ReadBreaks
  <2> QED  BY <1>d, <1>s, <2>1, <2>2
<1>11. CASE FeederRecv
  <2>1. Len(relPaths') = Len(relPaths) - 1
    BY <1>0, <1>11, TailFacts DEF FeederRecv
  <2>2. EntrySteps' = EntrySteps - 1
    BY <1>0, <1>11, <2>1 DEF FeederRecv, EntrySteps, OneIf
  <2>3. OtherSteps' = OtherSteps
    BY <1>11 DEF FeederRecv, OtherSteps, OneIf, RelPathsClosed
  <2> QED  BY <1>0, <1>1, <1>11, <2>2, <2>3 DEF FeederRecv, StepsLeft
<1>12. CASE FeederSend
  <2>1. Len(workerChan') = Len(workerChan) + 1
    BY <1>0, <1>12, AppendFacts DEF FeederSend, TypeOK, FeederType
  <2>2. EntrySteps' = EntrySteps - 1
    BY <1>0, <1>12, <2>1 DEF FeederSend, EntrySteps, OneIf
  <2>3. OtherSteps' = OtherSteps
    BY <1>12 DEF FeederSend, OtherSteps, OneIf, RelPathsClosed
  <2> QED  BY <1>0, <1>1, <1>12, <2>2, <2>3 DEF FeederSend, StepsLeft
<1>13. CASE FeederEnd
  <2>1. EntrySteps' <= EntrySteps /\ EntrySteps' \in Nat
    BY <1>0, <1>13 DEF FeederEnd, EntrySteps, OneIf
  <2>2. OtherSteps' < OtherSteps /\ OtherSteps' \in Nat
    BY <1>0, <1>13 DEF FeederEnd, OtherSteps, OneIf, RelPathsClosed
  <2>3. WorkerSteps' = WorkerSteps
    BY <1>1, <1>13 DEF FeederEnd
  <2> QED  BY <1>d, <1>s, <2>1, <2>2, <2>3
<1> QED
  BY <1>4, <1>5, <1>6, <1>7, <1>8, <1>9, <1>10, <1>11, <1>12, <1>13, WorkerUsesStep
  DEF Next, MainStep, ReaderStep, FeederStep

\* A call of ProcessFiles takes a bounded number of steps, whatever its goroutines do
\* and whether or not it is cancelled.
THEOREM StepsRunOutAlways == Spec => StepsRunOut
<1> DEFINE Natural == StepsLeft \in Nat
<1>1. IInv => Natural
  BY StepsLeftParts DEF IInv
<1>2. IInv /\ Natural /\ Natural' /\ [Next]_vars
        => [StepsLeft' < StepsLeft /\ {StepsLeft, StepsLeft'} \subseteq Nat]_vars
  <2> SUFFICES ASSUME IInv, Natural, Natural', Next
               PROVE  StepsLeft' < StepsLeft /\ {StepsLeft, StepsLeft'} \subseteq Nat
    OBVIOUS
  <2> QED  BY StepUsesStep DEF IInv
<1> QED  BY <1>1, <1>2, InvariantHolds, PTL DEF Spec, StepsRunOut

-----------------------------------------------------------------------------
(* Who waits for whom *)

\* Every worker waits: on a full errChan, for an entry, or no more.
LEMMA StuckWorkers ==
  ASSUME IInv, Stuck, main = "wait", NEW w \in Worker
  PROVE  \/ worker[w] = "errSend" /\ errCount >= Concurrency
         \/ worker[w] = "recv" /\ workerChan = <<>> /\ feeder # "done"
         \/ worker[w] = "gone"
<1>1. ~WorkerCan(w) /\ worker[w] \in Places
  BY DEF Stuck, IInv, TypeOK, WorkerType, Places
<1>2. worker[w] # "off"
  BY DEF IInv, Phases
<1>3. CASE worker[w] = "exit"
  <2>1. doneCount = Cardinality(At("gone")) /\ w \notin At("gone")
    BY <1>3 DEF IInv, Counts, At
  <2>2. At("gone") \subseteq Worker \ {w}
    BY <2>1 DEF At
  <2>3. IsFiniteSet(Worker \ {w}) /\ Cardinality(Worker \ {w}) = Concurrency - 1
    BY WorkerAssumption, FS_RemoveElement DEF Concurrency
  <2>4. Cardinality(At("gone")) <= Concurrency - 1
    BY <2>2, <2>3, FS_Subset
  <2>5. doneCount < Concurrency
    BY <2>1, <2>4, ConcurrencyType DEF IInv, TypeOK, CallerType
  <2> QED  BY <1>1, <1>3, <2>5 DEF WorkerCan
<1>4. CASE worker[w] = "errSend"
  <2>1. ~(errCount < Concurrency) /\ errCount \in Nat
    BY <1>1, <1>4, ConcurrencyType DEF WorkerCan, IInv, TypeOK, ResultType
  <2> QED  BY <1>4, <2>1, ConcurrencyType
<1>5. CASE worker[w] = "recv"
  BY <1>1, <1>5 DEF WorkerCan, WorkerChanClosed
<1> QED  BY <1>1, <1>2, <1>3, <1>4, <1>5 DEF Places, WorkerCan

\* While the caller waits, it is for a worker that waits on a full errChan.
LEMMA StuckOnErrChan ==
  ASSUME IInv, Stuck, main = "wait"
  PROVE  \E w \in Worker : worker[w] = "errSend" /\ errCount >= Concurrency
<1> SUFFICES ASSUME \A w \in Worker : worker[w] # "errSend"
             PROVE  FALSE
  BY StuckWorkers, WorkerAssumption
<1>1. CASE \E w \in Worker : worker[w] = "gone"
  \* One worker has seen workerChan closed, and so have all.
  <2>1. feeder = "done"
    BY <1>1 DEF IInv, Jobs
  <2>2. \A w \in Worker : worker[w] = "gone"
    BY <2>1, StuckWorkers
  <2>3. At("gone") = Worker
    BY <2>2 DEF At
  <2>4. doneCount = Concurrency
    BY <2>3 DEF IInv, Counts, Concurrency
  <2> QED  BY <2>4 DEF Stuck, CallerCan, AllSignalled
<1>2. CASE \A w \in Worker : worker[w] # "gone"
  \* All wait for the feeder, the feeder for the reader, and the reader for nobody.
  <2>1. workerChan = <<>> /\ feeder # "done"
    BY <1>2, StuckWorkers, WorkerAssumption
  <2>2. feeder # "off" /\ reader # "off"
    BY DEF IInv, Phases
  <2>3. feeder # "send"
    <3>1. Len(workerChan) = 0 /\ WorkerBuffer > 0
      BY <2>1, ConcurrencyType DEF WorkerBuffer
    <3> QED  BY <3>1 DEF Stuck, FeederCan
  <2>4. feeder = "recv"
    BY <2>1, <2>2, <2>3 DEF IInv, TypeOK, FeederType
  <2>5. relPaths = <<>> /\ ~RelPathsClosed
    BY <2>4 DEF Stuck, FeederCan
  <2>6. reader = "reading"
    BY <2>2, <2>5 DEF IInv, TypeOK, ReaderType, RelPathsClosed
  <2>7. Len(relPaths) < ReadBuffer
    BY <2>5, BufferAssumption
  <2> QED  BY <2>6, <2>7 DEF Stuck, ReaderCan
<1> QED  BY <1>1, <1>2

\* The goroutines of ProcessFiles wait for each other in a circle only when more files
\* have failed than there are workers; in every other state in which nobody can go on
\* the call is over and its reader gone.
THEOREM StuckOnlyOnErrorsAlways == Spec => []StuckOnlyOnErrors
<1>1. IInv => StuckOnlyOnErrors
  <2> SUFFICES ASSUME IInv, Stuck,
                      ~(Ended /\ (main = "returned" => RelPathsClosed))
               PROVE  Cardinality(Outcomes("failed")) > Concurrency
    BY DEF StuckOnlyOnErrors
  <2>1. CASE main = "wait"
    <3>1. PICK w \in Worker : worker[w] = "errSend" /\ errCount >= Concurrency
      BY <2>1, StuckOnErrChan
    <3>2. Cardinality(At("errSend")) \in Nat /\ Cardinality(At("errSend")) > 0
      <4>1. IsFiniteSet(At("errSend")) /\ w \in At("errSend")
        BY <3>1, WorkerAssumption, FS_Subset DEF At
      <4> QED  BY <4>1, FS_EmptySet, FS_CardinalityType
    <3>3. errCount \in Nat /\ errCount + Cardinality(At("errSend")) = Cardinality(Outcomes("failed"))
      BY ConcurrencyType DEF IInv, Counts, TypeOK, ResultType
    <3> QED  BY <3>1, <3>2, <3>3, ConcurrencyType
  <2>2. CASE main = "returned"
    <3>1. ~RelPathsClosed /\ reader # "off" /\ reader = "reading"
      BY <2>2 DEF Ended, IInv, Phases, TypeOK, ReaderType, RelPathsClosed
    <3>2. feeder = "done"
      BY <2>2, WorkerAssumption DEF IInv, Phases, Jobs
    <3>3. ctx = "done"
      BY <3>1, <3>2 DEF IInv, Order, TypeOK, CallerType
    <3> QED  BY <3>1, <3>3 DEF Stuck, ReaderCan
  <2>3. CASE main \in {"count", "open"}
    BY <2>3 DEF Stuck, CallerCan
  <2>4. main # "aborted"
    BY DEF Ended
  <2> QED  BY <2>1, <2>2, <2>3, <2>4 DEF IInv, TypeOK, CallerType
<1> QED  BY <1>1, InvariantHolds, PTL
=============================================================================
