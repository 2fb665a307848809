-------------------------- MODULE WorkerPoolProofs --------------------------
(***************************************************************************)
(* Proofs about WorkerPool: for every number of workers, every backlog     *)
(* length and every buffer size.                                           *)
(***************************************************************************)
EXTENDS WorkerPoolInv, FiniteSetTheorems, TLAPS

\* The number of workers is a positive natural number.
LEMMA ConcurrencyType ==
  /\ Concurrency \in Nat /\ Concurrency > 0
  /\ WorkerBuffer \in Nat /\ ErrBuffer = Concurrency
BY WorkerAssumption, FS_CardinalityType, FS_EmptySet
DEF Concurrency, WorkerBuffer, ErrBuffer

\* Removing the first element of a sequence.
LEMMA TailFacts ==
  ASSUME NEW S, NEW s \in Seq(S), s # <<>>
  PROVE  /\ Head(s) \in S /\ Head(s) = s[1]
         /\ Tail(s) \in Seq(S) /\ Len(Tail(s)) = Len(s) - 1
         /\ Len(s) \in Nat /\ Len(s) > 0
         /\ \A i \in 1..(Len(s) - 1) : Tail(s)[i] = s[i + 1]
OBVIOUS

\* Adding a last element to a sequence.
LEMMA AppendFacts ==
  ASSUME NEW S, NEW s \in Seq(S), NEW e \in S
  PROVE  /\ Append(s, e) \in Seq(S) /\ Len(Append(s, e)) = Len(s) + 1
         /\ Len(s) \in Nat
         /\ \A i \in 1..Len(s) : Append(s, e)[i] = s[i]
         /\ Append(s, e)[Len(s) + 1] = e
OBVIOUS

-----------------------------------------------------------------------------
(* Types *)

LEMMA InitType == Init => TypeOK
<1> SUFFICES ASSUME Init PROVE TypeOK
  OBVIOUS
<1> USE ConcurrencyType, TotalAssumption, BufferAssumption
<1>1. CallerType  BY DEF Init, CallerType
<1>2. ReaderType  BY DEF Init, ReaderType
<1>3. FeederType  BY DEF Init, FeederType
<1>4. WorkerType  BY DEF Init, WorkerType
<1>5. ResultType  BY DEF Init, ResultType
<1> QED  BY <1>1, <1>2, <1>3, <1>4, <1>5 DEF TypeOK

\* One step per action, and under it one per group of variables it changes.
LEMMA StepType == TypeOK /\ [Next]_vars => TypeOK'
<1> SUFFICES ASSUME TypeOK, [Next]_vars PROVE TypeOK'
  OBVIOUS
<1> USE ConcurrencyType DEF mainVars, readVars, feedVars, workVars
<1>0. CallerType /\ ReaderType /\ FeederType /\ WorkerType /\ ResultType
  BY DEF TypeOK
<1>1. CASE CountBacklog
  <2>1. CallerType'  BY <1>0, <1>1 DEF CountBacklog, CallerType
  <2> QED  BY <1>0, <1>1, <2>1 DEF CountBacklog, TypeOK, ReaderType, FeederType, WorkerType, ResultType
<1>2. CASE OpenBacklog
  <2>1. CallerType'  BY <1>0, <1>2 DEF OpenBacklog, CallerType
  <2>2. ReaderType'  BY <1>0, <1>2 DEF OpenBacklog, ReaderType
  <2>3. FeederType'  BY <1>0, <1>2 DEF OpenBacklog, FeederType
  <2>4. WorkerType'  BY <1>0, <1>2 DEF OpenBacklog, WorkerType
  <2> QED  BY <1>0, <1>2, <2>1, <2>2, <2>3, <2>4 DEF OpenBacklog, TypeOK, ResultType
<1>3. CASE OpenFails
  <2>1. CallerType'  BY <1>0, <1>3 DEF OpenFails, CallerType
  <2> QED  BY <1>0, <1>3, <2>1 DEF OpenFails, TypeOK, ReaderType, FeederType, WorkerType, ResultType
<1>4. CASE FinalReport
  <2>1. CallerType'  BY <1>0, <1>4 DEF FinalReport, CallerType
  <2>2. ResultType'  BY <1>0, <1>4, AppendFacts DEF FinalReport, ResultType
  <2> QED  BY <1>0, <1>4, <2>1, <2>2 DEF FinalReport, TypeOK, ReaderType, FeederType, WorkerType
<1>5. CASE Cancel
  <2>1. CallerType'  BY <1>0, <1>5 DEF Cancel, CallerType
  <2> QED  BY <1>0, <1>5, <2>1 DEF Cancel, TypeOK, ReaderType, FeederType, WorkerType, ResultType
<1>6. CASE ReadEntry
  <2>0. nextEntry \in Entry  BY <1>0, <1>6 DEF ReadEntry, ReaderType, Entry
  <2>1. ReaderType'
    <3>1. relPaths' \in Seq(Entry)
      BY <1>0, <1>6, <2>0 DEF ReadEntry, ReaderType
    <3>2. Len(relPaths') <= ReadBuffer
      BY <1>0, <1>6, <2>0, BufferAssumption DEF ReadEntry, ReaderType
    <3>3. nextEntry' \in 1..(Total + 1) /\ reader' = reader
      BY <1>0, <1>6, TotalAssumption DEF ReadEntry, ReaderType
    <3> QED  BY <1>0, <3>1, <3>2, <3>3 DEF ReaderType
  <2> QED  BY <1>0, <1>6, <2>1 DEF ReadEntry, TypeOK, CallerType, FeederType, WorkerType, ResultType
<1>7. CASE ReadEnd
  <2>1. ReaderType'  BY <1>0, <1>7 DEF ReadEnd, ReaderType
  <2> QED  BY <1>0, <1>7, <2>1 DEF ReadEnd, TypeOK, CallerType, FeederType, WorkerType, ResultType
<1>8. CASE ReadBreaks
  <2>1. ReaderType'  BY <1>0, <1>8 DEF ReadBreaks, ReaderType
  <2> QED  BY <1>0, <1>8, <2>1 DEF ReadBreaks, TypeOK, CallerType, FeederType, WorkerType, ResultType
<1>9. CASE FeederRecv
  <2>1. ReaderType'
    <3>1. relPaths' \in Seq(Entry)
      BY <1>0, <1>9 DEF FeederRecv, ReaderType
    <3>2. Len(relPaths') <= ReadBuffer
      BY <1>0, <1>9, BufferAssumption DEF FeederRecv, ReaderType
    <3>3. UNCHANGED <<reader, nextEntry>>
      BY <1>9 DEF FeederRecv
    <3> QED  BY <1>0, <3>1, <3>2, <3>3 DEF ReaderType
  <2>2. FeederType'  BY <1>0, <1>9 DEF FeederRecv, ReaderType, FeederType
  <2> QED  BY <1>0, <1>9, <2>1, <2>2 DEF FeederRecv, TypeOK, CallerType, WorkerType, ResultType
<1>10. CASE FeederSend
  <2>1. FeederType'  BY <1>0, <1>10, AppendFacts DEF FeederSend, FeederType
  <2> QED  BY <1>0, <1>10, <2>1 DEF FeederSend, TypeOK, CallerType, ReaderType, WorkerType, ResultType
<1>11. CASE FeederEnd
  <2>1. FeederType'  BY <1>0, <1>11 DEF FeederEnd, FeederType
  <2> QED  BY <1>0, <1>11, <2>1 DEF FeederEnd, TypeOK, CallerType, ReaderType, WorkerType, ResultType
<1>12. ASSUME NEW w \in Worker, WorkerStep(w) PROVE TypeOK'
  <2>1. CASE Take(w)
    <3>1. FeederType'
      <4>1. workerChan' \in Seq(Entry)
        BY <1>0, <2>1 DEF Take, FeederType
      <4>2. Len(workerChan') <= WorkerBuffer
        BY <1>0, <2>1 DEF Take, FeederType
      <4>3. taken' \in Nat /\ UNCHANGED <<feeder, hand>>
        BY <1>0, <2>1 DEF Take, FeederType
      <4> QED  BY <1>0, <4>1, <4>2, <4>3 DEF FeederType
    <3>2. WorkerType'  BY <1>0, <2>1 DEF Take, FeederType, WorkerType
    <3> QED  BY <1>0, <2>1, <3>1, <3>2 DEF Take, TypeOK, CallerType, ReaderType, ResultType
  <2>2. CASE Succeed(w)
    <3>1. WorkerType'
      <4>1. worker' \in [Worker ->
               {"off", "recv", "busy", "errSend", "report", "exit", "gone"}]
        BY <1>0, <2>2 DEF Succeed, WorkerType
      <4>2. job' \in [Worker -> Entry \union {NoEntry}]
        BY <1>0, <2>2 DEF Succeed, WorkerType
      <4>3. current' \in [Worker -> Nat]
        BY <1>0, <2>2 DEF Succeed, WorkerType, ResultType
      <4> QED  BY <4>1, <4>2, <4>3 DEF WorkerType
    <3>2. ResultType'
      <4>1. fate' \in [Entry -> {"todo", "ok", "failed"}]
        BY <1>0, <2>2 DEF Succeed, ResultType
      <4>2. processed' \in Nat
        BY <1>0, <2>2 DEF Succeed, ResultType
      <4>3. UNCHANGED <<errCount, reports>>
        BY <2>2 DEF Succeed
      <4> QED  BY <1>0, <4>1, <4>2, <4>3 DEF ResultType
    <3> QED  BY <1>0, <2>2, <3>1, <3>2 DEF Succeed, TypeOK, CallerType, ReaderType, FeederType
  <2>3. CASE Fail(w)
    <3>1. WorkerType'  BY <1>0, <2>3 DEF Fail, WorkerType
    <3>2. ResultType'  BY <1>0, <2>3 DEF Fail, ResultType
    <3> QED  BY <1>0, <2>3, <3>1, <3>2 DEF Fail, TypeOK, CallerType, ReaderType, FeederType
  <2>4. CASE SendErr(w)
    <3>1. WorkerType'  BY <1>0, <2>4 DEF SendErr, ErrBuffer, WorkerType
    <3>2. ResultType'  BY <1>0, <2>4 DEF SendErr, ErrBuffer, ResultType
    <3> QED  BY <1>0, <2>4, <3>1, <3>2 DEF SendErr, TypeOK, CallerType, ReaderType, FeederType
  <2>5. CASE Report(w)
    <3>1. WorkerType'  BY <1>0, <2>5 DEF Report, WorkerType
    <3>2. ResultType'  BY <1>0, <2>5, AppendFacts DEF Report, WorkerType, ResultType
    <3> QED  BY <1>0, <2>5, <3>1, <3>2 DEF Report, TypeOK, CallerType, ReaderType, FeederType
  <2>6. CASE Exit(w)
    <3>1. WorkerType'  BY <1>0, <2>6 DEF Exit, WorkerType
    <3> QED  BY <1>0, <2>6, <3>1 DEF Exit, TypeOK, CallerType, ReaderType, FeederType, ResultType
  <2>7. CASE AwaitWorker(w)
    <3>1. CallerType'  BY <1>0, <2>7 DEF AwaitWorker, CallerType
    <3>2. WorkerType'  BY <1>0, <2>7 DEF AwaitWorker, WorkerType
    <3> QED  BY <1>0, <2>7, <3>1, <3>2 DEF AwaitWorker, TypeOK, ReaderType, FeederType, ResultType
  <2> QED  BY <1>12, <2>1, <2>2, <2>3, <2>4, <2>5, <2>6, <2>7 DEF WorkerStep
<1>13. CASE UNCHANGED vars
  BY <1>0, <1>13 DEF vars, TypeOK, CallerType, ReaderType, FeederType, WorkerType,
                     ResultType
<1> QED  BY <1>1, <1>2, <1>3, <1>4, <1>5, <1>6, <1>7, <1>8, <1>9, <1>10, <1>11, <1>12, <1>13
         DEF Next, MainStep, ReaderStep, FeederStep

\* Every variable keeps its type, whatever the goroutines of
\* processWithConcurrency do; no channel holds more than its capacity.
THEOREM TypeCorrect == Spec => []TypeOK
BY InitType, StepType, PTL DEF Spec

-----------------------------------------------------------------------------
(* The inductive invariant *)

LEMMA InitInv == Init => IInv
<1> SUFFICES ASSUME Init PROVE IInv
  OBVIOUS
<1>1. TypeOK
  BY InitType
<1>2. Phases
  BY DEF Init, Phases
<1>3. Order
  <2>1. Len(relPaths) = 0 /\ Len(workerChan) = 0 /\ nextEntry = 1 /\ taken = 0
    BY DEF Init
  <2>2. Fed = 0
    BY <2>1 DEF Fed
  <2>3. feeder = "off" /\ reader = "off"
    BY DEF Init
  <2> QED  BY <2>1, <2>2, <2>3 DEF Order
<1>4. Jobs
  BY TotalAssumption DEF Init, Jobs, Entry
<1>5. Counts
  <2>1. At("gone") = {} /\ At("errSend") = {}
    BY DEF Init, At
  <2>2. Outcomes("ok") = {} /\ Outcomes("failed") = {}
    BY DEF Init, Outcomes
  <2>3. doneCount = 0 /\ errCount = 0 /\ processed = 0
    BY DEF Init
  <2>4. /\ Cardinality(At("gone")) = 0 /\ Cardinality(At("errSend")) = 0
        /\ Cardinality(Outcomes("ok")) = 0 /\ Cardinality(Outcomes("failed")) = 0
    BY <2>1, <2>2, FS_EmptySet
  <2> QED  BY <2>3, <2>4 DEF Counts
<1>6. Reporting
  BY DEF Init, Reporting
<1>7. Milestones
  BY DEF Init, Milestones, Reported
<1> QED  BY <1>1, <1>2, <1>3, <1>4, <1>5, <1>6, <1>7 DEF IInv

\* A goroutine that has been started and has not signalled is waited for.
LEMMA WorkersRunInWait ==
  ASSUME IInv, NEW w \in Worker, worker[w] \notin {"off", "gone"}
  PROVE  main = "wait"
BY DEF IInv, TypeOK, CallerType, Phases

LEMMA PhasesStep == IInv /\ [Next]_vars => Phases'
<1> SUFFICES ASSUME IInv, [Next]_vars PROVE Phases'
  OBVIOUS
<1> USE DEF mainVars, readVars, feedVars, workVars
<1>0. TypeOK /\ Phases /\ Jobs /\ Counts
  BY DEF IInv
<1>1. CASE CountBacklog
  BY <1>0, <1>1 DEF CountBacklog, Phases
<1>2. CASE OpenBacklog
  BY <1>0, <1>2 DEF OpenBacklog, Phases
<1>3. CASE OpenFails
  BY <1>0, <1>3 DEF OpenFails, Phases
<1>4. CASE FinalReport
  <2>1. At("gone") = Worker
    <3>1. At("gone") \in SUBSET Worker
      BY DEF At
    <3>2. Cardinality(At("gone")) = Cardinality(Worker)
      BY <1>0, <1>4 DEF FinalReport, AllSignalled, Counts, Concurrency
    <3> QED  BY <3>1, <3>2, FS_Subset, WorkerAssumption
  <2>2. \A w \in Worker : worker[w] = "gone"
    BY <2>1 DEF At
  <2> QED  BY <1>0, <1>4, <2>2 DEF FinalReport, Phases
<1>5. CASE Cancel
  BY <1>0, <1>5 DEF Cancel, Phases
<1>6. CASE ReaderStep
  BY <1>0, <1>6 DEF ReaderStep, ReadEntry, ReadEnd, ReadBreaks, Phases
<1>7. CASE FeederStep
  BY <1>0, <1>7 DEF FeederStep, FeederRecv, FeederSend, FeederEnd, Phases
<1>8. ASSUME NEW w \in Worker, WorkerStep(w) PROVE Phases'
  <2>1. worker[w] \notin {"off", "gone"} /\ UNCHANGED <<main, reader>>
    BY <1>8 DEF WorkerStep, Take, Succeed, Fail, SendErr, Report, Exit, AwaitWorker
  <2>2. main = "wait"
    BY <2>1, WorkersRunInWait
  <2>3. UNCHANGED feeder
    BY <1>8 DEF WorkerStep, Take, Succeed, Fail, SendErr, Report, Exit, AwaitWorker
  <2>4. \A v \in Worker : worker'[v] # "off"
    BY <1>0, <1>8, <2>2
       DEF WorkerStep, Take, Succeed, Fail, SendErr, Report, Exit, AwaitWorker,
           Phases, TypeOK, WorkerType
  <2> QED  BY <1>0, <2>1, <2>2, <2>3, <2>4 DEF Phases
<1>9. CASE UNCHANGED vars
  BY <1>0, <1>9 DEF vars, Phases
<1> QED  BY <1>1, <1>2, <1>3, <1>4, <1>5, <1>6, <1>7, <1>8, <1>9
         DEF Next, MainStep

LEMMA OrderStep == IInv /\ [Next]_vars => Order'
<1> SUFFICES ASSUME IInv, [Next]_vars PROVE Order'
  OBVIOUS
<1> USE TotalAssumption DEF mainVars, readVars, feedVars, workVars
<1>0. TypeOK /\ Phases /\ Order
  BY DEF IInv
<1>t. /\ nextEntry \in Nat /\ taken \in Nat
      /\ relPaths \in Seq(Entry) /\ Len(relPaths) \in Nat
      /\ workerChan \in Seq(Entry) /\ Len(workerChan) \in Nat
  BY <1>0 DEF TypeOK, ReaderType, FeederType
<1>1. ASSUME UNCHANGED <<ctx, readVars, relPaths, feedVars, workerChan, taken>>
      PROVE  Order'
  BY <1>0, <1>1 DEF Order, Fed, RelPathsClosed
<1>2. CASE OpenBacklog
  BY <1>0, <1>2 DEF OpenBacklog, Order, Fed, Phases
<1>3. CASE Cancel
  BY <1>0, <1>3 DEF Cancel, Order, Fed
<1>4. CASE ReadEntry
  <2>1. /\ relPaths' = Append(relPaths, nextEntry) /\ nextEntry' = nextEntry + 1
        /\ reader = "reading" /\ nextEntry \in Entry
    BY <1>0, <1>4 DEF ReadEntry, TypeOK, ReaderType, Entry
  <2>2. Len(relPaths') = Len(relPaths) + 1
    BY <1>t, <2>1
  <2>3. Fed' = Fed
    BY <1>t, <2>1, <2>2 DEF Fed
  <2>4. \A i \in 1..Len(relPaths') : relPaths'[i] = Fed' + i
    <3> SUFFICES ASSUME NEW i \in 1..Len(relPaths') PROVE relPaths'[i] = Fed + i
      BY <2>3
    <3>1. CASE i <= Len(relPaths)
      <4>1. i \in 1..Len(relPaths) /\ relPaths'[i] = relPaths[i]
        BY <1>t, <2>1, <3>1, AppendFacts
      <4> QED  BY <1>0, <4>1 DEF Order
    <3>2. CASE i = Len(relPaths) + 1
      BY <1>t, <2>1, <3>2 DEF Fed
    <3> QED  BY <1>t, <2>2, <3>1, <3>2
  <2>5. feeder # "done" \/ ctx # "live"
    BY <1>0, <2>1 DEF Order, RelPathsClosed
  <2> QED  BY <1>0, <1>4, <2>1, <2>3, <2>4, <2>5 DEF ReadEntry, Order
<1>5. CASE ReadEnd
  <2>1. UNCHANGED <<ctx, nextEntry, relPaths, feedVars, workerChan, taken>> /\ reader' = "done"
    BY <1>5 DEF ReadEnd
  <2>2. ctx = "live" => nextEntry = Total + 1
    BY <1>0, <1>5 DEF ReadEnd, TypeOK, ReaderType, CallerType
  <2> QED  BY <1>0, <2>1, <2>2 DEF Order, Fed, RelPathsClosed
<1>6. CASE ReadBreaks
  BY <1>0, <1>6 DEF ReadBreaks, Order, Fed, RelPathsClosed
<1>7. CASE FeederRecv
  <2>1. /\ relPaths # <<>> /\ hand' = Head(relPaths) /\ relPaths' = Tail(relPaths)
        /\ feeder = "recv" /\ feeder' = "send"
        /\ UNCHANGED <<ctx, reader, nextEntry, workerChan, taken>>
    BY <1>7 DEF FeederRecv
  <2>2. Len(relPaths') = Len(relPaths) - 1 /\ Len(relPaths) > 0
    BY <1>t, <2>1
  <2>3. Fed' = Fed + 1
    BY <1>t, <2>1, <2>2 DEF Fed
  <2>4. hand' = Fed'
    <3>1. hand' = relPaths[1] /\ 1 \in 1..Len(relPaths)
      BY <1>t, <2>1, <2>2
    <3> QED  BY <1>0, <2>3, <3>1 DEF Order
  <2>5. \A i \in 1..Len(relPaths') : relPaths'[i] = Fed' + i
    <3> SUFFICES ASSUME NEW i \in 1..Len(relPaths') PROVE relPaths'[i] = Fed + 1 + i
      BY <2>3
    <3>1. i + 1 \in 1..Len(relPaths) /\ relPaths'[i] = relPaths[i + 1]
      BY <1>t, <2>1, <2>2, TailFacts
    <3>2. Fed \in Int
      BY <1>t DEF Fed
    <3> QED  BY <1>0, <3>1, <3>2 DEF Order
  <2>6. taken + Len(workerChan) = Fed /\ Fed \in Int
    BY <1>0, <1>t, <2>1 DEF Order, Fed
  <2>7. reader' = "done" /\ ctx' = "live" => nextEntry' = Total + 1
    BY <1>0, <2>1 DEF Order
  <2>8. \A i \in 1..Len(workerChan') : workerChan'[i] = taken' + i
    BY <1>0, <2>1 DEF Order
  <2> QED  BY <1>t, <2>1, <2>3, <2>4, <2>5, <2>6, <2>7, <2>8 DEF Order
<1>8. CASE FeederSend
  <2>1. /\ workerChan' = Append(workerChan, hand)
        /\ feeder = "send" /\ feeder' = "recv"
        /\ UNCHANGED <<ctx, reader, nextEntry, relPaths, taken>>
    BY <1>8 DEF FeederSend
  <2>2. hand \in Entry
    BY <1>0, <2>1 DEF TypeOK, FeederType
  <2>3. Len(workerChan') = Len(workerChan) + 1
    BY <1>t, <2>1
  <2>4. Fed' = Fed /\ Fed \in Int
    BY <1>t, <2>1 DEF Fed
  <2>5. hand = Fed /\ taken + Len(workerChan) = Fed - 1
    BY <1>0, <2>1 DEF Order
  <2>6. \A i \in 1..Len(workerChan') : workerChan'[i] = taken' + i
    <3> SUFFICES ASSUME NEW i \in 1..Len(workerChan')
                 PROVE  workerChan'[i] = taken + i
      BY <2>1
    <3>1. CASE i <= Len(workerChan)
      <4>1. i \in 1..Len(workerChan) /\ workerChan'[i] = workerChan[i]
        BY <1>t, <2>1, <2>2, <3>1, AppendFacts
      <4> QED  BY <1>0, <4>1 DEF Order
    <3>2. CASE i = Len(workerChan) + 1
      BY <1>t, <2>1, <2>2, <2>4, <2>5, <3>2
    <3> QED  BY <1>t, <2>3, <3>1, <3>2
  <2>7. \A i \in 1..Len(relPaths') : relPaths'[i] = Fed' + i
    BY <1>0, <2>1, <2>4 DEF Order
  <2>8. reader' = "done" /\ ctx' = "live" => nextEntry' = Total + 1
    BY <1>0, <2>1 DEF Order
  <2>9. taken' + Len(workerChan') = Fed'
    BY <1>t, <2>1, <2>3, <2>4, <2>5
  <2> QED  BY <1>t, <2>1, <2>4, <2>6, <2>7, <2>8, <2>9 DEF Order
<1>9. CASE FeederEnd
  <2>1. /\ feeder' = "done"
        /\ UNCHANGED <<ctx, reader, nextEntry, relPaths, workerChan, taken>>
        /\ \/ feeder = "recv" /\ relPaths = <<>> /\ RelPathsClosed
           \/ ctx = "done"
    BY <1>9 DEF FeederEnd
  <2> QED  BY <1>0, <2>1 DEF Order, Fed, RelPathsClosed
<1>10. ASSUME NEW w \in Worker, Take(w) PROVE Order'
  <2>1. /\ workerChan # <<>> /\ workerChan' = Tail(workerChan)
        /\ taken' = taken + 1
        /\ UNCHANGED <<ctx, reader, nextEntry, relPaths, feeder, hand>>
    BY <1>10 DEF Take
  <2>2. Len(workerChan') = Len(workerChan) - 1 /\ Len(workerChan) > 0
    BY <1>t, <2>1
  <2>3. taken' + Len(workerChan') = taken + Len(workerChan)
    BY <1>t, <2>1, <2>2
  <2>4. \A i \in 1..Len(workerChan') : workerChan'[i] = taken' + i
    <3> SUFFICES ASSUME NEW i \in 1..Len(workerChan')
                 PROVE  workerChan'[i] = taken + 1 + i
      BY <2>1
    <3>1. i + 1 \in 1..Len(workerChan) /\ workerChan'[i] = workerChan[i + 1]
      BY <1>t, <2>1, <2>2, TailFacts
    <3> QED  BY <1>0, <1>t, <3>1 DEF Order
  <2> QED  BY <1>0, <2>1, <2>3, <2>4 DEF Order, Fed, RelPathsClosed
<1>11. ASSUME NEW w \in Worker, WorkerStep(w), ~Take(w) PROVE Order'
  <2>1. UNCHANGED <<ctx, readVars, relPaths, feedVars, workerChan, taken>>
    BY <1>11 DEF WorkerStep, Succeed, Fail, SendErr, Report, Exit, AwaitWorker
  <2> QED  BY <1>1, <2>1
<1>12. CASE CountBacklog \/ OpenFails \/ FinalReport \/ UNCHANGED vars
  <2>1. UNCHANGED <<ctx, readVars, relPaths, feedVars, workerChan, taken>>
    BY <1>12 DEF CountBacklog, OpenFails, FinalReport, vars
  <2> QED  BY <1>1, <2>1
<1> QED  BY <1>2, <1>3, <1>4, <1>5, <1>6, <1>7, <1>8, <1>9, <1>10, <1>11, <1>12
         DEF Next, MainStep, ReaderStep, FeederStep

LEMMA JobsStep == IInv /\ [Next]_vars => Jobs'
<1> SUFFICES ASSUME IInv, [Next]_vars PROVE Jobs'
  OBVIOUS
<1> USE DEF mainVars, readVars, feedVars, workVars
<1>0. TypeOK /\ Phases /\ Order /\ Jobs
  BY DEF IInv
<1>t. /\ taken \in Nat /\ Entry \subseteq Nat
      /\ worker \in [Worker ->
           {"off", "recv", "busy", "errSend", "report", "exit", "gone"}]
      /\ job \in [Worker -> Entry \union {NoEntry}]
      /\ fate \in [Entry -> {"todo", "ok", "failed"}]
      /\ workerChan \in Seq(Entry)
  BY <1>0 DEF TypeOK, FeederType, WorkerType, ResultType, Entry
<1>1. ASSUME UNCHANGED <<feeder, workerChan, taken, worker, job, fate>> PROVE Jobs'
  BY <1>0, <1>1 DEF Jobs
<1>2. CASE OpenBacklog
  <2>1. /\ \A w \in Worker : worker[w] = "off" /\ worker'[w] = "recv"
        /\ UNCHANGED <<taken, job, fate>>
    BY <1>0, <1>2 DEF OpenBacklog, Phases
  <2> QED  BY <1>0, <2>1 DEF Jobs
<1>3. CASE FeederStep
  <2>1. UNCHANGED <<taken, worker, job, fate>> /\ feeder # "done"
    BY <1>3 DEF FeederStep, FeederRecv, FeederSend, FeederEnd
  <2> QED  BY <1>0, <2>1 DEF Jobs
<1>4. ASSUME NEW w \in Worker, Take(w) PROVE Jobs'
  <2>1. /\ worker[w] = "recv" /\ worker' = [worker EXCEPT ![w] = "busy"]
        /\ job' = [job EXCEPT ![w] = Head(workerChan)]
        /\ workerChan # <<>> /\ taken' = taken + 1
        /\ UNCHANGED <<feeder, fate>>
    BY <1>4 DEF Take
  <2>2. Head(workerChan) \in Entry /\ Head(workerChan) = taken + 1
    <3>1. 1 \in 1..Len(workerChan) /\ Head(workerChan) = workerChan[1]
          /\ Head(workerChan) \in Entry
      BY <1>t, <2>1
    <3> QED  BY <1>0, <3>1 DEF Order
  <2>3. fate[taken + 1] = "todo"
    BY <1>0, <1>t, <2>2 DEF Jobs
  <2>4. /\ worker'[w] = "busy" /\ job'[w] = taken + 1
        /\ \A v \in Worker \ {w} : worker'[v] = worker[v] /\ job'[v] = job[v]
    BY <1>t, <2>1, <2>2
  <2>5. \A v \in Worker : worker'[v] = "busy" =>
          job'[v] \in Entry /\ job'[v] <= taken' /\ fate'[job'[v]] = "todo"
    <3> SUFFICES ASSUME NEW v \in Worker, worker'[v] = "busy"
                 PROVE  job'[v] \in Entry /\ job'[v] <= taken + 1 /\ fate[job'[v]] = "todo"
      BY <2>1
    <3>1. CASE v = w
      <4>1. job'[v] = taken + 1
        BY <2>4, <3>1
      <4>2. taken + 1 \in Entry /\ taken + 1 <= taken + 1
        BY <1>t, <2>2
      <4> QED  BY <2>3, <4>1, <4>2
    <3>2. CASE v # w
      <4>1. worker[v] = "busy" /\ job'[v] = job[v]
        BY <2>4, <3>2
      <4>2. job[v] \in Entry /\ job[v] <= taken /\ fate[job[v]] = "todo"
        BY <1>0, <4>1 DEF Jobs
      <4>3. taken \in Nat /\ job[v] \in Nat
        BY <1>t, <4>2, Zenon
      <4>4. job[v] <= taken + 1
        BY <4>2, <4>3
      <4> QED  BY <4>1, <4>2, <4>4, Zenon
    <3> QED  BY <3>1, <3>2
  <2>6. \A u, v \in Worker :
          worker'[u] = "busy" /\ worker'[v] = "busy" /\ job'[u] = job'[v] => u = v
    <3>1. \A v \in Worker \ {w} : worker'[v] = "busy" => job'[v] # taken + 1
      BY <1>0, <1>t, <2>4 DEF Jobs
    <3> QED  BY <1>0, <2>4, <3>1 DEF Jobs
  <2>7. \A j \in Entry : fate'[j] = "todo" /\ j <= taken' =>
          \E v \in Worker : worker'[v] = "busy" /\ job'[v] = j
    <3> SUFFICES ASSUME NEW j \in Entry, fate[j] = "todo", j <= taken + 1
                 PROVE  \E v \in Worker : worker'[v] = "busy" /\ job'[v] = j
      BY <2>1
    <3>1. CASE j = taken + 1
      BY <2>4, <3>1
    <3>2. CASE j <= taken
      <4>1. PICK v \in Worker : worker[v] = "busy" /\ job[v] = j
        BY <1>0, <3>2 DEF Jobs
      <4>2. v # w
        BY <2>1, <4>1
      <4> QED  BY <2>4, <4>1, <4>2
    <3> QED  BY <1>t, <3>1, <3>2
  <2>8. \A j \in Entry : j > taken' => fate'[j] = "todo"
    BY <1>0, <1>t, <2>1 DEF Jobs
  <2>9. \A v \in Worker : worker'[v] \notin {"exit", "gone"}
    BY <1>0, <1>t, <2>1, <2>4 DEF Jobs
  <2> QED  BY <2>5, <2>6, <2>7, <2>8, <2>9 DEF Jobs
<1>5. ASSUME NEW w \in Worker, Succeed(w) \/ Fail(w) PROVE Jobs'
  <2>1. /\ worker[w] = "busy" /\ worker'[w] \in {"recv", "report", "errSend"}
        /\ \A v \in Worker \ {w} : worker'[v] = worker[v] /\ job'[v] = job[v]
    BY <1>5, <1>t DEF Succeed, Fail
  <2>2. /\ fate'[job[w]] # "todo"
        /\ \A j \in Entry \ {job[w]} : fate'[j] = fate[j]
        /\ UNCHANGED <<feeder, workerChan, taken>>
    <3>1. job[w] \in Entry
      BY <1>0, <2>1 DEF Jobs
    <3> QED  BY <1>5, <1>t, <3>1 DEF Succeed, Fail
  <2>3. \A v \in Worker : worker'[v] = "busy" => v # w /\ job[v] # job[w]
    BY <1>0, <2>1 DEF Jobs
  <2>4. \A v \in Worker : worker'[v] = "busy" =>
          job'[v] \in Entry /\ job'[v] <= taken' /\ fate'[job'[v]] = "todo"
    BY <1>0, <2>1, <2>2, <2>3 DEF Jobs
  <2>5. \A u, v \in Worker :
          worker'[u] = "busy" /\ worker'[v] = "busy" /\ job'[u] = job'[v] => u = v
    BY <1>0, <2>1, <2>3 DEF Jobs
  <2>6. \A j \in Entry : fate'[j] = "todo" /\ j <= taken' =>
          \E v \in Worker : worker'[v] = "busy" /\ job'[v] = j
    <3> SUFFICES ASSUME NEW j \in Entry, fate'[j] = "todo", j <= taken
                 PROVE  \E v \in Worker : worker'[v] = "busy" /\ job'[v] = j
      BY <2>2
    <3>1. PICK v \in Worker : worker[v] = "busy" /\ job[v] = j
      BY <1>0, <2>2 DEF Jobs
    <3> QED  BY <2>1, <2>2, <3>1
  <2>7. \A j \in Entry : j > taken' => fate'[j] = "todo"
    <3>1. job[w] \in Entry /\ job[w] <= taken
      BY <1>0, <2>1 DEF Jobs
    <3>2. \A j \in Entry : j > taken => j # job[w]
      BY <1>t, <3>1
    <3> QED  BY <1>0, <2>2, <3>2 DEF Jobs
  <2>8. \A v \in Worker : worker'[v] \in {"exit", "gone"} =>
          feeder' = "done" /\ workerChan' = <<>>
    BY <1>0, <2>1, <2>2 DEF Jobs
  <2> QED  BY <2>4, <2>5, <2>6, <2>7, <2>8 DEF Jobs
<1>6. ASSUME NEW w \in Worker,
             SendErr(w) \/ Report(w) \/ Exit(w) \/ AwaitWorker(w)
      PROVE  Jobs'
  <2>1. /\ worker[w] # "busy" /\ worker'[w] # "busy"
        /\ \A v \in Worker \ {w} : worker'[v] = worker[v]
        /\ UNCHANGED <<feeder, workerChan, taken, job, fate>>
    BY <1>6, <1>t DEF SendErr, Report, Exit, AwaitWorker
  <2>2. worker'[w] \in {"exit", "gone"} => feeder = "done" /\ workerChan = <<>>
    BY <1>0, <1>6, <1>t DEF SendErr, Report, Exit, AwaitWorker, WorkerChanClosed, Jobs
  <2>3. \A v \in Worker : worker'[v] = "busy" <=> worker[v] = "busy"
    BY <2>1
  <2> QED  BY <1>0, <2>1, <2>2, <2>3 DEF Jobs
<1>7. CASE CountBacklog \/ OpenFails \/ FinalReport \/ Cancel \/ ReaderStep
           \/ UNCHANGED vars
  <2>1. UNCHANGED <<feeder, workerChan, taken, worker, job, fate>>
    BY <1>7 DEF CountBacklog, OpenFails, FinalReport, Cancel, ReaderStep, ReadEntry,
                ReadEnd, ReadBreaks, vars
  <2> QED  BY <1>1, <2>1
<1> QED  BY <1>2, <1>3, <1>4, <1>5, <1>6, <1>7 DEF Next, MainStep, WorkerStep

\* Sets of workers and of entries are finite.
LEMMA FiniteSets ==
  /\ \A place : IsFiniteSet(At(place)) /\ Cardinality(At(place)) \in Nat
  /\ \A result : IsFiniteSet(Outcomes(result)) /\ Cardinality(Outcomes(result)) \in Nat
<1>1. IsFiniteSet(Entry)
  BY TotalAssumption, FS_Interval DEF Entry
<1>2. \A place : At(place) \in SUBSET Worker
  BY DEF At
<1>3. \A result : Outcomes(result) \in SUBSET Entry
  BY DEF Outcomes
<1>4. \A place : IsFiniteSet(At(place))
  BY <1>2, WorkerAssumption, FS_Subset
<1>5. \A result : IsFiniteSet(Outcomes(result))
  BY <1>1, <1>3, FS_Subset
<1> QED  BY <1>4, <1>5, FS_CardinalityType

LEMMA CountsStep == IInv /\ [Next]_vars => Counts'
<1> SUFFICES ASSUME IInv, [Next]_vars PROVE Counts'
  OBVIOUS
<1> USE DEF mainVars, readVars, feedVars, workVars
<1>0. TypeOK /\ Phases /\ Jobs /\ Counts
  BY DEF IInv
<1>t. /\ worker \in [Worker ->
           {"off", "recv", "busy", "errSend", "report", "exit", "gone"}]
      /\ fate \in [Entry -> {"todo", "ok", "failed"}]
      /\ errCount \in Nat /\ processed \in Nat /\ doneCount \in Nat
  BY <1>0, ConcurrencyType DEF TypeOK, CallerType, WorkerType, ResultType
<1>1. ASSUME UNCHANGED <<doneCount, errCount, worker, fate, processed>> PROVE Counts'
  BY <1>0, <1>1 DEF Counts, At, Outcomes
<1>2. CASE OpenBacklog
  <2>1. \A w \in Worker : worker[w] = "off" /\ worker'[w] = "recv"
    BY <1>0, <1>2 DEF OpenBacklog, Phases
  <2>2. At("gone")' = At("gone") /\ At("errSend")' = At("errSend")
    BY <2>1 DEF At
  <2>3. UNCHANGED <<doneCount, errCount, fate, processed>>
    BY <1>2 DEF OpenBacklog
  <2> QED  BY <1>0, <2>2, <2>3 DEF Counts, Outcomes
<1>3. ASSUME NEW w \in Worker, Succeed(w) PROVE Counts'
  <2>1. job[w] \in Entry /\ fate[job[w]] = "todo"
    BY <1>0, <1>3 DEF Succeed, Jobs
  <2>2. Outcomes("ok")' = Outcomes("ok") \union {job[w]}
    BY <1>3, <1>t, <2>1 DEF Succeed, Outcomes
  <2>3. Outcomes("failed")' = Outcomes("failed")
    BY <1>3, <1>t, <2>1 DEF Succeed, Outcomes
  <2>4. At("gone")' = At("gone")
    BY <1>3, <1>t DEF Succeed, At
  <2>5. At("errSend")' = At("errSend")
    BY <1>3, <1>t DEF Succeed, At
  <2>6. job[w] \notin Outcomes("ok")
    BY <2>1 DEF Outcomes
  <2>7. Cardinality(Outcomes("ok"))' = Cardinality(Outcomes("ok")) + 1
    BY <2>2, <2>6, FiniteSets, FS_AddElement
  <2>8. processed' = processed + 1 /\ UNCHANGED <<doneCount, errCount>>
    BY <1>3 DEF Succeed
  <2> QED  BY <1>0, <2>3, <2>4, <2>5, <2>7, <2>8 DEF Counts
<1>4. ASSUME NEW w \in Worker, Fail(w) PROVE Counts'
  <2>1. job[w] \in Entry /\ fate[job[w]] = "todo" /\ worker[w] = "busy"
    BY <1>0, <1>4 DEF Fail, Jobs
  <2>2. Outcomes("failed")' = Outcomes("failed") \union {job[w]}
    BY <1>4, <1>t, <2>1 DEF Fail, Outcomes
  <2>3. Outcomes("ok")' = Outcomes("ok")
    BY <1>4, <1>t, <2>1 DEF Fail, Outcomes
  <2>4. At("gone")' = At("gone")
    BY <1>4, <1>t DEF Fail, At
  <2>5. At("errSend")' = At("errSend") \union {w}
    BY <1>4, <1>t DEF Fail, At
  <2>6. job[w] \notin Outcomes("failed") /\ w \notin At("errSend")
    BY <2>1 DEF Outcomes, At
  <2>7. Cardinality(Outcomes("failed"))' = Cardinality(Outcomes("failed")) + 1
    BY <2>2, <2>6, FiniteSets, FS_AddElement
  <2>8. Cardinality(At("errSend"))' = Cardinality(At("errSend")) + 1
    BY <2>5, <2>6, FiniteSets, FS_AddElement
  <2>9. UNCHANGED <<doneCount, errCount, processed>>
    BY <1>4 DEF Fail
  <2> QED  BY <1>0, <1>t, FiniteSets, <2>3, <2>4, <2>7, <2>8, <2>9 DEF Counts
<1>5. ASSUME NEW w \in Worker, SendErr(w) PROVE Counts'
  <2>1. w \in At("errSend")
    BY <1>5 DEF SendErr, At
  <2>2. At("errSend")' = At("errSend") \ {w}
    BY <1>5, <1>t DEF SendErr, At
  <2>3. At("gone")' = At("gone")
    BY <1>5, <1>t DEF SendErr, At
  <2>4. Cardinality(At("errSend"))' = Cardinality(At("errSend")) - 1
    BY <2>1, <2>2, FiniteSets, FS_RemoveElement
  <2>5. errCount' = errCount + 1 /\ UNCHANGED <<doneCount, fate, processed>>
    BY <1>5 DEF SendErr
  <2>6. Outcomes("ok")' = Outcomes("ok") /\ Outcomes("failed")' = Outcomes("failed")
    BY <2>5 DEF Outcomes
  <2> QED  BY <1>0, <1>t, FiniteSets, <2>3, <2>4, <2>5, <2>6 DEF Counts
<1>6. ASSUME NEW w \in Worker, AwaitWorker(w) PROVE Counts'
  <2>1. w \notin At("gone")
    BY <1>6 DEF AwaitWorker, At
  <2>2. At("gone")' = At("gone") \union {w}
    BY <1>6, <1>t DEF AwaitWorker, At
  <2>3. At("errSend")' = At("errSend")
    BY <1>6, <1>t DEF AwaitWorker, At
  <2>4. Cardinality(At("gone"))' = Cardinality(At("gone")) + 1
    BY <2>1, <2>2, FiniteSets, FS_AddElement
  <2>5. doneCount' = doneCount + 1 /\ UNCHANGED <<errCount, fate, processed>>
    BY <1>6 DEF AwaitWorker
  <2>6. Outcomes("ok")' = Outcomes("ok") /\ Outcomes("failed")' = Outcomes("failed")
    BY <2>5 DEF Outcomes
  <2> QED  BY <1>0, <2>3, <2>4, <2>5, <2>6 DEF Counts
<1>7. ASSUME NEW w \in Worker, Take(w) \/ Report(w) \/ Exit(w) PROVE Counts'
  <2>1. UNCHANGED <<doneCount, errCount, fate, processed>>
    BY <1>7 DEF Take, Report, Exit
  <2>2. At("gone")' = At("gone")
    BY <1>7, <1>t DEF Take, Report, Exit, At
  <2>3. At("errSend")' = At("errSend")
    BY <1>7, <1>t DEF Take, Report, Exit, At
  <2> QED  BY <1>0, <2>1, <2>2, <2>3 DEF Counts, Outcomes
<1>8. CASE CountBacklog \/ OpenFails \/ FinalReport \/ Cancel \/ ReaderStep
           \/ FeederStep \/ UNCHANGED vars
  <2>1. UNCHANGED <<doneCount, errCount, worker, fate, processed>>
    BY <1>8 DEF CountBacklog, OpenFails, FinalReport, Cancel, ReaderStep, ReadEntry,
                ReadEnd, ReadBreaks, FeederStep, FeederRecv, FeederSend, FeederEnd, vars
  <2> QED  BY <1>1, <2>1
<1> QED  BY <1>2, <1>3, <1>4, <1>5, <1>6, <1>7, <1>8 DEF Next, MainStep, WorkerStep

LEMMA ReportingStep == IInv /\ [Next]_vars => Reporting'
<1> SUFFICES ASSUME IInv, [Next]_vars PROVE Reporting'
  OBVIOUS
<1> USE DEF mainVars, readVars, feedVars, workVars
<1>0. TypeOK /\ Phases /\ Reporting
  BY DEF IInv
<1>t. /\ processed \in Nat /\ reports \in Seq(Nat) /\ Len(reports) \in Nat
      /\ current \in [Worker -> Nat]
  BY <1>0 DEF TypeOK, WorkerType, ResultType
<1>1. ASSUME UNCHANGED <<current, processed, reports>>,
             main' = "returned" => main = "returned"
      PROVE  Reporting'
  BY <1>0, <1>1 DEF Reporting
<1>2. CASE FinalReport
  <2>1. reports' = Append(reports, processed) /\ UNCHANGED <<processed, current>>
    BY <1>2 DEF FinalReport
  <2>2. /\ Len(reports') = Len(reports) + 1 /\ reports'[Len(reports) + 1] = processed
        /\ \A i \in 1..Len(reports) : reports'[i] = reports[i]
    BY <1>t, <2>1, AppendFacts
  <2>3. \A i \in 1..Len(reports') : reports'[i] <= processed'
    BY <1>0, <1>t, <2>1, <2>2 DEF Reporting
  <2> QED  BY <1>0, <1>t, <2>1, <2>2, <2>3 DEF Reporting
<1>3. ASSUME NEW w \in Worker, Succeed(w) PROVE Reporting'
  <2>1. main = "wait" /\ main' = main
    BY <1>3, WorkersRunInWait DEF Succeed
  <2>2. processed' = processed + 1 /\ UNCHANGED reports
    BY <1>3 DEF Succeed
  <2>3. \A i \in 1..Len(reports') : reports'[i] <= processed'
    <3>1. \A i \in 1..Len(reports) : reports[i] \in Nat
      BY <1>t
    <3> QED  BY <1>0, <1>t, <2>2, <3>1 DEF Reporting
  <2>4. \A v \in Worker : current'[v] \in {current[v], processed + 1}
    BY <1>3, <1>t DEF Succeed
  <2>5. \A v \in Worker : current'[v] <= processed'
    <3>1. \A v \in Worker : current[v] \in Nat /\ current[v] <= processed
      BY <1>0, <1>t DEF Reporting
    <3> QED  BY <1>t, <2>2, <2>4, <3>1
  <2> QED  BY <2>1, <2>3, <2>5 DEF Reporting
<1>4. ASSUME NEW w \in Worker, Report(w) PROVE Reporting'
  <2>1. main = "wait" /\ main' = main
    BY <1>4, WorkersRunInWait DEF Report
  <2>2. reports' = Append(reports, current[w]) /\ UNCHANGED processed
    BY <1>4 DEF Report
  <2>3. current[w] \in Nat /\ current[w] <= processed
    BY <1>0, <1>t DEF Reporting
  <2>4. /\ Len(reports') = Len(reports) + 1 /\ reports'[Len(reports) + 1] = current[w]
        /\ \A i \in 1..Len(reports) : reports'[i] = reports[i]
    BY <1>t, <2>2, <2>3, AppendFacts
  <2>5. \A i \in 1..Len(reports') : reports'[i] <= processed'
    BY <1>0, <1>t, <2>2, <2>3, <2>4 DEF Reporting
  <2>6. \A v \in Worker : current'[v] \in {current[v], 0}
    BY <1>4, <1>t DEF Report
  <2>7. \A v \in Worker : current'[v] <= processed'
    <3> SUFFICES ASSUME NEW v \in Worker PROVE current'[v] <= processed
      BY <2>2
    <3>1. current[v] \in Nat /\ current[v] <= processed
      BY <1>0, <1>t DEF Reporting
    <3> QED  BY <1>t, <2>6, <3>1
  <2> QED  BY <2>1, <2>5, <2>7 DEF Reporting
<1>5. ASSUME NEW w \in Worker,
             Take(w) \/ Fail(w) \/ SendErr(w) \/ Exit(w) \/ AwaitWorker(w)
      PROVE  Reporting'
  <2>1. UNCHANGED <<current, processed, reports, main>>
    BY <1>5 DEF Take, Fail, SendErr, Exit, AwaitWorker
  <2> QED  BY <1>1, <2>1
<1>6. CASE CountBacklog \/ OpenBacklog \/ OpenFails \/ Cancel \/ ReaderStep
           \/ FeederStep \/ UNCHANGED vars
  <2>1. UNCHANGED <<current, processed, reports>>
    BY <1>6 DEF CountBacklog, OpenBacklog, OpenFails, Cancel, ReaderStep, ReadEntry,
                ReadEnd, ReadBreaks, FeederStep, FeederRecv, FeederSend, FeederEnd, vars
  <2>2. main' = "returned" => main = "returned"
    BY <1>6 DEF CountBacklog, OpenBacklog, OpenFails, Cancel, ReaderStep, ReadEntry,
                ReadEnd, ReadBreaks, FeederStep, FeederRecv, FeederSend, FeederEnd, vars
  <2> QED  BY <1>1, <2>1, <2>2
<1> QED  BY <1>2, <1>3, <1>4, <1>5, <1>6 DEF Next, MainStep, WorkerStep

\* The multiples the counter has passed stay in one place each.
LEMMA MilestonesStep == IInv /\ [Next]_vars => Milestones'
<1> SUFFICES ASSUME IInv, [Next]_vars PROVE Milestones'
  OBVIOUS
<1> USE DEF mainVars, readVars, feedVars, workVars
<1>0. TypeOK /\ Phases /\ Reporting /\ Milestones
  BY DEF IInv
<1>t. /\ processed \in Nat /\ reports \in Seq(Nat) /\ Len(reports) \in Nat
      /\ current \in [Worker -> Nat] /\ DOMAIN worker = Worker
  BY <1>0 DEF TypeOK, WorkerType, ResultType
<1>1. ASSUME UNCHANGED <<current, processed, reports>>,
             main' = "returned" <=> main = "returned",
             \A w \in Worker : worker'[w] = "report" <=> worker[w] = "report"
      PROVE  Milestones'
  BY <1>0, <1>1 DEF Milestones, Reported
<1>2. CASE FinalReport
  <2>1. /\ reports' = Append(reports, processed) /\ UNCHANGED <<processed, current, worker>>
        /\ main = "wait" /\ main' = "returned"
    BY <1>2 DEF FinalReport
  <2>2. /\ Len(reports') = Len(reports) + 1
        /\ \A i \in 1..Len(reports) : reports'[i] = reports[i]
    BY <1>t, <2>1, AppendFacts
  <2>3. Reported = 1..Len(reports) /\ Reported' = 1..Len(reports)
    BY <1>t, <2>1, <2>2 DEF Reported
  <2> QED  BY <1>0, <2>1, <2>2, <2>3 DEF Milestones
<1>3. ASSUME NEW w \in Worker, Succeed(w) PROVE Milestones'
  <2>1. main = "wait" /\ main' = main
    BY <1>3, WorkersRunInWait DEF Succeed
  <2>2. processed' = processed + 1 /\ UNCHANGED reports /\ worker[w] = "busy"
    BY <1>3 DEF Succeed
  <2>3. UNCHANGED Reported
    BY <2>1, <2>2 DEF Reported
  <2>4. /\ 1..processed' = 1..processed \union {processed + 1}
        /\ processed + 1 \notin 1..processed
    BY <1>t, <2>2
  <2>5. \A v \in Worker \ {w} : worker'[v] = worker[v] /\ current'[v] = current[v]
    BY <1>3, <1>t DEF Succeed
  <2>6. CASE IsMilestone(processed + 1) /\ worker'[w] = "report" /\ current'[w] = processed + 1
    BY <1>0, <2>2, <2>3, <2>4, <2>5, <2>6 DEF Milestones
  <2>7. CASE ~IsMilestone(processed + 1) /\ worker'[w] = "recv"
    BY <1>0, <2>2, <2>3, <2>4, <2>5, <2>7 DEF Milestones
  <2> QED  BY <1>3, <1>t, <2>6, <2>7 DEF Succeed
<1>4. ASSUME NEW w \in Worker, Report(w) PROVE Milestones'
  <2>1. main = "wait" /\ main' = main
    BY <1>4, WorkersRunInWait DEF Report
  <2>2. /\ reports' = Append(reports, current[w]) /\ UNCHANGED processed
        /\ worker[w] = "report" /\ worker'[w] = "recv"
        /\ \A v \in Worker \ {w} : worker'[v] = worker[v] /\ current'[v] = current[v]
    BY <1>4, <1>t DEF Report
  <2>3. current[w] \in Nat
    BY <1>t
  <2>4. /\ Len(reports') = Len(reports) + 1 /\ reports'[Len(reports) + 1] = current[w]
        /\ \A i \in 1..Len(reports) : reports'[i] = reports[i]
    BY <1>t, <2>2, <2>3, AppendFacts
  <2>5. /\ Reported = 1..Len(reports) /\ Reported' = Reported \union {Len(reports) + 1}
        /\ Len(reports) + 1 \notin Reported
    BY <1>t, <2>1, <2>4 DEF Reported
  <2>6. /\ current[w] \in 1..processed /\ IsMilestone(current[w])
        /\ \A i \in Reported : reports[i] # current[w]
    BY <1>0, <2>2 DEF Milestones
  <2>7. \A i \in Reported' : \/ i \in Reported /\ reports'[i] = reports[i]
                             \/ i = Len(reports) + 1 /\ reports'[i] = current[w]
    BY <2>4, <2>5
  <2>8. \A v \in Worker : worker'[v] = "report" =>
          v # w /\ worker[v] = "report" /\ current'[v] = current[v]
    BY <2>2
  <2>9. \A v \in Worker : worker'[v] = "report" =>
          current'[v] \in 1..processed' /\ IsMilestone(current'[v])
    BY <1>0, <2>2, <2>8 DEF Milestones
  <2>10. \A i \in Reported' : reports'[i] \in 1..processed' /\ IsMilestone(reports'[i])
    BY <1>0, <2>2, <2>6, <2>7 DEF Milestones
  <2>11. ASSUME NEW n \in 1..processed', IsMilestone(n)
         PROVE  \/ \E i \in Reported' : reports'[i] = n
                \/ \E v \in Worker : worker'[v] = "report" /\ current'[v] = n
    <3>1. CASE \E i \in Reported : reports[i] = n
      BY <2>4, <2>5, <3>1
    <3>2. CASE n = current[w]
      BY <2>4, <2>5, <3>2
    <3>3. CASE \E v \in Worker \ {w} : worker[v] = "report" /\ current[v] = n
      BY <2>2, <3>3
    <3>4. \/ \E i \in Reported : reports[i] = n
          \/ \E v \in Worker : worker[v] = "report" /\ current[v] = n
      BY <1>0, <2>2, <2>11 DEF Milestones
    <3> QED  BY <3>1, <3>2, <3>3, <3>4
  <2>12. \A i, j \in Reported' : reports'[i] = reports'[j] => i = j
    <3>1. \A i, j \in Reported : reports[i] = reports[j] => i = j
      BY <1>0 DEF Milestones
    <3> SUFFICES ASSUME NEW i \in Reported', NEW j \in Reported', reports'[i] = reports'[j]
                 PROVE  i = j
      OBVIOUS
    <3>2. CASE i \in Reported /\ reports'[i] = reports[i]
      <4>1. j \in Reported /\ reports'[j] = reports[j]
        BY <2>6, <2>7, <3>2
      <4> QED  BY <3>1, <3>2, <4>1
    <3>3. CASE i = Len(reports) + 1 /\ reports'[i] = current[w]
      <4>1. j = Len(reports) + 1
        BY <2>6, <2>7, <3>3
      <4> QED  BY <3>3, <4>1
    <3> QED  BY <2>7, <3>2, <3>3
  <2>13. \A i \in Reported', v \in Worker :
           worker'[v] = "report" => reports'[i] # current'[v]
    <3>1. \A i \in Reported, v \in Worker : worker[v] = "report" => reports[i] # current[v]
      BY <1>0 DEF Milestones
    <3>2. \A v \in Worker \ {w} : worker[v] = "report" => current[w] # current[v]
      BY <1>0, <2>2 DEF Milestones
    <3> QED  BY <2>7, <2>8, <3>1, <3>2
  <2>14. \A u, v \in Worker :
           worker'[u] = "report" /\ worker'[v] = "report" /\ current'[u] = current'[v] => u = v
    BY <1>0, <2>8 DEF Milestones
  <2> QED  BY <2>9, <2>10, <2>11, <2>12, <2>13, <2>14 DEF Milestones
<1>5. ASSUME NEW w \in Worker,
             Take(w) \/ Fail(w) \/ SendErr(w) \/ Exit(w) \/ AwaitWorker(w)
      PROVE  Milestones'
  <2>1. UNCHANGED <<current, processed, reports, main>>
    BY <1>5 DEF Take, Fail, SendErr, Exit, AwaitWorker
  <2>2. \A v \in Worker : worker'[v] = "report" <=> worker[v] = "report"
    BY <1>5, <1>t DEF Take, Fail, SendErr, Exit, AwaitWorker
  <2> QED  BY <1>1, <2>1, <2>2
<1>6. CASE OpenBacklog
  <2>1. UNCHANGED <<current, processed, reports>> /\ main = "open" /\ main' = "wait"
    BY <1>6 DEF OpenBacklog
  <2>2. \A v \in Worker : worker[v] = "off" /\ worker'[v] = "recv"
    BY <1>0, <1>6, <2>1 DEF OpenBacklog, Phases
  <2> QED  BY <1>1, <2>1, <2>2
<1>7. CASE CountBacklog \/ OpenFails \/ Cancel \/ ReaderStep \/ FeederStep \/ UNCHANGED vars
  <2>1. UNCHANGED <<current, processed, reports, worker>>
    BY <1>7 DEF CountBacklog, OpenFails, Cancel, ReaderStep, ReadEntry,
                ReadEnd, ReadBreaks, FeederStep, FeederRecv, FeederSend, FeederEnd, vars
  <2>2. main' = "returned" <=> main = "returned"
    BY <1>7 DEF CountBacklog, OpenFails, Cancel, ReaderStep, ReadEntry,
                ReadEnd, ReadBreaks, FeederStep, FeederRecv, FeederSend, FeederEnd, vars
  <2> QED  BY <1>1, <2>1, <2>2
<1> QED  BY <1>2, <1>3, <1>4, <1>5, <1>6, <1>7 DEF Next, MainStep, WorkerStep

\* The strengthened invariant holds in every reachable state.
THEOREM InvariantHolds == Spec => []IInv
<1>1. IInv /\ [Next]_vars => IInv'
  BY StepType, PhasesStep, OrderStep, JobsStep, CountsStep, ReportingStep, MilestonesStep
     DEF IInv
<1> QED  BY InitInv, <1>1, PTL DEF Spec

-----------------------------------------------------------------------------
(* What follows from the invariant *)

\* Without a cancellation or a broken reader, ProcessFiles returns only when
\* processFile has run on every entry of the backlog.
THEOREM AllAttemptedAlways == Spec => []AllAttempted
<1>1. IInv => AllAttempted
  <2> SUFFICES ASSUME IInv, main = "returned", ctx = "live", reader # "broken",
                      NEW j \in Entry, fate[j] = "todo"
               PROVE  FALSE
    BY DEF AllAttempted, Outcomes
  <2>0. TypeOK /\ Phases /\ Order /\ Jobs
    BY DEF IInv
  <2>1. \A w \in Worker : worker[w] = "gone"
    BY <2>0 DEF Phases
  <2>2. feeder = "done" /\ workerChan = <<>>
    BY <2>0, <2>1, WorkerAssumption DEF Jobs
  <2>3. relPaths = <<>> /\ RelPathsClosed /\ taken + Len(workerChan) = Fed
    BY <2>0, <2>2 DEF Order
  <2>4. nextEntry = Total + 1
    BY <2>0, <2>3 DEF Order, RelPathsClosed
  <2>5. taken = Total
    <3>1. Len(workerChan) = 0 /\ Len(relPaths) = 0
      BY <2>2, <2>3
    <3>2. taken \in Nat
      BY <2>0 DEF TypeOK, FeederType
    <3> QED  BY <2>3, <2>4, <3>1, <3>2, TotalAssumption DEF Fed
  <2>6. j <= taken
    BY <2>5, TotalAssumption DEF Entry
  <2> QED  BY <2>0, <2>1, <2>6 DEF Jobs
<1> QED  BY <1>1, InvariantHolds, PTL

\* However many files and workers there are, a batch in which more than
\* Concurrency files fail never returns.
THEOREM ErrorsFitBufferAlways == Spec => []ErrorsFitBuffer
<1>1. IInv => ErrorsFitBuffer
  <2> SUFFICES ASSUME IInv, main = "returned"
               PROVE  Cardinality(Outcomes("failed")) <= Concurrency
    BY DEF ErrorsFitBuffer
  <2>1. \A w \in Worker : worker[w] = "gone"
    BY DEF IInv, Phases
  <2>2. Cardinality(At("errSend")) = 0
    BY <2>1, FS_EmptySet DEF At
  <2>3. errCount <= Concurrency /\ errCount \in Nat
    BY ConcurrencyType DEF IInv, TypeOK, ResultType
  <2>4. errCount + Cardinality(At("errSend")) = Cardinality(Outcomes("failed"))
    BY DEF IInv, Counts
  <2> QED  BY <2>2, <2>3, <2>4, FiniteSets
<1> QED  BY <1>1, InvariantHolds, PTL

\* The last call of ProgressCallback is given the number of successes, and no
\* call was given more.
THEOREM FinalReportExactAlways == Spec => []FinalReportExact
<1>1. IInv => FinalReportExact
  <2> SUFFICES ASSUME IInv, main = "returned"
               PROVE  /\ reports # <<>>
                      /\ reports[Len(reports)] = Cardinality(Outcomes("ok"))
                      /\ \A i \in 1..Len(reports) : reports[i] <= reports[Len(reports)]
    BY DEF FinalReportExact
  <2>1. Len(reports) > 0 /\ reports[Len(reports)] = processed
    BY DEF IInv, Reporting
  <2>2. processed = Cardinality(Outcomes("ok"))
    BY DEF IInv, Counts
  <2>3. \A i \in 1..Len(reports) : reports[i] <= processed
    BY DEF IInv, Reporting
  <2>4. reports # <<>>
    BY <2>1
  <2> QED  BY <2>1, <2>2, <2>3, <2>4
<1> QED  BY <1>1, InvariantHolds, PTL

\* At the return every multiple of ProgressEach up to the number of successes has
\* been reported, each once (workflow.go:154-157).
THEOREM MilestonesReportedOnceAlways == Spec => []MilestonesReportedOnce
<1>1. IInv => MilestonesReportedOnce
  <2> SUFFICES ASSUME IInv, main = "returned" PROVE MilestonesReportedOnce
    BY DEF MilestonesReportedOnce
  <2>1. Milestones /\ Reported = 1..(Len(reports) - 1)
    BY DEF IInv, Reported
  <2>2. \A w \in Worker : worker[w] # "report"
    BY DEF IInv, Phases
  <2>3. \A i \in 1..(Len(reports) - 1) :
          reports[i] \in 1..processed /\ IsMilestone(reports[i])
    BY <2>1 DEF Milestones
  <2>4. ASSUME NEW n \in 1..processed, IsMilestone(n)
        PROVE  \E i \in 1..(Len(reports) - 1) :
                 reports[i] = n /\ \A k \in 1..(Len(reports) - 1) : reports[k] = n => k = i
    <3>1. PICK i \in Reported : reports[i] = n
      BY <2>1, <2>2, <2>4 DEF Milestones
    <3>2. \A k \in Reported : reports[k] = n => k = i
      BY <2>1, <3>1 DEF Milestones
    <3> QED  BY <2>1, <3>1, <3>2
  <2> QED  BY <2>3, <2>4 DEF MilestonesReportedOnce
<1> QED  BY <1>1, InvariantHolds, PTL

\* Nothing happens to a file, and no callback runs, after the return.
THEOREM QuietAlways == Spec => QuietAfterReturn
<1>1. IInv /\ [Next]_vars => [main = "returned" => UNCHANGED <<fate, reports>>]_vars
  <2> SUFFICES ASSUME IInv, Next, main = "returned"
               PROVE  UNCHANGED <<fate, reports>>
    BY DEF vars
  <2>1. \A w \in Worker : worker[w] = "gone"
    BY DEF IInv, Phases
  <2>2. ASSUME NEW w \in Worker, WorkerStep(w) PROVE FALSE
    BY <2>1, <2>2
       DEF WorkerStep, Take, Succeed, Fail, SendErr, Report, Exit, AwaitWorker
  <2>3. CASE MainStep
    BY <2>3 DEF MainStep, CountBacklog, OpenBacklog, OpenFails, FinalReport
  <2>4. CASE Cancel \/ ReaderStep \/ FeederStep
    BY <2>4 DEF Cancel, ReaderStep, ReadEntry, ReadEnd, ReadBreaks, FeederStep,
                FeederRecv, FeederSend, FeederEnd, workVars
  <2> QED  BY <2>2, <2>3, <2>4 DEF Next
<1> QED  BY <1>1, InvariantHolds, PTL DEF Spec, QuietAfterReturn

-----------------------------------------------------------------------------
(* WorkerPool implements BatchContract *)

\* The values of the contract's variables in a state of the pool.
Phase == IF main \in {"returned", "aborted"} THEN main ELSE "running"
Excused == ctx = "done" \/ reader = "broken"
Announced == IF main = "returned" THEN reports[Len(reports)] ELSE 0

\* A step that leaves these alone is a stuttering step of the contract.
LEMMA ContractStutter ==
  ASSUME UNCHANGED <<Phase, Excused, fate, Announced>>
  PROVE  UNCHANGED Contract!vars
BY DEF Contract!vars, Phase, Excused, Announced

\* The contract's own instance of FiniteSets counts the same.
LEMMA ContractCardinality == \A S : Contract!Cardinality(S) = Cardinality(S)
BY DEF Contract!Cardinality, Cardinality, Contract!IsFiniteSet, IsFiniteSet

\* While a worker is busy, fewer than twice as many files have failed as there are
\* workers: each failure is in errChan or in the hands of another worker.
LEMMA BusyWorkerLeft ==
  ASSUME IInv, NEW w \in Worker, worker[w] = "busy"
  PROVE  Cardinality(Outcomes("failed")) < 2 * Concurrency
<1>1. At("errSend") \subseteq Worker \ {w}
  BY DEF At
<1>2. IsFiniteSet(Worker \ {w}) /\ Cardinality(Worker \ {w}) = Concurrency - 1
  BY WorkerAssumption, FS_RemoveElement DEF Concurrency
<1>3. Cardinality(At("errSend")) <= Concurrency - 1 /\ Cardinality(At("errSend")) \in Nat
  BY <1>1, <1>2, FS_Subset, FS_CardinalityType
<1>4. errCount \in Nat /\ errCount <= Concurrency
  BY ConcurrencyType DEF IInv, TypeOK, ResultType
<1>5. errCount + Cardinality(At("errSend")) = Cardinality(Outcomes("failed"))
  BY DEF IInv, Counts
<1> QED  BY <1>3, <1>4, <1>5, ConcurrencyType

LEMMA ContractInit == Init => Contract!Init
BY DEF Init, Contract!Init, Contract!Entry, Entry

LEMMA ContractStep ==
  IInv /\ AllAttempted' /\ ErrorsFitBuffer' /\ FinalReportExact' /\ [Next]_vars
    => [Contract!Next]_(Contract!vars)
<1> SUFFICES ASSUME IInv, AllAttempted', ErrorsFitBuffer', FinalReportExact', [Next]_vars
             PROVE  Contract!Next \/ UNCHANGED Contract!vars
  OBVIOUS
<1> USE DEF mainVars, readVars, feedVars, workVars
<1>0. /\ TypeOK /\ Phases /\ Jobs
      /\ main \in {"count", "open", "wait", "returned", "aborted"}
      /\ fate \in [Entry -> {"todo", "ok", "failed"}]
  BY DEF IInv, TypeOK, CallerType, ResultType
<1>1. ASSUME UNCHANGED <<ctx, main, reader, fate>>,
             reports' = reports \/ main # "returned"
      PROVE  UNCHANGED Contract!vars
  <2>1. UNCHANGED <<Phase, Excused, fate>>
    BY <1>1 DEF Phase, Excused
  <2>2. UNCHANGED Announced
    BY <1>1 DEF Announced
  <2> QED  BY <2>1, <2>2, ContractStutter
\* The call gives up before anything is attempted.
<1>2. ASSUME main \in {"count", "open"}, main' = "aborted",
             UNCHANGED <<ctx, reader, fate>>
      PROVE  Contract!Abort
  <2>1. \A j \in Entry : fate[j] = "todo"
    BY <1>0, <1>2 DEF Phases
  <2>2. Contract!Settled("todo") = Contract!Entry
    BY <2>1 DEF Contract!Settled, Contract!Entry, Entry
  <2> QED  BY <1>2, <2>2 DEF Contract!Abort
<1>3. CASE CountBacklog
  <2>1. CASE main' = "aborted"
    BY <1>2, <1>3, <2>1 DEF CountBacklog, Contract!Next
  <2>2. CASE main' = "open"
    <3>1. UNCHANGED <<Phase, Excused, fate, Announced>>
      BY <1>3, <2>2 DEF CountBacklog, Phase, Excused, Announced
    <3> QED  BY <3>1, ContractStutter
  <2> QED  BY <1>3, <2>1, <2>2 DEF CountBacklog
<1>4. CASE OpenBacklog
  <2>1. reader = "off" /\ reader' = "reading"
    BY <1>0, <1>4 DEF OpenBacklog, Phases
  <2>2. UNCHANGED <<Phase, Excused, fate, Announced>>
    BY <1>4, <2>1 DEF OpenBacklog, Phase, Excused, Announced
  <2> QED  BY <2>2, ContractStutter
<1>5. CASE OpenFails
  BY <1>2, <1>5 DEF OpenFails, Contract!Next
<1>6. CASE FinalReport
  <2>1. main = "wait" /\ main' = "returned" /\ UNCHANGED <<ctx, reader, fate>>
    BY <1>6 DEF FinalReport
  <2>2. Excused \/ Contract!Settled("todo") = {}
    <3>1. CASE ctx = "live" /\ reader # "broken"
      <4>1. Outcomes("todo")' = {}
        BY <2>1, <3>1 DEF AllAttempted
      <4> QED  BY <2>1, <4>1 DEF Outcomes, Contract!Settled, Contract!Entry, Entry
    <3>2. CASE ctx # "live" \/ reader = "broken"
      BY <3>2 DEF IInv, TypeOK, CallerType, Excused
    <3> QED  BY <3>1, <3>2
  <2>3. reports'[Len(reports')] = Cardinality(Contract!Settled("ok"))
    <3>1. Contract!Settled("ok") = Outcomes("ok")'
      BY <2>1 DEF Contract!Settled, Contract!Entry, Outcomes, Entry
    <3> QED  BY <2>1, <3>1 DEF FinalReportExact
  <2>4. UNCHANGED Excused
    BY <2>1 DEF Excused
  <2>5. Phase = "running" /\ Phase' = "returned"
    BY <2>1 DEF Phase
  <2>6. Announced' = Cardinality(Contract!Settled("ok"))
    BY <2>1, <2>3 DEF Announced
  <2>8. Cardinality(Contract!Settled("failed")) <= Concurrency
    <3>1. Contract!Settled("failed") = Outcomes("failed")'
      BY <2>1 DEF Contract!Settled, Contract!Entry, Outcomes, Entry
    <3> QED  BY <2>1, <3>1 DEF ErrorsFitBuffer
  <2>7. Contract!Return
    BY <2>1, <2>2, <2>4, <2>5, <2>6, <2>8, ContractCardinality
       DEF Contract!Return, Excused, Phase, Announced
  <2> QED  BY <2>7 DEF Contract!Next
<1>7. ASSUME UNCHANGED <<main, fate, reports>>, ~Excused => Excused',
             Excused => Excused'
      PROVE  Contract!Next \/ UNCHANGED Contract!vars
  <2>1. UNCHANGED <<Phase, Announced>>
    BY <1>7 DEF Phase, Announced
  <2>2. CASE Excused
    BY <1>7, <2>1, <2>2, ContractStutter DEF Excused
  <2>3. CASE ~Excused
    BY <1>7, <2>1, <2>3
       DEF Contract!Next, Contract!Excuse, Excused, Phase, Announced
  <2> QED  BY <2>2, <2>3
<1>8. CASE Cancel
  BY <1>7, <1>8 DEF Cancel, Excused
<1>9. CASE ReadBreaks
  BY <1>7, <1>9 DEF ReadBreaks, Excused
<1>10. CASE ReadEntry
  BY <1>1, <1>10 DEF ReadEntry
<1>11. CASE ReadEnd
  <2>1. UNCHANGED <<Phase, Excused, fate, Announced>>
    BY <1>11 DEF ReadEnd, Phase, Excused, Announced
  <2> QED  BY <2>1, ContractStutter
<1>12. CASE FeederStep
  BY <1>1, <1>12 DEF FeederStep, FeederRecv, FeederSend, FeederEnd
<1>13. ASSUME NEW w \in Worker, Succeed(w) \/ Fail(w) PROVE Contract!Next
  <2>1. /\ worker[w] = "busy" /\ UNCHANGED <<ctx, main, reader, reports>>
        /\ \E result \in {"ok", "failed"} : fate' = [fate EXCEPT ![job[w]] = result]
    BY <1>13 DEF Succeed, Fail
  <2>2. job[w] \in Entry /\ fate[job[w]] = "todo"
    BY <1>0, <2>1 DEF Jobs
  <2>3. main = "wait"
    BY <2>1, WorkersRunInWait
  <2>5. Cardinality(Contract!Settled("failed")) < 2 * Concurrency
    <3>1. Contract!Settled("failed") = Outcomes("failed")
      BY DEF Contract!Settled, Contract!Entry, Outcomes, Entry
    <3> QED  BY <2>1, <3>1, BusyWorkerLeft
  <2>4. Contract!Settle(job[w])
    BY <2>1, <2>2, <2>3, <2>5, ContractCardinality DEF Contract!Settle
  <2> QED  BY <2>2, <2>4 DEF Contract!Next, Contract!Entry, Entry
<1>14. ASSUME NEW w \in Worker,
              Take(w) \/ SendErr(w) \/ Report(w) \/ Exit(w) \/ AwaitWorker(w)
       PROVE  UNCHANGED Contract!vars
  <2>1. worker[w] \notin {"off", "gone"} /\ UNCHANGED <<ctx, main, reader, fate>>
    BY <1>14 DEF Take, SendErr, Report, Exit, AwaitWorker
  <2>2. main = "wait"
    BY <2>1, WorkersRunInWait
  <2> QED  BY <1>1, <2>1, <2>2
<1>15. CASE UNCHANGED vars
  BY <1>1, <1>15 DEF vars
<1> QED  BY <1>3, <1>4, <1>5, <1>6, <1>8, <1>9, <1>10, <1>11, <1>12, <1>13, <1>14, <1>15
         DEF Next, MainStep, ReaderStep, WorkerStep

\* Every behaviour of the goroutines and channels of ProcessFiles is one that
\* the abstract specification of a batch allows.
THEOREM ContractKept == Spec => KeepsContract
BY ContractInit, ContractStep, InvariantHolds, AllAttemptedAlways,
   ErrorsFitBufferAlways, FinalReportExactAlways, PTL DEF Spec, KeepsContract, Contract!Spec

=============================================================================
