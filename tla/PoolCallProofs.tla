--------------------------- MODULE PoolCallProofs ---------------------------
(***************************************************************************)
(* A proof that the goroutines of WorkerPool make a processing call as     *)
(* BatchCycle has it, for any number of workers, any backlog and any       *)
(* sizes of the channels.                                                  *)
(***************************************************************************)
EXTENDS PoolCall, WorkerPoolProofs

\* The lines of the backlog are one for each entry (gzip.go:196-219).
LEMMA LinesAreEntries == Cycle!Lines = {LineOf(j) : j \in Entry}
<1>1. Cycle!LinesUpTo(Len(Name)) = {LineOf(j) : j \in Entry}
  <2>1. \A j \in Entry : Cycle!Names(Name[j]) = <<Name[j]>>
    BY DEF Cycle!Names
  <2>2. \A j \in Entry : Cycle!LinesOf(j) = {LineOf(j)}
    <3> TAKE j \in Entry
    <3>1. DOMAIN Cycle!Names(Name[j]) = {1} /\ Cycle!Names(Name[j])[1] = Name[j]
      BY <2>1
    <3> QED BY <3>1 DEF Cycle!LinesOf, LineOf
  <2>3. 1..Len(Name) = Entry BY NameAssumption DEF Entry
  <2> QED BY <2>2, <2>3 DEF Cycle!LinesUpTo
<1> QED BY <1>1 DEF Cycle!Lines

\* Each entry has a line and a path of its own.
LEMMA LinesDiffer ==
  ASSUME NEW i \in Entry, NEW j \in Entry, i # j
  PROVE  LineOf(i) # LineOf(j) /\ Name[i] # Name[j]
<1>1. LineOf(i).entry = i /\ LineOf(j).entry = j BY DEF LineOf
<1> QED BY <1>1, NameAssumption

\* There are never more failures than entries; nothing but a failure and an early end
\* uses up what may go wrong.
LEMMA FaultsEnough ==
  ASSUME IInv
  PROVE  /\ CallErrors \in 0..Total
         /\ Outcomes("todo") # {} => CallErrors < Total
         /\ Outcomes("todo") # {} /\ ~Stopped => CallFaultsLeft > 1
         /\ ~Stopped => CallFaultsLeft > 0
<1>1. Outcomes("failed") \subseteq Entry /\ IsFiniteSet(Entry) /\ Cardinality(Entry) = Total
  BY TotalAssumption, FS_Interval DEF Outcomes, Entry
<1>2. CallErrors \in 0..Total
  BY <1>1, FS_Subset, FiniteSets, TotalAssumption DEF CallErrors
<1>3. Outcomes("todo") # {} => CallErrors < Total
  <2>1. SUFFICES ASSUME Outcomes("todo") # {}, CallErrors >= Total PROVE FALSE
    BY <1>2, TotalAssumption
  <2>2. Outcomes("failed") = Entry
    BY <1>1, <1>2, <2>1, FS_Subset, TotalAssumption DEF CallErrors
  <2> QED BY <2>1, <2>2 DEF Outcomes
<1> QED BY <1>2, <1>3, TotalAssumption DEF CallFaultsLeft

\* A step that leaves the caller and the files' fates alone is none of BatchCycle's.
LEMMA CallStutter ==
  ASSUME UNCHANGED <<main, fate>>
  PROVE  UNCHANGED Cycle!vars
<1>1. \A result : Outcomes(result)' = Outcomes(result) BY DEF Outcomes
<1>2. UNCHANGED <<CallProc, CallTodo, CallErrors, CallNeeds, CallFaultsLeft>>
  BY <1>1 DEF CallProc, CallTodo, CallErrors, CallNeeds, CallFaultsLeft, Stopped
<1> QED BY <1>2 DEF Cycle!vars, Cycle!backlog, Cycle!scanning, Cycle!processing

\* What a worker's file leaves of the lists when its fate is known.
LEMMA FateStep ==
  ASSUME IInv, NEW w \in Worker, worker[w] = "busy", NEW result \in {"ok", "failed"},
         fate' = [fate EXCEPT ![job[w]] = result], main' = main
  PROVE  /\ job[w] \in Outcomes("todo") /\ main = "wait"
         /\ CallTodo' = CallTodo \ {LineOf(job[w])} /\ LineOf(job[w]) \in CallTodo
         /\ result = "ok" => CallNeeds' = CallNeeds \ {Name[job[w]]} /\ CallErrors' = CallErrors
         /\ result = "failed" => CallNeeds' = CallNeeds /\ CallErrors' = CallErrors + 1
<1>1. /\ job[w] \in Entry /\ fate[job[w]] = "todo"
      /\ fate \in [Entry -> {"todo", "ok", "failed"}]
  BY DEF IInv, Jobs, TypeOK, ResultType
<1>2. main = "wait" BY WorkersRunInWait
<1>3. Outcomes("todo")' = Outcomes("todo") \ {job[w]} /\ job[w] \in Outcomes("todo")
  BY <1>1 DEF Outcomes
<1>4. CallTodo' = CallTodo \ {LineOf(job[w])} /\ LineOf(job[w]) \in CallTodo
  <2>1. \A j \in Outcomes("todo") : j # job[w] => LineOf(j) # LineOf(job[w])
    BY <1>1, LinesDiffer DEF Outcomes
  <2> QED BY <1>2, <1>3, <2>1 DEF CallTodo
<1>5. CASE result = "ok"
  <2>1. Outcomes("ok")' = Outcomes("ok") \union {job[w]} BY <1>1, <1>5 DEF Outcomes
  <2>2. Outcomes("failed")' = Outcomes("failed") BY <1>1, <1>5 DEF Outcomes
  <2>3. CallNeeds' = CallNeeds \ {Name[job[w]]}
    <3>1. \A j \in Entry : j # job[w] => Name[j] # Name[job[w]] BY <1>1, LinesDiffer
    <3> QED BY <2>1, <3>1 DEF CallNeeds
  <2> QED BY <1>2, <1>3, <1>4, <1>5, <2>2, <2>3 DEF CallErrors
<1>6. CASE result = "failed"
  <2>1. Outcomes("ok")' = Outcomes("ok") BY <1>1, <1>6 DEF Outcomes
  <2>2. Outcomes("failed")' = Outcomes("failed") \union {job[w]}
        /\ job[w] \notin Outcomes("failed")
    BY <1>1, <1>6 DEF Outcomes
  <2>3. CallErrors' = CallErrors + 1 BY <2>2, FiniteSets, FS_AddElement DEF CallErrors
  <2> QED BY <1>2, <1>3, <1>4, <1>6, <2>1, <2>3 DEF CallNeeds
<1> QED BY <1>5, <1>6

LEMMA CallInit == Init => CallProc = "idle"
BY DEF Init, CallProc

\* Every step of a goroutine is a step of the call or none (workflow.go:104-187).
LEMMA CallStep ==
  IInv /\ AllAttempted' /\ ErrorsFitBuffer' /\ [Next]_vars => [Calls]_(Cycle!vars)
<1> SUFFICES ASSUME IInv, AllAttempted', ErrorsFitBuffer', [Next]_vars
             PROVE  Calls \/ UNCHANGED Cycle!vars
  OBVIOUS
<1> USE DEF mainVars, readVars, feedVars, workVars, Cycle!backlog, Cycle!scanning,
            Cycle!processing
<1>0. /\ TypeOK /\ Phases
      /\ main \in {"count", "open", "wait", "returned", "aborted"} /\ ctx \in {"live", "done"}
  BY DEF IInv, TypeOK, CallerType
<1>1. CASE UNCHANGED <<main, fate>> BY <1>1, CallStutter
\* What stays when only the caller moves.
<1>2. ASSUME fate' = fate
      PROVE  /\ \A result : Outcomes(result)' = Outcomes(result)
             /\ UNCHANGED <<CallErrors, CallNeeds>>
             /\ ~Stopped /\ Stopped' => CallFaultsLeft' = CallFaultsLeft - 1
             /\ ~Stopped /\ ~Stopped' => CallFaultsLeft' = CallFaultsLeft
  <2>1. \A result : Outcomes(result)' = Outcomes(result) BY <1>2 DEF Outcomes
  <2>2. UNCHANGED <<CallErrors, CallNeeds>> BY <2>1 DEF CallErrors, CallNeeds
  <2>3. CallErrors \in 0..Total BY FaultsEnough
  <2> QED BY <2>1, <2>2, <2>3, TotalAssumption DEF CallFaultsLeft
<1>3. ASSUME main \in {"count", "open"}, main' = "aborted", fate' = fate
      PROVE  Calls
  <2>1. ~Stopped /\ Stopped' BY <1>3 DEF Stopped
  <2>2. CallFaultsLeft > 0 /\ CallFaultsLeft' = CallFaultsLeft - 1
    BY <1>2, <1>3, <2>1, FaultsEnough
  <2>3. /\ CallProc = (IF main = "count" THEN "idle" ELSE "counted") /\ CallProc' = "idle"
        /\ CallTodo = {} /\ CallTodo' = {}
    BY <1>3 DEF CallProc, CallTodo
  <2>4. Cycle!GiveUp
    BY <1>2, <1>3, <2>2, <2>3 DEF Cycle!GiveUp, Cycle!Fault
  <2> QED BY <2>4 DEF Calls
<1>4. CASE CountBacklog
  <2>1. CASE main' = "aborted" BY <1>3, <1>4, <2>1 DEF CountBacklog
  <2>2. CASE main' = "open"
    <3>1. /\ CallProc = "idle" /\ CallProc' = "counted" /\ CallTodo = {} /\ CallTodo' = {}
          /\ ~Stopped /\ ~Stopped' /\ fate' = fate
      BY <1>4, <2>2 DEF CountBacklog, CallProc, CallTodo, Stopped
    <3>2. (main \in {"wait", "returned"})' = (main \in {"wait", "returned"})
      BY <1>4, <2>2 DEF CountBacklog
    <3>3. UNCHANGED <<CallErrors, CallNeeds, CallFaultsLeft>> BY <1>2, <3>1
    <3>4. Cycle!Count
      BY <3>1, <3>2, <3>3, Zenon DEF Cycle!Count, Cycle!Apart, Cycle!CountSucceeds
    <3> QED BY <3>4 DEF Calls
  <2> QED BY <1>4, <2>1, <2>2 DEF CountBacklog
<1>5. CASE OpenFails BY <1>3, <1>5 DEF OpenFails
<1>6. CASE OpenBacklog
  <2>1. main = "open" /\ main' = "wait" /\ fate' = fate BY <1>6 DEF OpenBacklog
  <2>2. CallProc = "counted" /\ CallProc' = "reading" /\ ~Stopped /\ ~Stopped'
    BY <2>1 DEF CallProc, Stopped
  <2>3. Outcomes("todo") = Entry /\ Outcomes("failed") = {}
    BY <1>0, <2>1 DEF Phases, Outcomes
  <2>4. CallTodo' = Cycle!Lines BY <1>2, <2>1, <2>3, LinesAreEntries DEF CallTodo
  <2>5. CallErrors' = 0 BY <1>2, <2>1, <2>3, FS_EmptySet DEF CallErrors
  <2>6. /\ (main \in {"wait", "returned"}) = FALSE
        /\ (main' \in {"wait", "returned"}) = TRUE
    BY <2>1
  <2>7. UNCHANGED <<CallNeeds, CallFaultsLeft>> BY <1>2, <2>1, <2>2
  <2>8. Cycle!StartReading BY <2>2, <2>4, <2>5, <2>6, <2>7, Zenon DEF Cycle!StartReading
  <2> QED BY <2>8 DEF Calls, Cycle!Processing
<1>7. CASE FinalReport
  <2>1. main = "wait" /\ main' = "returned" /\ fate' = fate BY <1>7 DEF FinalReport
  <2>2. CallProc = "reading" /\ CallProc' = "idle" /\ CallTodo' = {} /\ ~Stopped
    BY <2>1 DEF CallProc, CallTodo, Stopped
  <2>3. CallErrors <= Concurrency
    BY <1>2, <2>1 DEF ErrorsFitBuffer, CallErrors
  <2>4. CASE Outcomes("todo") = {}
    <3>1. ~Stopped' BY <1>2, <2>1, <2>4 DEF Stopped
    <3>2. CallTodo = {} BY <2>4 DEF CallTodo
    <3>3. UNCHANGED <<CallErrors, CallNeeds, CallFaultsLeft>> BY <1>2, <2>1, <2>2, <3>1
    <3>4. (main' \in {"wait", "returned"}) = (main \in {"wait", "returned"}) BY <2>1
    <3>5. Cycle!ProcessingEnds
      BY <2>2, <2>3, <3>2, <3>3, <3>4, Zenon DEF Cycle!ProcessingEnds
    <3> QED BY <3>5 DEF Calls, Cycle!Processing
  <2>5. CASE Outcomes("todo") # {}
    <3>1. Stopped' BY <1>2, <2>1, <2>5 DEF Stopped
    <3>2. CallFaultsLeft > 0 /\ CallFaultsLeft' = CallFaultsLeft - 1
      BY <1>2, <2>1, <2>2, <3>1, FaultsEnough
    <3> QED
      BY <1>2, <2>1, <2>2, <2>3, <3>2
      DEF Cycle!ProcessingEnds, Cycle!Fault, Calls, Cycle!Processing
  <2> QED BY <2>4, <2>5
<1>8. ASSUME NEW w \in Worker, Succeed(w) \/ Fail(w) PROVE Calls
  <2>1. worker[w] = "busy" /\ main' = main BY <1>8 DEF Succeed, Fail
  <2>2. PICK result \in {"ok", "failed"} : fate' = [fate EXCEPT ![job[w]] = result]
    BY <1>8 DEF Succeed, Fail
  <2> DEFINE line == LineOf(job[w])
  <2>3. /\ job[w] \in Outcomes("todo") /\ main = "wait"
        /\ CallTodo' = CallTodo \ {line} /\ line \in CallTodo
        /\ result = "ok" => CallNeeds' = CallNeeds \ {Name[job[w]]} /\ CallErrors' = CallErrors
        /\ result = "failed" => CallNeeds' = CallNeeds /\ CallErrors' = CallErrors + 1
    BY <2>1, <2>2, FateStep
  <2>4. line.name = Name[job[w]] /\ line.name \in {Name[j] : j \in Entry}
    BY <2>3 DEF LineOf, Outcomes
  <2>5. CallProc = "reading" /\ CallProc' = "reading" /\ ~Stopped /\ ~Stopped'
    BY <2>1, <2>3 DEF CallProc, Stopped
  <2>6. Cycle!WorkerLeft BY <2>1, BusyWorkerLeft DEF Cycle!WorkerLeft, CallErrors
  <2>7. CallFaultsLeft > 0 /\ CallErrors \in 0..Total BY <2>5, FaultsEnough
  <2>8. CASE result = "ok"
    <3>1. CallFaultsLeft' = CallFaultsLeft BY <2>3, <2>5, <2>8 DEF CallFaultsLeft
    <3>2. Cycle!Process
      BY <2>1, <2>3, <2>4, <2>5, <2>6, <2>8, <3>1 DEF Cycle!Process
    <3> QED BY <3>2 DEF Calls, Cycle!Processing
  <2>9. CASE result = "failed"
    <3>1. CallFaultsLeft' = CallFaultsLeft - 1
      BY <2>3, <2>5, <2>7, <2>9, TotalAssumption DEF CallFaultsLeft
    <3>2. Cycle!ProcessFails
      BY <2>1, <2>3, <2>4, <2>5, <2>6, <2>7, <2>9, <3>1 DEF Cycle!ProcessFails, Cycle!Fault
    <3> QED BY <3>2 DEF Calls, Cycle!Processing
  <2> QED BY <2>8, <2>9
<1>9. CASE Cancel \/ ReaderStep \/ FeederStep \/ UNCHANGED vars
  BY <1>1, <1>9
  DEF Cancel, ReaderStep, ReadEntry, ReadEnd, ReadBreaks, FeederStep, FeederRecv, FeederSend,
      FeederEnd, vars
<1>10. ASSUME NEW w \in Worker,
              Take(w) \/ SendErr(w) \/ Report(w) \/ Exit(w) \/ AwaitWorker(w)
       PROVE  Calls \/ UNCHANGED Cycle!vars
  BY <1>1, <1>10 DEF Take, SendErr, Report, Exit, AwaitWorker
<1> QED
  BY <1>4, <1>5, <1>6, <1>7, <1>8, <1>9, <1>10 DEF Next, MainStep, WorkerStep

\* BatchCycle assumes of ProcessFiles what its goroutines do.
THEOREM IsCallAlways == Spec => IsCall
<1>1. IInv /\ AllAttempted' /\ ErrorsFitBuffer' /\ [Next]_vars => [Calls]_(Cycle!vars)
  BY CallStep
<1> QED
  BY <1>1, CallInit, InvariantHolds, AllAttemptedAlways, ErrorsFitBufferAlways, PTL
  DEF Spec, IsCall
=============================================================================
