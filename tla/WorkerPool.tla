----------------------------- MODULE WorkerPool -----------------------------
(***************************************************************************)
(* OverwriteWorkflow.ProcessFiles and processWithConcurrency               *)
(* (src/workflow.go): the goroutine that reads the backlog, the feeder,    *)
(* the workers and the waiting caller, joined by the channels relPaths,    *)
(* workerChan, errChan and doneChan.                                       *)
(*                                                                         *)
(* A backlog entry is its position 1..Total: the code never compares two   *)
(* paths.  processFile is one step of its worker, with either result; the  *)
(* module FileLifecycle opens it up.  A select between ctx.Done() and a    *)
(* channel operation is two actions, both enabled when both are ready, as  *)
(* Go's select is.                                                         *)
(***************************************************************************)
EXTENDS Naturals, Sequences, FiniteSets

CONSTANTS
  Worker,         \* the worker goroutines: options.Concurrency of them
  Total,          \* entries in the backlog
  ReadBuffer,     \* capacity of the channel StartReading returns (100)
  ProgressEach,   \* options.ProgressEach, 0 for no periodic reports
  ReadMayFail     \* can the backlog reader break off, as the gzip one can?

ASSUME WorkerAssumption == IsFiniteSet(Worker) /\ Worker # {}
ASSUME TotalAssumption == Total \in Nat
ASSUME BufferAssumption == ReadBuffer \in Nat \ {0}
ASSUME ProgressAssumption == ProgressEach \in Nat
ASSUME FaultAssumption == ReadMayFail \in BOOLEAN

Concurrency == Cardinality(Worker)
Entry == 1..Total
NoEntry == 0

\* The capacities of workerChan and errChan.
WorkerBuffer == 2 * Concurrency
TighterBuffer == Concurrency - 1  \* mutant: room for one error fewer
ErrBuffer == Concurrency

VARIABLES
  ctx,         \* the caller's context, "live" or "done"
  main,        \* the goroutine that called ProcessFiles
  doneCount,   \* how many doneChan signals it has received
  reader,      \* the goroutine behind StartReading
  nextEntry,   \* the entry it sends next
  relPaths,    \* the channel it sends to
  feeder,      \* the goroutine that feeds the workers
  hand,        \* the entry the feeder holds
  workerChan,  \* the channel the workers share
  taken,       \* how many receives workerChan has served
  worker,      \* worker[w]: where the goroutine of worker w is
  job,         \* job[w]: the entry it is processing
  current,     \* current[w]: the count it is about to report
  errCount,    \* errors buffered in errChan; no goroutine receives from it
  fate,        \* fate[j]: how processFile ended for entry j
  processed,   \* the atomic counter of successes
  reports      \* the processed counts given to ProgressCallback, in order

mainVars == <<main, doneCount>>
readVars == <<reader, nextEntry>>
feedVars == <<feeder, hand>>
workVars == <<worker, job, current, errCount, fate, processed>>
vars == <<ctx, mainVars, readVars, relPaths, feedVars, workerChan, taken,
          workVars, reports>>

RelPathsClosed == reader \in {"done", "broken"}
WorkerChanClosed == feeder = "done"
Outcomes(result) == {j \in Entry : fate[j] = result}

CallerType ==
  /\ ctx \in {"live", "done"}
  /\ main \in {"count", "open", "wait", "returned", "aborted"}
  /\ doneCount \in 0..Concurrency

ReaderType ==
  /\ reader \in {"off", "reading", "done", "broken"}
  /\ nextEntry \in 1..(Total + 1)
  /\ relPaths \in Seq(Entry) /\ Len(relPaths) <= ReadBuffer

FeederType ==
  /\ feeder \in {"off", "recv", "send", "done"}
  /\ hand \in IF feeder = "send" THEN Entry ELSE {NoEntry}
  /\ workerChan \in Seq(Entry) /\ Len(workerChan) <= WorkerBuffer
  /\ taken \in Nat

WorkerType ==
  /\ worker \in [Worker ->
       {"off", "recv", "busy", "errSend", "report", "exit", "gone"}]
  /\ job \in [Worker -> Entry \union {NoEntry}]
  /\ current \in [Worker -> Nat]

ResultType ==
  /\ errCount \in 0..Concurrency
  /\ fate \in [Entry -> {"todo", "ok", "failed"}]
  /\ processed \in Nat
  /\ reports \in Seq(Nat)

TypeOK == CallerType /\ ReaderType /\ FeederType /\ WorkerType /\ ResultType

Init ==
  /\ ctx = "live"
  /\ main = "count" /\ doneCount = 0
  /\ reader = "off" /\ nextEntry = 1
  /\ relPaths = <<>>
  /\ feeder = "off" /\ hand = NoEntry
  /\ workerChan = <<>> /\ taken = 0
  /\ worker = [w \in Worker |-> "off"]
  /\ job = [w \in Worker |-> NoEntry]
  /\ current = [w \in Worker |-> 0]
  /\ errCount = 0
  /\ fate = [j \in Entry |-> "todo"]
  /\ processed = 0
  /\ reports = <<>>

-----------------------------------------------------------------------------
(* The caller *)

\* CountRelPaths; an error ends the call.
CountBacklog ==
  /\ main = "count"
  /\ main' \in {"open", "aborted"}
  /\ UNCHANGED <<ctx, doneCount, readVars, relPaths, feedVars, workerChan,
                 taken, workVars, reports>>

\* StartReading succeeds: its goroutine, the workers and the feeder start.
OpenBacklog ==
  /\ main = "open"
  /\ main' = "wait"
  /\ reader' = "reading"
  /\ feeder' = "recv" /\ hand' = NoEntry
  /\ worker' = [w \in Worker |-> "recv"]
  /\ UNCHANGED <<ctx, doneCount, nextEntry, relPaths, workerChan, taken, job,
                 current, errCount, fate, processed, reports>>

\* StartReading fails: the call ends before any goroutine is started.
OpenFails ==
  /\ main = "open"
  /\ main' = "aborted"
  /\ UNCHANGED <<ctx, doneCount, readVars, relPaths, feedVars, workerChan,
                 taken, workVars, reports>>

\* The rendezvous on doneChan: worker w's deferred send meets the caller.
AwaitWorker(w) ==
  /\ main = "wait" /\ doneCount < Concurrency
  /\ worker[w] = "exit"
  /\ doneCount' = doneCount + 1
  /\ worker' = [worker EXCEPT ![w] = "gone"]
  /\ UNCHANGED <<ctx, main, readVars, relPaths, feedVars, workerChan,
                 taken, job, current, errCount, fate, processed, reports>>

FewerSignalled == doneCount >= Concurrency - 1  \* mutant: one wait too few
AllSignalled == doneCount = Concurrency

\* After the last signal: the final progress report, then return nil.
FinalReport ==
  /\ main = "wait" /\ AllSignalled
  /\ reports' = Append(reports, processed)
  /\ main' = "returned"
  /\ UNCHANGED <<ctx, doneCount, readVars, relPaths, feedVars, workerChan,
                 taken, workVars>>

\* The caller's context is cancelled, at any moment.
Cancel ==
  /\ ctx = "live"
  /\ ctx' = "done"
  /\ UNCHANGED <<mainVars, readVars, relPaths, feedVars, workerChan, taken,
                 workVars, reports>>

-----------------------------------------------------------------------------
(* The backlog reader *)

\* The select of the reader's loop chooses to send the next entry.
ReadEntry ==
  /\ reader = "reading" /\ nextEntry <= Total
  /\ Len(relPaths) < ReadBuffer
  /\ relPaths' = Append(relPaths, nextEntry)
  /\ nextEntry' = nextEntry + 1
  /\ UNCHANGED <<ctx, mainVars, reader, feedVars, workerChan, taken,
                 workVars, reports>>

\* mutant: the reader's send has no ctx.Done() alternative.
ReadEndAtLastOnly ==
  /\ reader = "reading"
  /\ nextEntry > Total
  /\ reader' = "done"
  /\ UNCHANGED <<ctx, mainVars, nextEntry, relPaths, feedVars, workerChan,
                 taken, workVars, reports>>

\* The reader ends, closing relPaths: at the end of the backlog or, while an
\* entry is in its hands, because it noticed the cancellation.
ReadEnd ==
  /\ reader = "reading"
  /\ nextEntry > Total \/ ctx = "done"
  /\ reader' = "done"
  /\ UNCHANGED <<ctx, mainVars, nextEntry, relPaths, feedVars, workerChan,
                 taken, workVars, reports>>

\* The gzip reader's scanner stops on an error: it is logged, and the channel
\* is closed as if the backlog had ended.
ReadBreaks ==
  /\ ReadMayFail
  /\ reader = "reading"
  /\ reader' = "broken"
  /\ UNCHANGED <<ctx, mainVars, nextEntry, relPaths, feedVars, workerChan,
                 taken, workVars, reports>>

-----------------------------------------------------------------------------
(* The feeder *)

FeederRecv ==
  /\ feeder = "recv" /\ relPaths # <<>>
  /\ hand' = Head(relPaths)
  /\ relPaths' = Tail(relPaths)
  /\ feeder' = "send"
  /\ UNCHANGED <<ctx, mainVars, readVars, workerChan, taken, workVars,
                 reports>>

FeederSend ==
  /\ feeder = "send" /\ Len(workerChan) < WorkerBuffer
  /\ workerChan' = Append(workerChan, hand)
  /\ hand' = NoEntry
  /\ feeder' = "recv"
  /\ UNCHANGED <<ctx, mainVars, readVars, relPaths, taken, workVars,
                 reports>>

\* mutant: the feeder takes an empty channel for a closed one.
FeederEndWhenEmpty ==
  /\ \/ feeder = "recv" /\ relPaths = <<>>
     \/ feeder = "send" /\ ctx = "done"
  /\ feeder' = "done"
  /\ hand' = NoEntry
  /\ UNCHANGED <<ctx, mainVars, readVars, relPaths, workerChan, taken,
                 workVars, reports>>

\* relPaths is closed and drained, or the select takes ctx.Done() and the
\* entry in hand is dropped; either way workerChan is closed.
FeederEnd ==
  /\ \/ feeder = "recv" /\ relPaths = <<>> /\ RelPathsClosed
     \/ feeder = "send" /\ ctx = "done"
  /\ feeder' = "done"
  /\ hand' = NoEntry
  /\ UNCHANGED <<ctx, mainVars, readVars, relPaths, workerChan, taken,
                 workVars, reports>>

-----------------------------------------------------------------------------
(* The workers *)

Take(w) ==
  /\ worker[w] = "recv" /\ workerChan # <<>>
  /\ job' = [job EXCEPT ![w] = Head(workerChan)]
  /\ workerChan' = Tail(workerChan)
  /\ taken' = taken + 1
  /\ worker' = [worker EXCEPT ![w] = "busy"]
  /\ UNCHANGED <<ctx, mainVars, readVars, relPaths, feedVars, current,
                 errCount, fate, processed, reports>>

IsMilestone(n) == ProgressEach > 0 /\ n % ProgressEach = 0

\* processFile returns nil: the counter is incremented atomically, and the
\* worker goes to the callback only with a multiple of ProgressEach.
Succeed(w) ==
  /\ worker[w] = "busy"
  /\ fate' = [fate EXCEPT ![job[w]] = "ok"]
  /\ job' = [job EXCEPT ![w] = NoEntry]
  /\ processed' = processed + 1
  /\ \/ /\ IsMilestone(processed + 1)
        /\ worker' = [worker EXCEPT ![w] = "report"]
        /\ current' = [current EXCEPT ![w] = processed + 1]
     \/ /\ ~IsMilestone(processed + 1)
        /\ worker' = [worker EXCEPT ![w] = "recv"]
        /\ UNCHANGED current
  /\ UNCHANGED <<ctx, mainVars, readVars, relPaths, feedVars, workerChan,
                 taken, errCount, reports>>

\* mutant: the counter is incremented before the error is looked at.
FailCounted(w) ==
  /\ worker[w] = "busy"
  /\ fate' = [fate EXCEPT ![job[w]] = "failed"]
  /\ job' = [job EXCEPT ![w] = NoEntry]
  /\ processed' = processed + 1
  /\ worker' = [worker EXCEPT ![w] = "errSend"]
  /\ UNCHANGED <<ctx, mainVars, readVars, relPaths, feedVars, workerChan,
                 taken, current, errCount, reports>>

\* mutant: a worker puts a failed entry back into workerChan, for another try.
FailRequeued(w) ==
  /\ worker[w] = "busy" /\ Len(workerChan) < WorkerBuffer
  /\ fate' = [fate EXCEPT ![job[w]] = "failed"]
  /\ workerChan' = Append(workerChan, job[w])
  /\ job' = [job EXCEPT ![w] = NoEntry]
  /\ worker' = [worker EXCEPT ![w] = "errSend"]
  /\ UNCHANGED <<ctx, mainVars, readVars, relPaths, feedVars, taken, current, errCount,
                 processed, reports>>

\* processFile returns an error.
Fail(w) ==
  /\ worker[w] = "busy"
  /\ fate' = [fate EXCEPT ![job[w]] = "failed"]
  /\ job' = [job EXCEPT ![w] = NoEntry]
  /\ worker' = [worker EXCEPT ![w] = "errSend"]
  /\ UNCHANGED <<ctx, mainVars, readVars, relPaths, feedVars, workerChan,
                 taken, current, errCount, processed, reports>>

\* errChan <- err has no select: it waits for room, and only a receiver could
\* make room.
SendErr(w) ==
  /\ worker[w] = "errSend" /\ errCount < ErrBuffer
  /\ errCount' = errCount + 1
  /\ worker' = [worker EXCEPT ![w] = "recv"]
  /\ UNCHANGED <<ctx, mainVars, readVars, relPaths, feedVars, workerChan,
                 taken, job, current, fate, processed, reports>>

\* mutant: the callback is given the counter, not the worker's own count.
ReportReloaded(w) ==
  /\ worker[w] = "report"
  /\ reports' = Append(reports, processed)
  /\ current' = [current EXCEPT ![w] = 0]
  /\ worker' = [worker EXCEPT ![w] = "recv"]
  /\ UNCHANGED <<ctx, mainVars, readVars, relPaths, feedVars, workerChan,
                 taken, job, errCount, fate, processed>>

\* ProgressCallback(current, total), given the count this worker's own
\* increment returned.
Report(w) ==
  /\ worker[w] = "report"
  /\ reports' = Append(reports, current[w])
  /\ current' = [current EXCEPT ![w] = 0]
  /\ worker' = [worker EXCEPT ![w] = "recv"]
  /\ UNCHANGED <<ctx, mainVars, readVars, relPaths, feedVars, workerChan,
                 taken, job, errCount, fate, processed>>

\* The range over workerChan ends; the deferred send on doneChan is next.
Exit(w) ==
  /\ worker[w] = "recv" /\ workerChan = <<>> /\ WorkerChanClosed
  /\ worker' = [worker EXCEPT ![w] = "exit"]
  /\ UNCHANGED <<ctx, mainVars, readVars, relPaths, feedVars, workerChan,
                 taken, job, current, errCount, fate, processed, reports>>

-----------------------------------------------------------------------------
MainStep == CountBacklog \/ OpenBacklog \/ OpenFails \/ FinalReport
ReaderStep == ReadEntry \/ ReadEnd \/ ReadBreaks
FeederStep == FeederRecv \/ FeederSend \/ FeederEnd
WorkerStep(w) == \/ Take(w) \/ Succeed(w) \/ Fail(w) \/ SendErr(w)
                 \/ Report(w) \/ Exit(w) \/ AwaitWorker(w)

Next == \/ MainStep \/ ReaderStep \/ FeederStep \/ Cancel
        \/ \E w \in Worker : WorkerStep(w)

Spec == Init /\ [][Next]_vars

\* Every goroutine that can run is eventually run, and processFile returns. The
\* stream need not break.
Fairness == /\ WF_vars(MainStep) /\ WF_vars(ReadEntry \/ ReadEnd) /\ WF_vars(FeederStep)
            /\ \A w \in Worker : WF_vars(WorkerStep(w))

FairSpec == Spec /\ Fairness

-----------------------------------------------------------------------------
(* What the code must not do *)

\* A call that returns without having been cancelled, from a backlog that
\* was read to its end, has run processFile on every entry: none is lost in
\* relPaths, in the feeder's hand or in workerChan when the channels close
\* (the two range loops and their deferred closes, workflow.go:148-173).
AllAttempted ==
  main = "returned" /\ ctx = "live" /\ reader # "broken" => Outcomes("todo") = {}

\* The final progress callback comes after every other one in the sequence,
\* is given the number of successes, and no worker gave a larger number
\* (workflow.go:154-183: a plain read of the counter after the last signal).
FinalReportExact ==
  main = "returned" =>
    /\ reports # <<>>
    /\ reports[Len(reports)] = Cardinality(Outcomes("ok"))
    /\ \A i \in 1..Len(reports) : reports[i] <= reports[Len(reports)]

\* By then the workers have reported every multiple of ProgressEach up to
\* the number of successes, each exactly once, and nothing else, though not
\* necessarily in order (workflow.go:154-157).
MilestonesReportedOnce ==
  main = "returned" =>
    /\ \A i \in 1..(Len(reports) - 1) :
         reports[i] \in 1..processed /\ IsMilestone(reports[i])
    /\ \A n \in 1..processed : IsMilestone(n) =>
         \E i \in 1..(Len(reports) - 1) :
           reports[i] = n /\ \A k \in 1..(Len(reports) - 1) :
                               reports[k] = n => k = i

\* Nobody receives from errChan, so a call that returns has had no more
\* failures than the channel holds: a batch with more can never return
\* (workflow.go:134 and 151).
ErrorsFitBuffer ==
  main = "returned" => Cardinality(Outcomes("failed")) <= Concurrency

\* Once ProcessFiles has returned, no worker changes a file's fate or calls
\* the caller's callback any more (the doneChan count, workflow.go:176-178).
QuietAfterReturn ==
  [][main = "returned" => UNCHANGED <<fate, reports>>]_vars

\* ProcessFiles keeps BatchContract: each entry is settled at most once, only
\* while the call runs, and the call leaves entries undone only if excused.
Contract == INSTANCE BatchContract WITH
  phase <- IF main \in {"returned", "aborted"} THEN main ELSE "running",
  excused <- ctx = "done" \/ reader = "broken",
  announced <- IF main = "returned" THEN reports[Len(reports)] ELSE 0

KeepsContract == Contract!Spec

Ended == main \in {"returned", "aborted"}

\* The call ends, unless more files fail than errChan has room for.
EndsUnlessErrorsOverflow ==
  <>(Ended \/ Cardinality(Outcomes("failed")) > Concurrency)

\* A call that returns leaves no backlog reader blocked on a channel nobody
\* drains any more, even when the feeder stopped at a cancellation
\* (memory.go:134-138, gzip.go:207-211).
ReaderNotLeaked == main = "returned" ~> RelPathsClosed

\* "workflow should complete despite file errors" (workflow_test.go:540);
\* a file that fails does not stop the whole (plan/archtecture.md:304).
CompletesDespiteFileErrors == [](ctx = "live") => <>Ended
=============================================================================
