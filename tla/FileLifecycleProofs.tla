------------------------- MODULE FileLifecycleProofs -------------------------
(***************************************************************************)
(* Proofs about FileLifecycle for every number of retries, every set of    *)
(* faults and either store.  The invariant IInv is stated there.           *)
(***************************************************************************)
EXTENDS FileLifecycle, TLAPS

USE DEF Minimal, Unknown, Done

\* The types of the file, the record and the batch (status/memory.go:20-30 and
\* workflow.go:190-247) are kept by every step.
LEMMA TypeStep == TypeOK /\ [Next]_vars => TypeOK'
<1> SUFFICES ASSUME TypeOK, [Next]_vars PROVE TypeOK'
  OBVIOUS
<1> USE RetryAssumption, BoundAssumption
<1> USE DEF TypeOK, Contents, Record, Write, Here, file, store, run, faults, Fault, EndAttempt
<1>1. CASE List BY <1>1 DEF List
<1>2. CASE Skip BY <1>2 DEF Skip
<1>3. CASE LookupFails BY <1>3 DEF LookupFails
<1>4. CASE Abandon BY <1>4 DEF Abandon
<1>5. CASE Begin BY <1>5 DEF Begin
<1>6. CASE Stat BY <1>6 DEF Stat
<1>7. CASE Download BY <1>7 DEF Download
<1>8. CASE DownloadFails BY <1>8 DEF DownloadFails
<1>9. CASE ProcessFails BY <1>9 DEF ProcessFails
<1>10. CASE ProcessSkips BY <1>10 DEF ProcessSkips
<1>11. CASE Process BY <1>11 DEF Process
<1>12. CASE Upload BY <1>12 DEF Upload, Processed
<1>13. CASE UploadFails BY <1>13 DEF UploadFails, Processed
<1>14. CASE StatAgain BY <1>14 DEF StatAgain
<1>15. CASE StatAgainFails BY <1>15 DEF StatAgainFails
<1>16. CASE Retry BY <1>16 DEF Retry
<1>17. CASE NextAttempt BY <1>17 DEF NextAttempt
<1>18. CASE DelayCancelled BY <1>18 DEF DelayCancelled
<1>19. CASE ReportError BY <1>19 DEF ReportError, Store
<1>25. CASE ReportReject BY <1>25 DEF ReportReject, Store
<1>20. CASE ReportDone BY <1>20 DEF ReportDone, Store
<1>21. CASE Cancel BY <1>21 DEF Cancel
<1>22. CASE Crash BY <1>22 DEF Crash, EndProcess, Processed
<1>26. CASE PowerLoss BY <1>26 DEF PowerLoss, EndProcess
<1>27. CASE Sync BY <1>27 DEF Sync
<1>28. CASE Clear BY <1>28 DEF Clear
<1>29. CASE Close BY <1>29 DEF Close
<1>30. CASE Panic BY <1>30 DEF Panic, EndProcess
<1>23. CASE ForeignWrite BY <1>23 DEF ForeignWrite
<1>24. CASE UNCHANGED vars BY <1>24 DEF vars
<1> QED
  BY <1>1, <1>2, <1>3, <1>4, <1>5, <1>6, <1>7, <1>8, <1>9, <1>10, <1>11, <1>12,
     <1>13, <1>14, <1>15, <1>16, <1>17, <1>18, <1>19, <1>20, <1>21, <1>22,
     <1>23, <1>24, <1>25, <1>26, <1>27, <1>28, <1>29, <1>30
  DEF Next, Filter, Attempt, Finish, Failing, World

\* A listing or a report never runs ahead of the file, and a file being worked
\* on or given up is not recorded as done at its version (workflow.go:190-247
\* with status/memory.go:103-169).
LEMMA RecordStep ==
  TypeOK /\ Known /\ Pending /\ Unfinished /\ [Next]_vars
    => Known' /\ Pending' /\ Unfinished'
<1> SUFFICES ASSUME TypeOK, Known, Pending, Unfinished, [Next]_vars
             PROVE Known' /\ Pending' /\ Unfinished'
  OBVIOUS
<1> USE RetryAssumption
<1> USE DEF TypeOK, Contents, Record, Write, Here, Known, Pending, Unfinished, file, store, run, faults, Fault,
            EndAttempt
<1>1. CASE List BY <1>1 DEF List
<1>2. CASE Skip BY <1>2 DEF Skip, NeedsProcessing
<1>3. CASE LookupFails BY <1>3 DEF LookupFails
<1>4. CASE Abandon BY <1>4 DEF Abandon
<1>5. CASE Begin BY <1>5 DEF Begin, NeedsProcessing
<1>6. CASE Stat BY <1>6 DEF Stat
<1>7. CASE Download BY <1>7 DEF Download
<1>8. CASE DownloadFails BY <1>8 DEF DownloadFails
<1>9. CASE ProcessFails BY <1>9 DEF ProcessFails
<1>10. CASE ProcessSkips BY <1>10 DEF ProcessSkips
<1>11. CASE Process BY <1>11 DEF Process
<1>12. CASE Upload BY <1>12 DEF Upload, Processed
<1>13. CASE UploadFails BY <1>13 DEF UploadFails, Processed
<1>14. CASE StatAgain BY <1>14 DEF StatAgain
<1>15. CASE StatAgainFails BY <1>15 DEF StatAgainFails
<1>16. CASE Retry BY <1>16 DEF Retry
<1>17. CASE NextAttempt BY <1>17 DEF NextAttempt
<1>18. CASE DelayCancelled BY <1>18 DEF DelayCancelled
<1>19. CASE ReportError BY <1>19 DEF ReportError, Store
<1>25. CASE ReportReject BY <1>25 DEF ReportReject, Store
<1>20. CASE ReportDone BY <1>20 DEF ReportDone, Store
<1>21. CASE Cancel BY <1>21 DEF Cancel
<1>22. CASE Crash BY <1>22 DEF Crash, EndProcess, Processed
<1>26. CASE PowerLoss BY <1>26 DEF PowerLoss, EndProcess
<1>27. CASE Sync BY <1>27 DEF Sync
<1>28. CASE Clear BY <1>28 DEF Clear
<1>29. CASE Close BY <1>29 DEF Close
<1>30. CASE Panic BY <1>30 DEF Panic, EndProcess
<1>23. CASE ForeignWrite BY <1>23 DEF ForeignWrite
<1>24. CASE UNCHANGED vars BY <1>24 DEF vars
<1> QED
  BY <1>1, <1>2, <1>3, <1>4, <1>5, <1>6, <1>7, <1>8, <1>9, <1>10, <1>11, <1>12,
     <1>13, <1>14, <1>15, <1>16, <1>17, <1>18, <1>19, <1>20, <1>21, <1>22, <1>23, <1>24,
     <1>25, <1>26, <1>27, <1>28, <1>29, <1>30
  DEF Next, Filter, Attempt, Finish, Failing, World

\* What LevelDB has on disk never says of a file that it is done when the record
\* does not (status/leveldb.go:36-38 and 133-193).
LEMMA SyncedStep ==
  TypeOK /\ Known /\ Pending /\ Synced /\ [Next]_vars => Synced'
<1> SUFFICES ASSUME TypeOK, Known, Pending, Synced, [Next]_vars PROVE Synced'
  OBVIOUS
<1> USE RetryAssumption, StoreAssumption
<1> USE DEF TypeOK, Contents, Record, Write, Here, Known, Pending, Synced, file, store, run, faults, Fault,
            EndAttempt
<1>1. CASE List BY <1>1 DEF List
<1>2. CASE Skip BY <1>2 DEF Skip, NeedsProcessing
<1>3. CASE LookupFails BY <1>3 DEF LookupFails
<1>4. CASE Abandon BY <1>4 DEF Abandon
<1>5. CASE Begin BY <1>5 DEF Begin, NeedsProcessing
<1>6. CASE Stat BY <1>6 DEF Stat
<1>7. CASE Download BY <1>7 DEF Download
<1>8. CASE DownloadFails BY <1>8 DEF DownloadFails
<1>9. CASE ProcessFails BY <1>9 DEF ProcessFails
<1>10. CASE ProcessSkips BY <1>10 DEF ProcessSkips
<1>11. CASE Process BY <1>11 DEF Process
<1>12. CASE Upload BY <1>12 DEF Upload, Processed
<1>13. CASE UploadFails BY <1>13 DEF UploadFails, Processed
<1>14. CASE StatAgain BY <1>14 DEF StatAgain
<1>15. CASE StatAgainFails BY <1>15 DEF StatAgainFails
<1>16. CASE Retry BY <1>16 DEF Retry
<1>17. CASE NextAttempt BY <1>17 DEF NextAttempt
<1>18. CASE DelayCancelled BY <1>18 DEF DelayCancelled
<1>19. CASE ReportError BY <1>19 DEF ReportError, Store
<1>25. CASE ReportReject BY <1>25 DEF ReportReject, Store
<1>20. CASE ReportDone BY <1>20 DEF ReportDone, Store
<1>21. CASE Cancel BY <1>21 DEF Cancel
<1>22. CASE Crash BY <1>22 DEF Crash, EndProcess, Processed
<1>26. CASE PowerLoss BY <1>26 DEF PowerLoss, EndProcess
<1>27. CASE Sync BY <1>27 DEF Sync
<1>28. CASE Clear BY <1>28 DEF Clear
<1>29. CASE Close BY <1>29 DEF Close
<1>30. CASE Panic BY <1>30 DEF Panic, EndProcess
<1>23. CASE ForeignWrite BY <1>23 DEF ForeignWrite
<1>24. CASE UNCHANGED vars BY <1>24 DEF vars
<1> QED
  BY <1>1, <1>2, <1>3, <1>4, <1>5, <1>6, <1>7, <1>8, <1>9, <1>10, <1>11, <1>12,
     <1>13, <1>14, <1>15, <1>16, <1>17, <1>18, <1>19, <1>20, <1>21, <1>22, <1>23, <1>24,
     <1>25, <1>26, <1>27, <1>28, <1>29, <1>30
  DEF Next, Filter, Attempt, Finish, Failing, World

\* As long as nobody else writes the file, what a batch takes for the FileInfo of
\* what it uploads is the file's own (local.go:287-301, workflow.go:239-244).
LEMMA CurrentStep ==
  TypeOK /\ Known /\ Current /\ [Next]_vars => Current'
<1> SUFFICES ASSUME TypeOK, Known, Current, [Next]_vars, "writer" \notin happened'
             PROVE Current'
  BY DEF Current
<1> USE RetryAssumption
<1> USE DEF TypeOK, Contents, Record, Write, Here, Known, Current, DoneIsProcessed, Settled, SettledAs,
            NeedsProcessing, file, store, run, faults, Fault, EndAttempt
<1>1. CASE List BY <1>1 DEF List
<1>2. CASE Skip BY <1>2 DEF Skip, NeedsProcessing
<1>3. CASE LookupFails BY <1>3 DEF LookupFails
<1>4. CASE Abandon BY <1>4 DEF Abandon
<1>5. CASE Begin BY <1>5 DEF Begin, NeedsProcessing
<1>6. CASE Stat BY <1>6 DEF Stat
<1>7. CASE Download BY <1>7 DEF Download
<1>8. CASE DownloadFails BY <1>8 DEF DownloadFails
<1>9. CASE ProcessFails BY <1>9 DEF ProcessFails
<1>10. CASE ProcessSkips BY <1>10 DEF ProcessSkips
<1>11. CASE Process BY <1>11 DEF Process
<1>12. CASE Upload BY <1>12 DEF Upload, Processed
<1>13. CASE UploadFails BY <1>13 DEF UploadFails, Processed
<1>14. CASE StatAgain BY <1>14 DEF StatAgain
<1>15. CASE StatAgainFails BY <1>15 DEF StatAgainFails
<1>16. CASE Retry BY <1>16 DEF Retry
<1>17. CASE NextAttempt BY <1>17 DEF NextAttempt
<1>18. CASE DelayCancelled BY <1>18 DEF DelayCancelled
<1>19. CASE ReportError BY <1>19 DEF ReportError, Store
<1>25. CASE ReportReject BY <1>25 DEF ReportReject, Store
<1>20. CASE ReportDone BY <1>20 DEF ReportDone, Store
<1>21. CASE Cancel BY <1>21 DEF Cancel
<1>22. CASE Crash BY <1>22 DEF Crash, EndProcess, Processed
<1>26. CASE PowerLoss BY <1>26 DEF PowerLoss, EndProcess
<1>27. CASE Sync BY <1>27 DEF Sync
<1>28. CASE Clear BY <1>28 DEF Clear
<1>29. CASE Close BY <1>29 DEF Close
<1>30. CASE Panic BY <1>30 DEF Panic, EndProcess
<1>23. CASE ForeignWrite BY <1>23 DEF ForeignWrite
<1>24. CASE UNCHANGED vars BY <1>24 DEF vars
<1> QED
  BY <1>1, <1>2, <1>3, <1>4, <1>5, <1>6, <1>7, <1>8, <1>9, <1>10, <1>11, <1>12,
     <1>13, <1>14, <1>15, <1>16, <1>17, <1>18, <1>19, <1>20, <1>21, <1>22, <1>23, <1>24,
     <1>25, <1>26, <1>27, <1>28, <1>29, <1>30
  DEF Next, Filter, Attempt, Finish, Failing, World

\* In a batch without a fault nothing fails, and the FileInfo in hand is the file's own
\* from the listing to the record (local.go:184-301, workflow.go:190-247).
LEMMA SmoothStep ==
  TypeOK /\ Known /\ Smooth /\ [Next]_vars => Smooth'
<1> SUFFICES ASSUME TypeOK, Known, Smooth, [Next]_vars, course' = "smooth"
             PROVE Smooth'
  BY DEF Smooth
<1> USE RetryAssumption
<1> USE DEF TypeOK, Contents, Record, Write, Here, Known, Smooth, SmoothBatchSettles,
            NeedsProcessing, file, store, run, faults, Fault, EndAttempt
<1>1. CASE List BY <1>1 DEF List
<1>2. CASE Skip BY <1>2 DEF Skip, NeedsProcessing
<1>3. CASE LookupFails BY <1>3 DEF LookupFails
<1>4. CASE Abandon BY <1>4 DEF Abandon
<1>5. CASE Begin BY <1>5 DEF Begin, NeedsProcessing
<1>6. CASE Stat BY <1>6 DEF Stat
<1>7. CASE Download BY <1>7 DEF Download
<1>8. CASE DownloadFails BY <1>8 DEF DownloadFails
<1>9. CASE ProcessFails BY <1>9 DEF ProcessFails
<1>10. CASE ProcessSkips BY <1>10 DEF ProcessSkips
<1>11. CASE Process BY <1>11 DEF Process
<1>12. CASE Upload BY <1>12 DEF Upload, Processed
<1>13. CASE UploadFails BY <1>13 DEF UploadFails, Processed
<1>14. CASE StatAgain BY <1>14 DEF StatAgain
<1>15. CASE StatAgainFails BY <1>15 DEF StatAgainFails
<1>16. CASE Retry BY <1>16 DEF Retry
<1>17. CASE NextAttempt BY <1>17 DEF NextAttempt
<1>18. CASE DelayCancelled BY <1>18 DEF DelayCancelled
<1>19. CASE ReportError BY <1>19 DEF ReportError, Store
<1>25. CASE ReportReject BY <1>25 DEF ReportReject, Store
<1>20. CASE ReportDone BY <1>20 DEF ReportDone, Store
<1>21. CASE Cancel BY <1>21 DEF Cancel
<1>22. CASE Crash BY <1>22 DEF Crash, EndProcess, Processed
<1>26. CASE PowerLoss BY <1>26 DEF PowerLoss, EndProcess
<1>27. CASE Sync BY <1>27 DEF Sync
<1>28. CASE Clear BY <1>28 DEF Clear
<1>29. CASE Close BY <1>29 DEF Close
<1>30. CASE Panic BY <1>30 DEF Panic, EndProcess
<1>23. CASE ForeignWrite BY <1>23 DEF ForeignWrite
<1>24. CASE UNCHANGED vars BY <1>24 DEF vars
<1> QED
  BY <1>1, <1>2, <1>3, <1>4, <1>5, <1>6, <1>7, <1>8, <1>9, <1>10, <1>11, <1>12,
     <1>13, <1>14, <1>15, <1>16, <1>17, <1>18, <1>19, <1>20, <1>21, <1>22, <1>23, <1>24,
     <1>25, <1>26, <1>27, <1>28, <1>29, <1>30
  DEF Next, Filter, Attempt, Finish, Failing, World

\* While failures come before the upload, an output is never downloaded: its record
\* is on the way or there (local.go:254-301, workflow.go:237-244).
LEMMA OnceStep ==
  TypeOK /\ Known /\ Once /\ [Next]_vars => Once'
<1> SUFFICES ASSUME TypeOK, Known, Once, [Next]_vars, Undisturbed'
             PROVE Once'
  BY DEF Once
<1> USE RetryAssumption
<1> USE DEF TypeOK, Contents, Record, Write, Here, Known, Once, Undisturbed, NeedsProcessing, file, store, run,
            faults, Fault, EndAttempt
<1>1. CASE List BY <1>1 DEF List
<1>2. CASE Skip BY <1>2 DEF Skip, NeedsProcessing
<1>3. CASE LookupFails BY <1>3 DEF LookupFails
<1>4. CASE Abandon BY <1>4 DEF Abandon
<1>5. CASE Begin BY <1>5 DEF Begin, NeedsProcessing
<1>6. CASE Stat BY <1>6 DEF Stat
<1>7. CASE Download BY <1>7 DEF Download
<1>8. CASE DownloadFails BY <1>8 DEF DownloadFails
<1>9. CASE ProcessFails BY <1>9 DEF ProcessFails
<1>10. CASE ProcessSkips BY <1>10 DEF ProcessSkips
<1>11. CASE Process BY <1>11 DEF Process
<1>12. CASE Upload BY <1>12 DEF Upload, Processed
<1>13. CASE UploadFails BY <1>13 DEF UploadFails, Processed
<1>14. CASE StatAgain BY <1>14 DEF StatAgain
<1>15. CASE StatAgainFails BY <1>15 DEF StatAgainFails
<1>16. CASE Retry BY <1>16 DEF Retry
<1>17. CASE NextAttempt BY <1>17 DEF NextAttempt
<1>18. CASE DelayCancelled BY <1>18 DEF DelayCancelled
<1>19. CASE ReportError BY <1>19 DEF ReportError, Store
<1>25. CASE ReportReject BY <1>25 DEF ReportReject, Store
<1>20. CASE ReportDone
  <2>1. record' = Done(seen) /\ UNCHANGED <<faults, db, link>>
    BY <1>20 DEF ReportDone, Store
  <2> QED BY <1>20, <2>1 DEF ReportDone
<1>21. CASE Cancel BY <1>21 DEF Cancel
<1>22. CASE Crash BY <1>22 DEF Crash, EndProcess, Processed
<1>26. CASE PowerLoss BY <1>26 DEF PowerLoss, EndProcess
<1>27. CASE Sync BY <1>27 DEF Sync
<1>28. CASE Clear BY <1>28 DEF Clear
<1>29. CASE Close BY <1>29 DEF Close
<1>30. CASE Panic BY <1>30 DEF Panic, EndProcess
<1>23. CASE ForeignWrite BY <1>23 DEF ForeignWrite
<1>24. CASE UNCHANGED vars BY <1>24 DEF vars
<1> QED
  BY <1>1, <1>2, <1>3, <1>4, <1>5, <1>6, <1>7, <1>8, <1>9, <1>10, <1>11, <1>12,
     <1>13, <1>14, <1>15, <1>16, <1>17, <1>18, <1>19, <1>20, <1>21, <1>22, <1>23, <1>24,
     <1>25, <1>26, <1>27, <1>28, <1>29, <1>30
  DEF Next, Filter, Attempt, Finish, Failing, World

\* At the start the file is unknown.
LEMMA InitHolds == Init => IInv
BY BoundAssumption
DEF Init, IInv, TypeOK, Contents, Here, Record, Known, Pending, Unfinished, Synced, Current, Once,
    Smooth, SmoothBatchSettles, Undisturbed, DoneIsProcessed, NeedsProcessing, Settled, SettledAs

\* The status memory and the file stay in the relation IInv states, over any
\* number of batches (status/memory.go:103-169, workflow.go:190-247).
THEOREM InvariantHolds == Spec => []IInv
<1>1. IInv /\ [Next]_vars => IInv'
  BY TypeStep, RecordStep, SyncedStep, CurrentStep, SmoothStep, OnceStep DEF IInv
<1> QED BY InitHolds, <1>1, PTL DEF Spec

\* The record, the batch and the file have the types of the code (status/memory.go:20-30,
\* workflow.go:190-247).
THEOREM TypeCorrect == Spec => []TypeOK
<1>1. IInv => TypeOK
  BY DEF IInv
<1> QED BY <1>1, InvariantHolds, PTL

\* What the filter skips is a processed file, while no other program writes it
\* (status/memory.go:103-120, status/leveldb.go:133-158).
THEOREM SkippedIsProcessedAlways == Spec => []SkippedIsProcessed
<1>1. IInv => SkippedIsProcessed
  BY DEF IInv, TypeOK, Record, Current, SkippedIsProcessed, DoneIsProcessed, NeedsProcessing
<1> QED BY <1>1, InvariantHolds, PTL

\* processFunc never gets what it has made itself, as long as failures come before
\* the upload and the path is no link (local.go:254-301, workflow.go:237-244).
THEOREM ProcessedOnceAlways == Spec => []ProcessedOnce
<1>1. IInv => ProcessedOnce
  BY DEF IInv, Once, ProcessedOnce, NoDuplicateProcessing
<1> QED BY <1>1, InvariantHolds, PTL

\* A failed file is never skipped by the next scan, whatever has gone wrong,
\* foreign writes and lost reports included (workflow.go:220-235).
THEOREM FailureNotSkippedAlways == Spec => FailureNotSkipped
<1>1. IInv /\ [Next]_vars => [outcome = "failed" => outcome' # "skipped"]_vars
  <2> SUFFICES ASSUME IInv, Next, outcome = "failed", outcome' = "skipped"
               PROVE FALSE
    BY DEF vars, file, store, run
  <2>1. Skip
    BY DEF Next, Filter, Attempt, Finish, Failing, World, List, Abandon, Begin, Stat,
           Download, ProcessSkips, Process, Upload, StatAgain, Retry, NextAttempt,
           ReportError, ReportDone, ReportReject, Store, LookupFails, DownloadFails, ProcessFails,
           UploadFails, StatAgainFails, DelayCancelled, Cancel, Crash, PowerLoss, EndProcess,
           Sync, Clear, Close, Panic, ForeignWrite, EndAttempt
  <2> QED
    BY <2>1 DEF Skip, NeedsProcessing, IInv, TypeOK, Record, Unfinished, Known
<1> QED BY <1>1, InvariantHolds, PTL DEF Spec, FailureNotSkipped

\* After a batch in which nothing went wrong the file is recorded as done at the version
\* it has (workflow.go:39-128 and 190-247).
THEOREM SmoothBatchSettlesAlways ==
  ASSUME MaxRetries >= 0
  PROVE  Spec => []SmoothBatchSettles
<1>1. IInv => SmoothBatchSettles
  BY DEF IInv, Smooth, SmoothBatchSettles
<1> QED BY <1>1, InvariantHolds, PTL

\* A file stops needing to be processed by a report of success, and starts to need it
\* when something goes wrong (status/memory.go:103-169, workflow.go:190-247).
THEOREM OnlyReportsSettleAlways == Spec => OnlyReportsSettle
<1> DEFINE Settles == (pc = "report" /\ outcome' = "ok") \/ version' < version
           Wanted == NeedsProcessing(version)
           Kept == ~link /\ "clear" \notin happened' =>
                     /\ Wanted /\ ~Wanted' => Settles
                     /\ ~Wanted /\ Wanted' => faultsLeft' < faultsLeft
<1>1. IInv /\ [Next]_vars => [Kept]_vars
  <2> SUFFICES ASSUME IInv, Next, ~link, "clear" \notin happened'
               PROVE /\ Wanted /\ ~Wanted' => Settles
                     /\ ~Wanted /\ Wanted' => faultsLeft' < faultsLeft
    OBVIOUS
  <2> USE StoreAssumption
  <2> USE DEF IInv, TypeOK, Contents, Record, Known, Pending, Synced, NeedsProcessing,
              Write, Fault, faults
  <2>1. CASE UNCHANGED <<record, version>>
    BY <2>1
  <2>2. CASE Upload BY <2>2 DEF Upload, store
  <2>3. CASE UploadFails BY <2>3 DEF UploadFails, store, file
  <2>4. CASE ReportReject BY <2>4 DEF ReportReject, Store, file
  <2>5. CASE ReportError BY <2>5 DEF ReportError, Store, file
  <2>6. CASE ReportDone BY <2>6 DEF ReportDone, Store, file
  <2>7. CASE Crash BY <2>7 DEF Crash, EndProcess, file
  <2>8. CASE PowerLoss BY <2>8 DEF PowerLoss, EndProcess, file
  <2>9. CASE Clear BY <2>9 DEF Clear
  <2>10. CASE Panic BY <2>10 DEF Panic, EndProcess, file
  <2>11. CASE ForeignWrite BY <2>11 DEF ForeignWrite, store
  <2> QED
    BY <2>1, <2>2, <2>3, <2>4, <2>5, <2>6, <2>7, <2>8, <2>9, <2>10, <2>11
    DEF Next, Filter, Attempt, Finish, Failing, World, List, Skip, Abandon, Begin, Stat,
        Download, ProcessSkips, Process, StatAgain, Retry, NextAttempt, LookupFails,
        DownloadFails, ProcessFails, StatAgainFails, DelayCancelled, Cancel, Sync, Close,
        EndAttempt, file, store
<1> QED BY <1>1, InvariantHolds, PTL DEF Spec, OnlyReportsSettle, Settles

\* With at least one attempt per file, what is counted as processed is recorded
\* as done at its own version (workflow.go:237-246).
THEOREM SuccessIsRecordedAlways ==
  ASSUME MaxRetries >= 0
  PROVE  Spec => []SuccessIsRecorded
<1>1. Init => SuccessIsRecorded
  BY DEF Init, SuccessIsRecorded
<1>2. IInv /\ SuccessIsRecorded /\ [Next]_vars => SuccessIsRecorded'
  <2> SUFFICES ASSUME IInv, SuccessIsRecorded, [Next]_vars,
                      outcome' = "ok", pc' = "idle",
                      happened' \intersect {"store", "writer", "clear"} = {}
               PROVE record' = Done(version') /\ Settled'
    BY DEF SuccessIsRecorded
  <2>1. CASE UNCHANGED vars
    BY <2>1 DEF SuccessIsRecorded, Settled, SettledAs, vars, file, store, run, faults
  <2>2. CASE Sync \/ Close
    BY <2>2 DEF SuccessIsRecorded, Sync, Close, Fault, Settled, SettledAs, file, run, faults
  <2>3. CASE Next /\ ~Sync /\ ~Close
    <3>1. ReportDone
      BY <2>3, RetryAssumption
      DEF Next, Filter, Attempt, Finish, Failing, World, List, Skip, Abandon, Begin,
          Stat, Download, ProcessSkips, Process, Upload, StatAgain, Retry, NextAttempt,
          ReportError, ReportReject, LookupFails, DownloadFails, ProcessFails, UploadFails,
          StatAgainFails, DelayCancelled, Cancel, Crash, PowerLoss, EndProcess,
          Clear, Panic, ForeignWrite, EndAttempt, Fault
    <3> QED
      BY <3>1 DEF ReportDone, Store, Fault, IInv, Current, Settled, SettledAs, file, run, faults
  <2> QED BY <2>1, <2>2, <2>3
<1> QED BY <1>1, <1>2, InvariantHolds, PTL DEF Spec
=============================================================================
