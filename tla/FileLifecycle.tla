---------------------------- MODULE FileLifecycle ----------------------------
(***************************************************************************)
(* One file through successive batches: it is listed by Walk, looked up in *)
(* the status memory (src/status), processed by workflow.processFile with  *)
(* its RetryExecutor (src/common/utils.go), and reported.  The batches are *)
(* run again and again, as a scheduled job does; each has a context of its *)
(* own.  LocalFileSystem.Overwrite appears here by its outcomes; module    *)
(* LocalOverwrite has its steps.  The status memory is complete: it is     *)
(* opened with the process, closed, cleared, and LevelDB's lags behind on  *)
(* disk, since it is opened with NoSync.                                   *)
(*                                                                         *)
(* A version stands for the pair ModTime, Size by which the status memory  *)
(* recognises a file: every write makes a new one.  A system that fails    *)
(* may bring back an older one.                                            *)
(***************************************************************************)
EXTENDS Integers

CONSTANTS
  MaxRetries,   \* ProcessingOptions.RetryCount
  Stores,       \* the implementations of StatusMemory to choose from
  Links,        \* may the path be a symbolic link that FollowSymlinks lists?
  Faults,       \* which things may go wrong: see FaultAssumption
  MaxFaults     \* bound: how many of them happen in all

ASSUME RetryAssumption == MaxRetries \in Int
ASSUME StoreAssumption == Stores \subseteq {"leveldb", "memory"}
ASSUME LinkAssumption == Links \subseteq BOOLEAN
\* Errors of the status memory ("lookup", "store"), of the three parts of
\* Overwrite and of processFunc ("process"); "cancel" cancels a batch, "crash"
\* ends the process and "power" the system; "clear" and "close" are calls of the
\* status memory's owner; "writer": another program rewrites the file.
ASSUME FaultAssumption ==
  Faults \subseteq {"lookup", "store", "download", "process", "upload", "stat",
                    "cancel", "crash", "power", "clear", "close", "writer"}
ASSUME BoundAssumption == MaxFaults \in Nat

VARIABLES
  ctx,         \* context of the batch: "live" or "done"
  version,     \* what os.Stat tells of the file
  content,     \* "raw"; "partial": a cut upload; "output": of processFunc on a
               \* raw file; "again": of processFunc on anything else
  newest,      \* the version the last write has made
  disk,        \* the version and the content that are on disk for sure
  kept,        \* where: "leveldb", or "memory" and lost with the process
  record,      \* the FileStatus stored for the path
  durable,     \* the one that LevelDB has on disk for sure
  db,          \* "open", or "nil" after Close
  link,        \* is the path a symbolic link?
  pc,          \* where the batch is with this file
  seen,        \* the FileInfo taken last, by Walk or by Overwrite
  got,         \* the content downloaded
  attempt,     \* i of Execute
  error,       \* "none", or the last error: "transient" if IsRetryable
  outcome,     \* how the last look at the file ended
  left,        \* versions processFunc has chosen to leave alone
  happened,    \* which faults there have been
  faultsLeft,
  course       \* "smooth", or "rough" when something has gone wrong since the last listing

file == <<version, content, newest, disk>>
store == <<kept, record, durable, db, link>>
run == <<seen, got, attempt, error, left>>
faults == <<happened, faultsLeft, course>>
vars == <<ctx, file, store, pc, run, outcome, faults>>

\* 0 is the FileInfo made up by processFile, and that of a link itself: it is no
\* version of the file.
Minimal == 0

Record == [kind : {"none", "done", "error"}, info : Nat]
Unknown == [kind |-> "none", info |-> Minimal]
Done(info) == [kind |-> "done", info |-> info]

Contents == {"raw", "partial", "output", "again"}

TypeOK ==
  /\ ctx \in {"live", "done"}
  /\ version \in Nat \ {0}
  /\ content \in Contents
  /\ newest \in Nat
  /\ disk \in [version : Nat \ {0}, content : Contents]
  /\ kept \in Stores
  /\ record \in Record /\ durable \in Record
  /\ db \in {"open", "nil"}
  /\ link \in Links
  /\ pc \in {"idle", "listed", "stat", "download", "callback", "reject",
             "upload", "statAgain", "failed", "delay", "report"}
  /\ seen \in Nat
  /\ got \in Contents
  /\ attempt \in Nat
  /\ error \in {"none", "transient", "permanent"}
  /\ outcome \in {"none", "ok", "failed", "skipped", "dropped"}
  /\ left \subseteq Nat
  /\ happened \subseteq Faults
  /\ faultsLeft \in Nat
  /\ course \in {"smooth", "rough"}

\* The file as the system shows it.
Here == [version |-> version, content |-> content]

Init ==
  /\ ctx = "live"
  /\ version = 1 /\ content = "raw" /\ newest = 1 /\ disk = Here
  /\ kept \in Stores /\ record = Unknown /\ durable = Unknown /\ db = "open"
  /\ link \in Links
  /\ pc = "idle" /\ seen = 0 /\ got = "raw" /\ attempt = 0 /\ error = "none"
  /\ outcome = "none" /\ left = {}
  /\ happened = {} /\ faultsLeft = MaxFaults /\ course = "rough"

\* One of the things that may go wrong does.
Fault(kind) ==
  /\ kind \in Faults
  /\ faultsLeft > 0
  /\ faultsLeft' = faultsLeft - 1
  /\ happened' = happened \union {kind}
  /\ course' = "rough"

\* The status memory stores a record; LevelDB's Put may fail, which is logged.
Store(r) ==
  /\ db = "open"
  /\ \/ record' = r /\ UNCHANGED faults
     \/ kept = "leveldb" /\ Fault("store") /\ UNCHANGED record
  /\ UNCHANGED <<kept, durable, db, link>>

\* The file gets a content, and with it a FileInfo it has never had.
Write(new) ==
  /\ content' = new
  /\ newest' = newest + 1 /\ version' = newest'
  /\ UNCHANGED disk

-----------------------------------------------------------------------------
(* Scan and filter *)

\* Walk lists the file with its FileInfo of this moment, a link with its own.
List ==
  /\ pc = "idle"
  /\ ctx' = "live"
  /\ seen' = IF link THEN Minimal ELSE version
  /\ pc' = "listed"
  /\ course' = "smooth"
  /\ UNCHANGED <<file, store, got, attempt, error, left, outcome, happened, faultsLeft>>

\* mutant: a file with any record is taken for done.
NeedsIfUnknown(info) == record.kind = "none"

NeedsProcessing(info) ==
  \/ record.kind # "done"
  \/ record.info # info

Skip ==
  /\ pc = "listed" /\ db = "open"
  /\ ~NeedsProcessing(seen)
  /\ outcome' = "skipped"
  /\ pc' = "idle"
  /\ UNCHANGED <<ctx, file, store, run, faults>>

\* LevelDB's Get fails: the file is left out of the backlog, with a log line.
LookupFails ==
  /\ pc = "listed" /\ db = "open"
  /\ kept = "leveldb" /\ Fault("lookup")
  /\ outcome' = "dropped"
  /\ pc' = "idle"
  /\ UNCHANGED <<ctx, file, store, run>>

\* A cancelled batch leaves the file behind: in a channel, in the backlog, or
\* with the feeder.
Abandon ==
  /\ pc = "listed" /\ ctx = "done"
  /\ outcome' = "dropped"
  /\ pc' = "idle"
  /\ UNCHANGED <<ctx, file, store, run, faults>>

\* The file goes through the backlog to a worker.  With MaxRetries < 0 the loop
\* of Execute has no turn: it returns nil and nothing is reported.
Begin ==
  /\ pc = "listed" /\ db = "open"
  /\ NeedsProcessing(seen)
  /\ attempt' = 0 /\ error' = "none"
  /\ IF MaxRetries >= 0
       THEN pc' = "stat" /\ outcome' = "none"
       ELSE pc' = "idle" /\ outcome' = "ok"
  /\ UNCHANGED <<ctx, file, store, seen, got, left, faults>>

-----------------------------------------------------------------------------
(* One attempt: Overwrite and its callback *)

Stat ==
  /\ pc = "stat"
  /\ seen' = version
  /\ pc' = "download"
  /\ UNCHANGED <<ctx, file, store, got, attempt, error, left, outcome, faults>>

Download ==
  /\ pc = "download" /\ ctx = "live"
  /\ got' = content
  /\ pc' = "callback"
  /\ UNCHANGED <<ctx, file, store, seen, attempt, error, left, outcome, faults>>

\* An attempt ends with an error.  LocalFileSystem wraps the errors of its system
\* calls, and the type assertion of Execute does not look inside: only an error
\* of processFunc, which is passed on as it is, can be retried.
EndAttempt(err) ==
  /\ error' = err
  /\ pc' = "failed"
  /\ UNCHANGED <<ctx, seen, got, attempt, left, outcome>>

DownloadFails ==
  /\ \/ pc \in {"stat", "download"} /\ Fault("download")
     \/ pc = "download" /\ ctx = "done" /\ UNCHANGED faults
  /\ EndAttempt("permanent")
  /\ UNCHANGED <<file, store>>

ProcessFails ==
  /\ pc = "callback"
  /\ \/ Fault("process")
     \/ ctx = "done" /\ UNCHANGED faults
  /\ error' \in {"transient", "permanent"}
  /\ pc' = "reject"
  /\ UNCHANGED <<ctx, file, store, seen, got, attempt, left, outcome>>

\* The callback reports the error of processFunc with the FileInfo it was given
\* and passes the error on.
ReportReject ==
  /\ pc = "reject"
  /\ Store([kind |-> "error", info |-> seen])
  /\ EndAttempt(error)
  /\ UNCHANGED file

\* processFunc returns "": Overwrite succeeds with the FileInfo of its start.
ProcessSkips ==
  /\ pc = "callback"
  /\ left' = left \union {seen}
  /\ pc' = "report"
  /\ UNCHANGED <<ctx, file, store, seen, got, attempt, error, outcome, faults>>

Process ==
  /\ pc = "callback"
  /\ pc' = "upload"
  /\ UNCHANGED <<ctx, file, store, run, outcome, faults>>

Processed == IF got = "raw" THEN "output" ELSE "again"

Upload ==
  /\ pc = "upload" /\ ctx = "live"
  /\ Write(Processed)
  /\ pc' = "statAgain"
  /\ UNCHANGED <<ctx, store, run, outcome, faults>>

\* mutant: the error of the copy is not looked at.
UploadFailsUnseen ==
  /\ pc = "upload"
  /\ Fault("upload")
  /\ Write("partial")
  /\ pc' = "statAgain"
  /\ UNCHANGED <<ctx, store, run, outcome>>

\* The upload fails before it has truncated the file, midway, or at its end:
\* the context is looked at once more after the last chunk.
UploadFails ==
  /\ pc = "upload"
  /\ \/ Fault("upload")
     \/ ctx = "done" /\ UNCHANGED faults
  /\ \/ UNCHANGED file
     \/ Write("partial") \/ Write(Processed)
  /\ EndAttempt("permanent")
  /\ UNCHANGED store

\* mutant: the FileInfo of the start is returned.
StatNotAgain ==
  /\ pc = "statAgain"
  /\ pc' = "report"
  /\ UNCHANGED <<ctx, file, store, run, outcome, faults>>

StatAgain ==
  /\ pc = "statAgain"
  /\ seen' = version
  /\ pc' = "report"
  /\ UNCHANGED <<ctx, file, store, got, attempt, error, left, outcome, faults>>

StatAgainFails ==
  /\ pc = "statAgain"
  /\ Fault("stat")
  /\ EndAttempt("permanent")
  /\ UNCHANGED <<file, store>>

-----------------------------------------------------------------------------
(* Retry and report *)

Retryable == error = "transient" /\ attempt < MaxRetries

Retry ==
  /\ pc = "failed" /\ Retryable
  /\ pc' = "delay"
  /\ UNCHANGED <<ctx, file, store, run, outcome, faults>>

\* The timer of the delay fires.
NextAttempt ==
  /\ pc = "delay"
  /\ attempt' = attempt + 1
  /\ pc' = "stat"
  /\ UNCHANGED <<ctx, file, store, seen, got, error, left, outcome, faults>>

\* The context ends the delay; its error is the one Execute returns.
DelayCancelled ==
  /\ pc = "delay" /\ ctx = "done"
  /\ EndAttempt("permanent")
  /\ UNCHANGED <<file, store, faults>>

\* mutant: the failure is reported as the success is.
ReportFailureAsDone ==
  /\ pc = "failed" /\ ~Retryable
  /\ Store(Done(version))
  /\ outcome' = "failed"
  /\ pc' = "idle"
  /\ UNCHANGED <<ctx, file, run>>

\* Execute gives up.  uploadedFileInfo is nil, so that processFile reports the
\* error with a FileInfo it makes up.
ReportError ==
  /\ pc = "failed" /\ ~Retryable
  /\ Store([kind |-> "error", info |-> Minimal])
  /\ outcome' = "failed"
  /\ pc' = "idle"
  /\ UNCHANGED <<ctx, file, run>>

ReportDone ==
  /\ pc = "report"
  /\ Store(Done(seen))
  /\ outcome' = "ok"
  /\ pc' = "idle"
  /\ UNCHANGED <<ctx, file, run>>

-----------------------------------------------------------------------------
(* The world around the batch *)

Cancel ==
  /\ pc # "idle" /\ ctx = "live"
  /\ Fault("cancel")
  /\ ctx' = "done"
  /\ UNCHANGED <<file, store, pc, run, outcome>>

\* What a process leaves that ends: the file as it is, or an upload cut short,
\* and what the status memory has kept.
EndProcess(survivor) ==
  /\ pc' = "idle" /\ outcome' = "none" /\ db' = "open"
  /\ record' = IF kept = "leveldb" THEN survivor ELSE Unknown
  /\ UNCHANGED <<ctx, kept, durable, link, run>>

\* The process is killed.
Crash ==
  /\ Fault("crash")
  /\ EndProcess(record)
  /\ \/ UNCHANGED file
     \/ pc = "upload" /\ (Write("partial") \/ Write(Processed))

\* The system fails.  Records not yet on disk are lost with it, and so may be what has
\* been written to the file, since an upload is not synced either: it is then as it was
\* before, or a part of what it was to be.
PowerLoss ==
  /\ Fault("power")
  /\ EndProcess(durable)
  /\ \/ UNCHANGED <<version, content, newest>>
     \/ version' = disk.version /\ content' = disk.content /\ UNCHANGED newest
     \/ /\ pc = "upload" \/ (content # "raw" /\ disk # Here)
        /\ content' = "partial" /\ newest' = newest + 1 /\ version' = newest'
  /\ disk' = Here'

\* In its own time the system writes to disk what it has been handed, by LevelDB and by
\* those who write the file.
Sync ==
  /\ \/ kept = "leveldb" /\ durable # record
        /\ durable' = record /\ UNCHANGED disk
     \/ disk # Here
        /\ disk' = Here /\ UNCHANGED durable
  /\ UNCHANGED <<ctx, version, content, newest, kept, record, db, link, pc, run, outcome,
                 faults>>

\* Clear of the status memory, with a batch on its way or not.
Clear ==
  /\ db = "open"
  /\ Fault("clear")
  /\ record' = Unknown
  /\ UNCHANGED <<ctx, file, kept, durable, db, link, pc, run, outcome>>

Close ==
  /\ kept = "leveldb" /\ db = "open"
  /\ Fault("close")
  /\ db' = "nil"
  /\ UNCHANGED <<ctx, file, kept, record, durable, link, pc, run, outcome>>

\* A look up or a report in a closed LevelDB follows a nil pointer and ends the
\* process.
Panic ==
  /\ db = "nil"
  /\ \/ pc \in {"listed", "reject", "report"}
     \/ pc = "failed" /\ ~Retryable
  /\ EndProcess(record)
  /\ course' = "rough"
  /\ UNCHANGED <<file, happened, faultsLeft>>

ForeignWrite ==
  /\ Fault("writer")
  /\ Write("raw")
  /\ UNCHANGED <<ctx, store, pc, run, outcome>>

-----------------------------------------------------------------------------
Filter == List \/ Skip \/ Begin \/ Abandon
Attempt == \/ Stat \/ Download \/ ProcessSkips \/ Process \/ Upload \/ StatAgain
Finish == ReportReject \/ Retry \/ NextAttempt \/ ReportError \/ ReportDone
Failing == \/ LookupFails \/ DownloadFails \/ ProcessFails \/ UploadFails
           \/ StatAgainFails \/ DelayCancelled
World == \/ Cancel \/ Crash \/ PowerLoss \/ Sync \/ Clear \/ Close \/ Panic
         \/ ForeignWrite

Next == Filter \/ Attempt \/ Finish \/ Failing \/ World

Spec == Init /\ [][Next]_vars

\* Batches are started again and again and take their steps; a cancelled copy
\* returns.  Nothing has to go wrong.
FairSpec ==
  Spec /\ WF_vars(Filter \/ Attempt \/ Finish \/ DownloadFails \/ UploadFails \/ Panic)

-----------------------------------------------------------------------------
SettledAs(info, what) == what \in {"output", "again"} \/ info \in left
Settled == SettledAs(version, content)

\* "File hasn't changed and was already processed successfully"
\* (status/memory.go:118, status/leveldb.go:156): what the filter skips is the
\* whole output of processFunc, or a file processFunc left alone.
DoneIsProcessed == ~NeedsProcessing(version) => Settled

\* It is so while no other program writes the file, whatever else goes wrong: a
\* record that the system loses (NoSync, status/leveldb.go:36-38) falls back to one
\* of an older version, and if the file falls back as well, to a version that was
\* processed (status/memory.go:103-120 with workflow.go:190-247).
SkippedIsProcessed == "writer" \notin happened => DoneIsProcessed

\* A file whose processing failed is not skipped by the next scan, whatever
\* became of the report (workflow.go:220-235 with status/leveldb.go:133-158).
FailureNotSkipped == [][outcome = "failed" => outcome' # "skipped"]_vars

\* "Prevents duplicate processing using persistent status tracking"
\* (README.md:9): processFunc never gets what it has made itself, nor a part.
NoDuplicateProcessing == content # "again"

\* It is so, for a file that is no link, while failures come before the upload,
\* even when another program rewrites the file (local.go:254-301 and
\* workflow.go:237-244).
Undisturbed == ~link /\ happened \subseteq {"lookup", "download", "process", "writer"}
ProcessedOnce == Undisturbed => NoDuplicateProcessing

\* A file counted as processed is recorded at the version it has, and that is
\* a processed one (workflow.go:237-246), when the store works.
SuccessIsRecorded ==
  outcome = "ok" /\ pc = "idle" /\ happened \intersect {"store", "writer", "clear"} = {}
    => record = Done(version) /\ Settled

\* What BatchCycle takes for granted of its needs (status/memory.go:103-169 with
\* workflow.go:190-247): a file that needs processing stops doing so by a report of
\* success and in no other way.  Retries, lost reports, other programs that write the
\* file, and a LevelDB that falls back to an older record do not make it look done.
\* Only when Clear has deleted a record can such a fall bring it back, or when the file
\* itself falls back to the version that was done.  And a file that is done stays so until
\* something goes wrong.
OnlyReportsSettle ==
  [][~link /\ "clear" \notin happened' =>
       /\ NeedsProcessing(version) /\ ~NeedsProcessing(version)' =>
            (pc = "report" /\ outcome' = "ok") \/ version' < version
       /\ ~NeedsProcessing(version) /\ NeedsProcessing(version)' =>
            faultsLeft' < faultsLeft]_vars

\* One batch with nothing going wrong is enough, whatever went wrong before it: it
\* leaves the file recorded as done at the version it has, be it by processing it, by
\* leaving it as it is, or by having nothing to do (workflow.go:39-128 and 190-247).
\* It is what BatchCycle takes Process for.
SmoothBatchSettles ==
  course = "smooth" /\ pc = "idle" /\ ~link => record = Done(version)

\* Once things stop going wrong the batches come to an end with the file: it is
\* done at the version it has, and skipped from then on (list, look up, process
\* and report, workflow.go:39-128 and 190-247).
Converges == <>[](record = Done(version))

-----------------------------------------------------------------------------
(* The inductive invariant *)

\* No FileInfo in use is of a version there has not been, and no two contents share one.
Known ==
  /\ version <= newest /\ disk.version <= version
  /\ disk.version = version => disk.content = content
  /\ record.info <= newest /\ durable.info <= newest /\ seen <= newest
  /\ record.kind = "done" => record.info # Minimal
  /\ durable.kind = "done" => durable.info # Minimal
  /\ pc \in {"download", "callback", "upload", "statAgain", "report"} => seen # Minimal
  /\ pc = "listed" /\ link => seen = Minimal

\* A file being worked on is not done, unless it is listed as a link; and if a listed file
\* is done, the listing says so.
Pending ==
  ~link /\ pc # "idle" /\ record = Done(version) => pc = "listed" /\ seen = version

\* Nor is one that has failed, and its next listing does not make it so.
Unfinished ==
  outcome = "failed" =>
    /\ pc \in {"idle", "listed"}
    /\ ~link => record # Done(version)
    /\ ~link /\ pc = "listed" => record # Done(seen)

\* If LevelDB has on disk for sure that the file is done, the record says so too.
Synced ==
  /\ kept = "memory" => durable = Unknown /\ db = "open"
  /\ ~link /\ "clear" \notin happened /\ durable = Done(version) => record = durable

\* What a batch knows of the file is current while nobody else writes it.
Current ==
  "writer" \notin happened =>
    /\ pc \in {"download", "callback", "upload"} => seen = version
    /\ pc = "statAgain" => content \in {"output", "again"}
    /\ pc = "report" => seen = version /\ Settled
    /\ Done(version) \in {record, durable} => Settled
    /\ Done(disk.version) \in {record, durable} => SettledAs(disk.version, disk.content)

\* An output is on its way to a record of success, or has it.
Once ==
  Undisturbed =>
    /\ ctx = "live" /\ db = "open"
    /\ content \in {"raw", "output"}
    /\ pc \in {"callback", "upload"} => got = "raw"
    /\ content = "output" =>
         \/ pc = "statAgain"
         \/ pc = "report" /\ seen = version
         \/ record = Done(version)
            /\ pc \in {"idle", "listed"} /\ (pc = "listed" => seen = version)

\* A batch in which nothing goes wrong has the file as it is in hand from its listing to
\* its report, and no error.
Smooth ==
  course = "smooth" =>
    /\ pc # "idle" => ctx = "live"
    /\ pc \notin {"reject", "failed", "delay"}
    /\ pc = "listed" /\ ~link => seen = version
    /\ pc \in {"download", "callback", "upload", "report"} => seen = version
    /\ MaxRetries >= 0 => SmoothBatchSettles

\* What is recorded as done is so (status/memory.go:103-169, workflow.go:190-247),
\* strengthened until every step keeps it.
IInv == TypeOK /\ Known /\ Pending /\ Unfinished /\ Synced /\ Current /\ Once /\ Smooth
=============================================================================
