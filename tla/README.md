# A TLA+ model of go-overwrite-batch

go-overwrite-batch rewrites files in place, in batches: it scans a file system
for files that need processing, writes their paths to a backlog, and then has a
pool of workers download, process and upload them again, with the state of each
file in a status memory. This directory holds TLA+ modules for its parts, the
TLC configurations that check them, and proofs of the main properties.

Check a module with `tlc -config <cfg> <module>` and the proofs with `tlapm
<module>.tla`. `PROJECT.json` lists the runs, the theorems, the source lines
every definition stands for, and for every property a mutated definition that
breaks it.

## 1. Inventory

| Part | Source | State | Operations |
|---|---|---|---|
| Scan phase | `workflow.go:39-101` | four goroutines, `walkCh`, the filter's channel, `relPathCh`, `walkErr` | `ScanAndFilter` |
| Processing phase | `workflow.go:104-187` | reader, feeder, workers, caller; `relPaths`, `workerChan`, `errChan`, `doneChan`; the counter `processed` | `ProcessFiles`, `processWithConcurrency` |
| One file | `workflow.go:190-247` | `uploadedFileInfo` | `processFile` and the callback it gives to `Overwrite` |
| Retries | `common/utils.go:36-81` | the attempt counter | `RetryExecutor.Execute` |
| Local file system | `filesystem/local.go` | the files themselves, temporary files | `Walk`, `Overwrite`, `copyWithContext`, the filters |
| Status memory | `status/memory.go`, `status/leveldb.go` | one `FileStatus` per path | `NeedsProcessing`, `ReportDone`, `ReportError`, `Close`, `Clear`, getters |
| Backlog | `backlog/memory.go`, `backlog/gzip.go` | the list of paths | `StartWriting`, `StartReading`, `CountRelPaths` |
| Interfaces, logging, translations | `uobf.go`, `common/utils.go`, the `init` functions | none | none that changes state |

How they interact. `ScanAndFilter` joins `Walk`, `NeedsProcessing`, a converter
and `StartWriting` by channels; each runs in a goroutine of its own but
`StartWriting`, which runs in the caller's. `ProcessFiles` counts the backlog,
has `StartReading` start a reader, and starts a feeder and the workers. A worker
calls `processFile`, which runs `FileSystem.Overwrite` under the retry executor;
`Overwrite` calls back for the processing, and the callback reports to the status
memory when it fails, as `processFile` does at the end. What joins one batch to
the next is the status memory, the backlog and the files themselves.

What is hard, and what makes each part correct:

* **Processing phase.** Closing channels in the right order so that no entry is
  lost; a bounded error channel that nothing empties; a counter read after the
  last signal; cancellation at any moment. Correct: every entry is attempted
  unless the call is excused by a cancellation or a broken backlog, the reports
  are exact, nothing runs after the return, and the call ends.
* **Scan phase.** Four goroutines that end in any order, errors that travel beside
  the data, a cancellation any of them may be the first or last to see. Correct:
  the backlog is complete and in order, an error is not lost, no goroutine stays.
* **Overwrite.** Some fifteen system calls, each of which can fail, a remote file
  that is truncated before it is filled, copies on the local disk. Correct: the
  result, the file and the copies agree.
* **One file over many batches.** Errors at every stage, reports that fail, retries,
  processes killed midway, other programs writing the file. Correct: nothing is
  skipped that is not processed, nothing is processed twice, and the batches come
  to an end with every file.
* **Walk.** Patterns, depth, links and skipped directories. Correct: what it sends is
  what the options select.
* **Status memory.** A database that is closed or cleared under a caller, and one that
  loses its last records with the system. Correct: an older record never makes the
  next scan skip a file it should not.
* **Backlogs.** Errors of closing that are only logged, files cut in the middle of a
  line, names that read back as others, calls that overlap. Correct: a cut backlog is
  refused, a worker gets what a scan has listed, each file once.
* **Many calls.** The two phases in any order, over one backlog, with crashes in
  between. Correct: every file that can be processed is in the end, and no more often
  than its record asks for.

## 2. Modules

| Module | Models | Used by |
|---|---|---|
| `BatchContract` | what `ProcessFiles` promises, without channels | implemented by `WorkerPool` |
| `WorkerPool` | the processing phase, goroutine by goroutine | |
| `WorkerPoolInv` | its inductive invariant | `WorkerPoolEnds`, `WorkerPoolProofs` |
| `WorkerPoolEnds` | how many steps a call takes, and when everyone in it waits | `MCWorkerPool`, `WorkerPoolEndsProofs` |
| `PoolCall` | a call of `WorkerPool` as a processing call of `BatchCycle` | `MCWorkerPool`, `PoolCallProofs` |
| `OverwriteContract` | what a call of `Overwrite` may do to the file | implemented by `LocalOverwrite` |
| `LocalOverwrite` | `LocalFileSystem.Overwrite`, system call by system call; also its inductive invariant | |
| `LocalAttempt` | a call of `LocalOverwrite` as an attempt of `FileLifecycle` | `MCLocalOverwrite`, `LocalOverwriteProofs` |
| `FileLifecycle` | one file, the status memory, `processFile` and the retries over many batches; also its inductive invariant | |
| `WalkTree` | which entries of a tree `Walk` sends and which directories it skips, and beside it what the options ask for | `ScanPipeline` |
| `ScanContract` | what a scan does to the backlog, as one loop without channels | implemented by `ScanPipeline` |
| `ScanPipeline` | the scan phase, goroutine by goroutine; also its inductive invariant | |
| `ScanPipelineEnds` | how many steps a scan takes, and when everyone in it waits | `MCScanPipeline`, `ScanPipelineEndsProofs` |
| `Backlog` | both backlog managers | `BatchCycle` |
| `BatchCycle` | scans and processing calls of one workflow over one backlog; also its inductive invariant | |
| `MC...` | values of the constants for TLC | |
| `...Proofs` | theorems | |

### WorkerPool

Backlog entries are numbers: the code never compares two paths. A channel with
a buffer is a sequence, its closing the end of the goroutine whose `defer` closes
it. `doneChan` has no buffer: its send and receive are one action, `AwaitWorker`.
`errChan` is a counter since nothing receives from it. A `select` between
`ctx.Done()` and a channel is two actions, both enabled when both are ready, which
is what Go's `select` does. `processFile` is one step with two results. The
increment of the counter and the progress callback are two steps, since another
worker can come in between (`workflow.go:154-156`).

`PoolCall` maps such a call to one of `BatchCycle`: the lines still to be processed are the
entries not settled, wherever they are between reader and workers; the errors are the
failed entries; counting and opening are the same steps; everything the channels do is a
stutter. The constants of `BatchCycle` are those of a single call: a gzip file that was
closed, names that are distinct and need no trimming, as many faults as there are entries,
and one for the call itself. A cancellation or a broken reader counts there when the call
returns and has left lines because of it.

### LocalOverwrite

`pc` names the next system call of `local.go:177-314`. A content is a sequence of
chunks, one per turn of `copyWithContext`; every write makes a new `version`, which
stands for the ModTime and Size of a FileInfo. `Faults` says what can go wrong:
errors of system calls, of `os.Remove`, of `processFunc`, cancellation, another
program writing the file. `trouble` remembers the two that come from outside of
the call, and the properties that need them absent say so. `error` is the system call
that failed, or the copy that found the context done.

`LocalAttempt` maps such a call to an attempt of `FileLifecycle`, which has a handful of
steps for it: every system call before the download ends is still the download, the
upload happens at its end or with its error, the writes of an upload count as one
version. The constants of `FileLifecycle` are those of a single attempt: no retry, the
store in memory (which no attempt touches), two faults.

### FileLifecycle

One file is listed, looked up, processed and reported, again and again.
`Overwrite` appears by its outcomes, which are those of `LocalOverwrite`: an upload
may leave the file as it was, with a part of the output, or with all of it and an
error (`local.go:323` looks at the context once more after the last chunk).
`content` only tells a raw file from a part of an output, from an output and from
an output made from anything but a raw file. `record` is the `FileStatus` of the
path. `kept` is chosen at the start: LevelDB, whose reads and writes may fail, or
the memory that is lost with the process. `happened` remembers the faults, so that
a property can say which it tolerates. A failed `Put` is only logged by the code:
the record stays as it is.

LevelDB is opened with `NoSync`, and an upload is not synced either: `durable` is the
record and `disk` the version and content of the file that are on disk for sure. `Sync`
moves either of them on at any time. `PowerLoss` falls back to `durable`, and leaves the
file as it is, brings it back to what `disk` says, or leaves a part of what was not yet
on disk. `newest` is the version the last write has made, since after such a return the
file's own `version` is an older one. `Close` sets the database to nil; a look up or a report after
it is a `Panic`, which ends the process wherever the file is. `Clear` may come at any
moment. `course` remembers whether anything has gone wrong since the last listing, so that a
property can speak of one batch and not only of a whole behaviour. With `link` the path is a symbolic link: it is listed with a FileInfo of its
own, `Minimal`, which is no version of the file, and stat'ed with its target's.

### ScanPipeline

The files are the entries of `Tree`, in the order in which `filepath.WalkDir` meets
them, the entries of a directory right behind it. `WalkTree` says which the callback
sends and where it answers `SkipDir`; `Selected` says in its own way, entry by entry,
what the options ask for. A pattern is the set of base names it matches: `matchPattern`
looks at the base name only. `options` and `wanted` are chosen at the start, `wanted`
being the selected files whose status asks for processing. The channel between filter and converter has no
buffer, so passing a file on is one step of both (`HandOver`). The two closes at
the end of the walk are separate steps: `walkErr` first, then `walkCh`, as the
defers at `workflow.go:51-52` run. The backlog holds the path of an earlier scan
until `StartWriting` opens it. `lost` remembers the files left out because of an
error the code only logs. `CloseBacklog` is the deferred flush and close, which may
lose the end of the backlog without an error being returned.

### Backlog and BatchCycle

`stored` is what the backlog holds, `end` how the gzip file ends. What the writer has
buffered shows only when the file is cut, by a crash or an error, and how much that is
gets chosen then. A reader gives lines, not paths: `ReadsAs` says what the lines of a
path read back as, since they are trimmed and a newline ends them (`gzip.go:202`), and
a line that was cut reads as `Stub`, because `bufio.Scanner` gives the rest of its
buffer before it reports an error. Lines are records with the entry they come from, so
that a set of them says which are the same. The memory backlog gives paths as they are.

In `BatchCycle` a file is only needed or not: `needs` is what `NeedsProcessing` would
answer now. `Process` and `ProcessFails` do to it what `FileLifecycle` does in its
reports, `Crash` what a lost record or a cut upload does. `errors` counts the failures
of a call: with more than `Concurrency` a worker is stuck on `errChan`, with twice as
many all are, as in `WorkerPool`. The caller calls the phases in any order, after errors
as well. `GiveUp` is a call that ends before it has read anything, cancelled or with a file
that cannot be read (`workflow.go:109-123`). `spent` and `again` remember that a backlog has been read before or that a
scan has run beside a processing call (`Apart` allows that for the memory backlog,
which has a mutex and gives each reader a copy). `since` is what is left of the bound on
faults when a scan begins: as long as nothing goes wrong the two are equal.

## 3. Runs

| Run | Instance | What it shows |
|---|---|---|
| `pool_batch` | 2 workers, 6 entries, buffer of 1, progress every 2 | `IInv`; `AllAttempted`, `MilestonesReportedOnce`, `QuietAfterReturn`, `FinalReportExact`; `KeepsContract`: the pool implements `BatchContract`; `IsCall`: it implements a call of `BatchCycle`; `StepsRunOut`, `StuckOnlyOnErrors`; `EndsUnlessErrorsOverflow`, `ReaderNotLeaked` |
| `pool_hang` | 2 workers, 4 entries | violation of `CompletesDespiteFileErrors` |
| `overwrite_call` | source of 2 chunks, output of 4, at most 2 foreign writes | `IInv`; `InfoIsCurrent`; `KeepsContract`: the call implements `OverwriteContract`; `IsAttempt`: it is an attempt of `FileLifecycle`; `StepsRunOut`; `Returns` |
| `overwrite_atomic`, `overwrite_shutdown`, `overwrite_leftover` | source of 3 chunks, output of 2 | violations of `AtomicOverwrite`, `UploadIgnoresShutdown`, `NothingLeftBehind` |
| `file_batches` | one retry, 3 faults of 12 kinds, either store | `IInv`; `SkippedIsProcessed`, `ProcessedOnce`, `SuccessIsRecorded`, `FailureNotSkipped`, `OnlyReportsSettle`, `SmoothBatchSettles`; `Converges` |
| `file_duplicate`, `file_unchanged` | a link and no fault; one foreign write | violations of `NoDuplicateProcessing`, `DoneIsProcessed` |
| `scan` | a tree of 6 entries, 3 sets of options, buffers of 1, every fault | `IInv`; `BacklogComplete`, `BacklogIsPrefix`, `SafeToClose`; `KeepsContract`: the goroutines implement `ScanContract`; `StepsRunOut`, `StuckOnlyBehindFull`; `ScanReturns`, `GoroutinesEnd` |
| `scan_missed` | the same, cancellation | violation of `NoErrorMissed` |
| `batch_cycle` | 4 files, one worker, 3 faults of 12 kinds, either backlog | `IInv`; `CutNeverProcessed`, `OneWorkerPerFile`, `OnlyWhatIsNeeded`, `OneBatchSuffices`; `Converges` |

`IInv` is the inductive invariant of the module; its first conjunct is `TypeOK`.
`TmpRemoved` has a theorem and is in no run: it is proved to follow from the `IInv` of
`LocalOverwrite`, which is checked.

Bounds, and why they are enough:

* Two workers are the least that race on the counter, the callback and `errChan`.
  Six entries are what a buffer of one, the feeder's hand and a `workerChan` of
  four hold together, so that every channel is full at some moment, and they are
  more than `errChan` has room for. The code's buffer of 100 differs from 1 only
  in how long it takes to fill.
* An output longer than the source makes a copy that starts at a stale offset
  visible; four chunks give a first, a last and two inner ones. `MaxVersion` bounds
  the foreign writes, and with them how often a file can change under a copy.
* Three faults are enough for one to spoil an attempt, a second its report and a
  third the next batch. They are a bound of the whole behaviour, not of a batch;
  after the last one batches go on for ever, and the state space is finite since
  the file is then skipped.
* The tree is three directories deep, with a file at the limit, one beyond it, and an
  entry after the directory that is skipped. Each set of options selects two to four
  entries; with buffers of one, three fill `walkCh` or the filter's hand, the
  converter's and `relPathCh` while the walker waits.
* Of the four files of `batch_cycle` one cannot be processed, one is named with a blank
  at its end and reads back as another, and the line of one can be cut to the name of
  another. One worker and three faults give one error more than `errChan` takes, so
  that calls hang.

Fairness. A goroutine that can take a step takes one in the end: Go's scheduler
runs every runnable goroutine, and system calls and `processFunc` are taken to
return. Weak fairness per goroutine says so in `WorkerPool` and `ScanPipeline`.
`LocalOverwrite` and `FileLifecycle` have one process, and fairness over its
ordinary steps, never of a fault. `FileLifecycle` also assumes that the batches are
started again and again, as the status memory is made for; `Converges` holds under
that assumption. `BatchCycle` assumes the same of the caller, as strong fairness of
beginning a scan and of beginning a processing call: it may choose the order, not
give one of them up for ever. `Returns`, `ScanReturns` and `EndsUnlessErrorsOverflow` need no
such thing.

Deadlock is not checked where a call ends (`CHECK_DEADLOCK FALSE`); it is checked
in `FileLifecycle`, which never ends.

## 4. Where code and documents disagree

Each is a run whose counterexample shows it; `PROJECT.json` quotes the lines.

1. `pool_hang`: with more failed files than `Concurrency` a worker blocks on the full
   `errChan` for ever, and `ProcessFiles` waits for it (`workflow.go:151`). No test
   has that many failures.
2. `overwrite_atomic`: an error in the middle of the upload leaves a part of the
   output in place of the file; the README calls the operation atomic.
3. `overwrite_shutdown`: the upload obeys a cancelled context; the plan asks that
   it does not.
4. `overwrite_leftover`: an error after the callback leaves the processed file on
   the local disk; the plan asks for sure deletion.
5. `file_duplicate`: with `FollowSymlinks` a link is listed with its own FileInfo and
   recorded with its target's, so that every batch processes it again, its own output
   included. (A crash between upload and report has the same effect once.)
6. `file_unchanged`: a foreign write between upload and the second `os.Stat` is
   recorded as the output and skipped from then on.
7. `scan_missed`: a cancelled scan may return nil with a truncated backlog, since
   the last look at `walkErr` does not wait for the walker.

Three more have no run. `uobf.go:35` says that patterns have the format of open-match;
`matchPattern` calls `filepath.Match` on the base name, and a pattern with a directory
in it never matches. `uobf.go:173` speaks of retries for downloads and uploads,
but `LocalFileSystem` wraps its errors and the type assertion at
`common/utils.go:67` does not unwrap, so that only an error of `processFunc` is
ever retried; `FileLifecycle` models exactly this. And README and plan promise an
exponential backoff where `Execute` waits for a constant delay; delays are not
modelled.

## 5. Proofs

`WorkerPoolProofs` proves for any finite non-empty set of workers, any backlog, any
read buffer and any progress interval:

* `TypeCorrect`, `InvariantHolds`: `TypeOK` and `IInv` always hold;
* `AllAttemptedAlways`, `FinalReportExactAlways`, `MilestonesReportedOnceAlways`,
  `QuietAlways`: the safety properties of the module;
* `ErrorsFitBufferAlways`: a call that returns has had no more failures than `errChan` holds;
* `ContractKept`: `Spec` implements `BatchContract`.

None of the properties is inductive. That nothing is lost at the return rests on
where every entry is before it: `Order` says that `workerChan`, the feeder's hand
and `relPaths` hold consecutive numbers from `taken + 1` to `nextEntry - 1`, and
what a cancellation may break of that; `Jobs` says that an entry taken is settled
or in exactly one worker's hands; `Counts` that the counters are the cardinalities
of the sets they count; `Phases` which goroutines exist when; `Reporting` that no
report exceeds the counter; `Milestones` that every multiple of `ProgressEach` the
counter has passed is in one report or in the hands of one worker. Each action is shown
to keep each part, in one lemma per part.

`BatchContract` says how much room there is for errors: with more than one for each worker
the call never returns, with two it settles nothing any more.

`PoolCallProofs` proves for the same constants, and any distinct names of the entries:

* `IsCallAlways`: every step of the pool is a step of a processing call of `BatchCycle`, or
  none that it can see.

So `BatchCycle` assumes no more of a call than the goroutines do: no line is processed twice
or after the return, what is needed changes only as the workers settle it, and a call returns
with lines left only when something has stopped it. The steps of the channels are shown to
stutter (`CallStutter`), those of the workers to settle one line (`FateStep`): `Jobs` and
`Counts` give that the line was still to be processed and that a worker was left to do it.
The return rests on `ErrorsFitBufferAlways` and `AllAttemptedAlways`, and `FaultsEnough` says
that the faults of a single call suffice for every failure in it.

`WorkerPoolEndsProofs` proves the half of the liveness of a call that needs no fairness:

* `StepsRunOutAlways`: every step uses up one of `6 * Total + 2 * Concurrency + 6`. An
  entry has six before it and loses one at every channel; a worker has at most four until
  it waits for an entry again;
* `StuckOnlyOnErrorsAlways`: when every goroutine waits, the call is over and its reader
  gone, or more files have failed than `errChan` has room for.

Together they say that a call can only end, or stop in the state of finding 1. `Stuck` is
written with the guards of the select statements, not with `ENABLED`, which is out of the
provers' reach; `EndsUnlessErrorsOverflow` and `ReaderNotLeaked` ask TLC the same of the
actions themselves.

`LocalOverwriteProofs` proves for a source and an output of any length and any set of
faults, foreign writes included:

* `InvariantHolds`, `TypeCorrect`;
* `InfoIsCurrentAlways`, `TmpRemovedAlways`: the FileInfo returned is the file's, and the
  temporary file is gone;
* `CallbackSeesWholeFileAlways`: `processFunc` is given a whole copy of the remote file;
* `ContractKept`: `Spec` implements `OverwriteContract`;
* `IsAttemptAlways`: until another program writes the file, every system call is a step
  of an attempt as `FileLifecycle` has it, or none that it can see;
* `StepsRunOutAlways`: every system call, and every chunk copied, uses up one of
  `SourceChunks + OutputChunks + 14`, and of two more for each foreign write up to
  `MaxVersion`, which may add a chunk. It is the half of `Returns` that needs no fairness.

`Copies` says which copies are on the local disk at each system call and whose they
are. `Undisturbed` says, while no other program has written the remote file, that the
offset of the copy in progress is how much of its target there is, that the target is
a beginning of one content and no mixture, and that the FileInfo in hand belongs to
what is there. Both refinements are proved step by step from these two. `IsAttempt` starts
from a raw file, as a first attempt does, and its conclusion stops at a foreign write,
which `FileLifecycle` has only as a whole step between those of a batch.

`FileLifecycleProofs` proves for any number of retries (negative ones too, but for
`SuccessIsRecordedAlways`), any bound and set of faults, either store, and links:

* `InvariantHolds`, `TypeCorrect`;
* `SkippedIsProcessedAlways`: while no other program has written the file, what
  the filter skips is processed;
* `ProcessedOnceAlways`: for a path that is no link, as long as failures come before
  the upload, processFunc never gets its own output;
* `FailureNotSkippedAlways`: a failed file is not skipped by the next scan;
* `SuccessIsRecordedAlways`, for `MaxRetries >= 0`: with a negative count the loop
  of `Execute` has no turn and nil is returned with nothing done;
* `OnlyReportsSettleAlways`: a file that is no link stops needing to be processed by a
  report of success and in no other way, and needs it again only when something goes
  wrong, unless `Clear` deletes records or the system brings the file itself back to a
  version that was done. This is what `BatchCycle` takes for granted of
  its `needs`;
* `SmoothBatchSettlesAlways`, for `MaxRetries >= 0`: one batch in which nothing goes wrong
  leaves a file that is no link recorded as done at the version it has, whatever went wrong
  before. `OneBatchSuffices` of `BatchCycle` takes this for granted of each file.

None of these properties is inductive. `Known` says that no FileInfo in use is of a version there
has not been yet, so that what is written gets one no record has, and that a version has
one content; `Pending` that a file being worked on is not recorded as done at its version;
`Unfinished` keeps that beyond a failure; `Current` says that, unless another program
writes, the FileInfo in hand is the file's own from the download to the report, and that a
record of success, stored or on disk, at the version the file has or can fall back to means
a whole output; `Once` that an output on disk is recorded or on its way to its report;
`Synced` that if LevelDB has on disk for sure that the file is done at its version, the
record says so too, so that falling back to it makes no file look done. `Smooth` says that a batch in which nothing has gone wrong is live
and has the file as it is in hand, from its listing to its report.

`ScanPipelineProofs` proves for any tree, any options, any buffers and any set of
faults:

* `InvariantHolds`, `TypeCorrect`;
* `BacklogCompleteAlways`, `BacklogIsPrefixAlways`: what a scan that succeeds, and one
  that does not, has put into the backlog;
* `SafeToCloseAlways`: no look up comes after a scan that succeeded uncancelled;
* `LiveErrorSeen`: such a scan has missed no error of the walk, so that finding 7 needs
  a cancellation;
* `ContractKept`: `Spec` implements `ScanContract`, the scan that `BatchCycle` takes for
  granted: the next file that needs processing is stored, one after the other, and nothing
  once the backlog is closed.

A backlog that is complete at the return says nothing about the middle of the scan.
`Flow` says that the five places a file can be in (backlog, `relPathCh`, the converter,
the filter, `walkCh`) follow each other in the order of the walk and that what has
passed the filter is wanted and not lost; `Complete` that no wanted file is missing
before one that can still be stored, and that all the walk has behind it is in one of
the places while no goroutine has been cancelled; `EndInOrder` which goroutine may have
ended before which. On the tree, `PassFacts` shows that an entry `Walk` does not send,
or skips with a directory that is too deep, is none the options select.

`ScanPipelineEndsProofs` proves, as for the worker pool, that a scan takes at most
`7 * Len(Tree) + 10` steps (`StepsRunOutAlways`), and that when all four goroutines wait it
has returned, and all have ended unless an error under a live context has left one of them
before a full channel (`StuckOnlyBehindFullAlways`). That rests on `EndInOrder`.

`BatchCycleProofs` proves for any set of paths and order of the walk, any way in which
they read back, any cut line, any number of workers, any bound and set of faults, and
either backlog:

* `InvariantHolds`, `TypeCorrect`;
* `CutNeverProcessedAlways`, `OneWorkerPerFileAlways`, `OnlyWhatIsNeededAlways`;
* `OneBatchSufficesAlways`: a scan and a call that reads its backlog to the end, with
  nothing going wrong since the scan began, leave no file undone that can be processed
  and that the backlog can name. It is the half of `Converges` that needs no fairness.

`Separate` says that the gzip file a call reads is whole and not being written,
`Unrepeated` that a scan stores no path twice nor one it has still to come to, and
`Unspent` that a backlog not read yet holds only what is needed. From these the lines a
reader gives are whole, distinct and needed at the start, and no step of a worker
changes that for the others. `Underway` follows a file that is due while nothing goes wrong:
the scan has it still before it, or it is in the backlog, or among the lines of the workers.

The assumptions of the theorems are the named `ASSUME`s of the modules, which type the
constants, ask for a worker and a buffer of one or more, and say that the value standing
for no file is no content.

Only model-checked: liveness (`EndsUnlessErrorsOverflow`, `ReaderNotLeaked`, `Returns`,
`ScanReturns`, `GoroutinesEnd`, `Converges`), which needs fairness and
`ENABLED`. For the two phases and for `Overwrite` the theorems above leave to fairness only that a goroutine
that can take a step does.

## 6. Not modelled

* Getters (`GetStatus`, `GetAllStatus`, `Count`, `Size`, `GetEntries`), which change no
  state, and `SetEntries`, which tests use to fill a backlog.
* A scan that writes a gzip backlog while a call reads it, and two scans at the same
  time; the workflow calls its phases one after the other.
* What a system failure does to the backlog file, and a system failure that cuts a file
  without its ModTime or Size showing it. One that brings a file back to an older version
  is in `FileLifecycle` only: in `BatchCycle` a failure never makes a file stop needing to
  be processed.
* The names the patterns match (`filepath.Match`), the ten thousand entries between two
  log lines, the length of a line (`bufio.Scanner` refuses one beyond 64 KB, which is a
  read error).
* `Concurrency` 0, where `ProcessFiles` returns nil at once with nothing done, and
  `BatchSize` 0, for which channels have no buffer; negative values, for which `make`
  panics.
* Two links to one file: a foreign write stands for the second.
* Records of LevelDB that do not parse, which count as no record.
* The length of delays, logging, translations, `GetURL`, `SetLogger`.
* `EstimatedTotal`, `ProgressEach` and `ProgressCallback` of `ScanAndFilterOptions`,
  which the code does not use.

## 7. Plan

Done: every module above, with the proofs of its safety properties. What one module takes
for granted of another is a property of that other one, proved there: the calls of
`BatchCycle` are those of `WorkerPool` (`IsCall`), what it says of a file is what
`FileLifecycle` does (`OnlyReportsSettle`, `SmoothBatchSettles`), and an attempt of
`FileLifecycle` is a call of `LocalOverwrite` (`IsAttempt`).

Left: the scan of `BatchCycle` as a refinement of `ScanPipeline`. It cannot be had step by
step with the modules as they are: `ScanFile` decides about one path at a time, while storing
an entry in `ScanPipeline` passes over every path before it that is not needed or was left
out. `ContractKept` and `BacklogCompleteAlways` say the same of the whole scan.
