--------------------------- MODULE LocalOverwrite ---------------------------
(***************************************************************************)
(* One call of LocalFileSystem.Overwrite (src/filesystem/local.go), system *)
(* call by system call: the download into a temporary file, the callback   *)
(* of workflow.processFile, the upload over the remote file and the        *)
(* deferred cleanup.                                                       *)
(*                                                                         *)
(* A file's content is a sequence of chunks, one per turn of the loop of   *)
(* copyWithContext (32 KiB), each marked with where it came from.  version *)
(* stands for the ModTime and Size that os.Stat reports: every write to    *)
(* the remote file gives a new one.                                        *)
(***************************************************************************)
EXTENDS Naturals, SequencesExt

CONSTANTS
  SourceChunks,   \* length of the remote file at the start
  OutputChunks,   \* length of what processFunc makes of it
  Faults,         \* which things may go wrong: see FaultAssumption
  MaxVersion,     \* bound: another program stops writing at this version
  Absent          \* in place of a content: no such file

ASSUME LengthAssumption == SourceChunks \in Nat /\ OutputChunks \in Nat
\* "io": a system call returns an error; "remove": os.Remove does; "cancel": the
\* context is cancelled; "process": processFunc fails; "writer": another program
\* writes the remote file.
ASSUME FaultAssumption ==
  Faults \subseteq {"io", "remove", "cancel", "process", "writer"}
ASSUME BoundAssumption == MaxVersion \in Nat

Original == [i \in 1..SourceChunks |-> "original"]
Output == [i \in 1..OutputChunks |-> "output"]
Foreign == <<"foreign">>

VARIABLES
  ctx,         \* "live" or "done"
  trouble,     \* what others have done: "writer", "remove"
  pc,          \* the next system call
  remote,      \* content of the remote file
  version,     \* its FileInfo
  tmp,         \* the file made by os.CreateTemp, or Absent
  processed,   \* the file processFunc wrote elsewhere, or Absent
  upload,      \* overwritingFilePath: "none", "tmp" or "processed"
  pos,         \* offset of the copy in progress
  info,        \* the FileInfo Overwrite will return
  result,      \* "none", "uploaded", "skipped" or "failed"
  error        \* "none", "cancelled", or the system call or callback that failed

world == <<ctx, trouble>>
files == <<remote, version, tmp, processed>>
call == <<upload, pos, info, result, error>>
vars == <<world, pc, files, call>>

Contents == Seq({"original", "output", "foreign", "hole"})

MayFail == {"stat", "createTemp", "open", "createTmp", "download", "callback",
            "statProcessed", "openProcessed", "truncate", "upload", "statAgain"}

TypeOK ==
  /\ ctx \in {"live", "done"} /\ trouble \subseteq {"writer", "remove"}
  /\ pc \in MayFail \union {"removeProcessed", "removeTmp", "returned"}
  /\ remote \in Contents
  /\ version \in Nat /\ info \in Nat
  /\ tmp \in Contents \union {Absent}
  /\ processed \in Contents \union {Absent}
  /\ upload \in IF pc \in {"statProcessed", "openProcessed", "truncate", "upload"}
                THEN {"tmp", "processed"} ELSE {"none", "tmp", "processed"}
  /\ pos \in Nat
  /\ result \in {"none", "uploaded", "skipped", "failed"}
  /\ error \in MayFail \union {"none", "cancelled"}

ASSUME AbsentAssumption == Absent \notin Contents

Init ==
  /\ ctx = "live" /\ trouble = {} /\ pc = "stat"
  /\ remote = Original /\ version = 1
  /\ tmp = Absent /\ processed = Absent
  /\ upload = "none" /\ pos = 0 /\ info = 0 /\ result = "none" /\ error = "none"

\* An early return: whatever was deferred runs.  Before os.CreateTemp there is
\* nothing to remove.
FailTo(place, cause) ==
  /\ pc' = place
  /\ result' = "failed" /\ error' = cause
  /\ UNCHANGED <<world, files, upload, pos, info>>

IOFails(step) == "io" \in Faults /\ pc = step

\* os.Remove of the file with this content; an error is only logged.
RemoveFile(content, after) ==
  \/ after = Absent /\ UNCHANGED trouble
  \/ /\ "remove" \in Faults /\ after = content
     /\ trouble' = trouble \union {"remove"}

-----------------------------------------------------------------------------
(* Download *)

Stat ==
  /\ pc = "stat"
  /\ info' = version
  /\ pc' = "createTemp"
  /\ UNCHANGED <<world, files, upload, pos, result, error>>

\* os.Stat or os.CreateTemp fails.
StartFails ==
  /\ IOFails("stat") \/ IOFails("createTemp")
  /\ FailTo("returned", pc)

CreateTemp ==
  /\ pc = "createTemp"
  /\ tmp' = <<>>
  /\ pc' = "open"
  /\ UNCHANGED <<world, remote, version, processed, call>>

\* os.Open of the remote file; it is read from the start.
OpenRemote ==
  /\ pc = "open"
  /\ pos' = 0
  /\ pc' = "createTmp"
  /\ UNCHANGED <<world, files, upload, info, result, error>>

CreateTmp ==
  /\ pc = "createTmp"
  /\ tmp' = <<>>
  /\ pc' = "download"
  /\ UNCHANGED <<world, remote, version, processed, call>>

\* One turn of copyWithContext: it only looks at ctx between two chunks.
DownloadChunk ==
  /\ pc = "download" /\ ctx = "live"
  /\ pos < Len(remote)
  /\ tmp' = Append(tmp, remote[pos + 1])
  /\ pos' = pos + 1
  /\ UNCHANGED <<world, pc, remote, version, processed, upload, info, result, error>>

DownloadEnd ==
  /\ pc = "download" /\ ctx = "live"
  /\ pos >= Len(remote)
  /\ pc' = "callback"
  /\ UNCHANGED <<world, files, call>>

-----------------------------------------------------------------------------
(* The callback of processFile *)

\* processFunc fails; the callback reports it and passes the error on.
ProcessFails ==
  /\ "process" \in Faults
  /\ pc = "callback"
  /\ FailTo("removeTmp", pc)

\* It returns "": the file is left as it is, with the FileInfo of the start.
ProcessSkips ==
  /\ pc = "callback"
  /\ result' = "skipped"
  /\ pc' = "removeTmp"
  /\ UNCHANGED <<world, files, upload, pos, info, error>>

\* It rewrites the temporary file and returns its path: autoRemove is false.
ProcessInPlace ==
  /\ pc = "callback"
  /\ tmp' = Output
  /\ upload' = "tmp"
  /\ pc' = "statProcessed"
  /\ UNCHANGED <<world, remote, version, processed, pos, info, result, error>>

\* It writes another file and returns its path: autoRemove is true.
ProcessElsewhere ==
  /\ pc = "callback"
  /\ processed' = Output
  /\ upload' = "processed"
  /\ pc' = "statProcessed"
  /\ UNCHANGED <<world, remote, version, tmp, pos, info, result, error>>

-----------------------------------------------------------------------------
(* Upload *)

StatProcessed ==
  /\ pc = "statProcessed"
  /\ pc' = "openProcessed"
  /\ UNCHANGED <<world, files, call>>

\* mutant: the upload goes on at the offset of the download.
OpenProcessedStale ==
  /\ pc = "openProcessed"
  /\ pc' = "truncate"
  /\ UNCHANGED <<world, files, call>>

OpenProcessed ==
  /\ pc = "openProcessed"
  /\ pos' = 0
  /\ pc' = "truncate"
  /\ UNCHANGED <<world, files, upload, info, result, error>>

\* os.Create of the remote path empties the file before anything is copied.
Truncate ==
  /\ pc = "truncate"
  /\ remote' = <<>>
  /\ version' = version + 1
  /\ pc' = "upload"
  /\ UNCHANGED <<world, tmp, processed, call>>

Uploading == IF upload = "tmp" THEN tmp ELSE processed

\* Write one chunk at an offset; a file another program has cut short in the
\* meantime gets a hole.
WriteAt(content, offset, chunk) ==
  [i \in 1..(IF offset < Len(content) THEN Len(content) ELSE offset + 1) |->
     IF i = offset + 1 THEN chunk
     ELSE IF i <= Len(content) THEN content[i] ELSE "hole"]

UploadChunk ==
  /\ pc = "upload" /\ ctx = "live"
  /\ pos < Len(Uploading)
  /\ remote' = WriteAt(remote, pos, Uploading[pos + 1])
  /\ version' = version + 1
  /\ pos' = pos + 1
  /\ UNCHANGED <<world, pc, tmp, processed, upload, info, result, error>>

\* mutant: a short read is taken for the end of the file.
UploadEndEarly ==
  /\ pc = "upload" /\ ctx = "live"
  /\ pos + 1 >= Len(Uploading)
  /\ pc' = "statAgain"
  /\ UNCHANGED <<world, files, call>>

UploadEnd ==
  /\ pc = "upload" /\ ctx = "live"
  /\ pos >= Len(Uploading)
  /\ pc' = "statAgain"
  /\ UNCHANGED <<world, files, call>>

\* mutant: the FileInfo of the start is returned.
StatNotAgain ==
  /\ pc = "statAgain"
  /\ pc' = "removeProcessed"
  /\ UNCHANGED <<world, files, call>>

\* The FileInfo to report is that of the file as it is found now.
StatAgain ==
  /\ pc = "statAgain"
  /\ info' = version
  /\ pc' = "removeProcessed"
  /\ UNCHANGED <<world, files, upload, pos, result, error>>

\* mutant: autoRemove is ignored.
ProcessedKept ==
  /\ pc = "removeProcessed"
  /\ result' = "uploaded"
  /\ pc' = "removeTmp"
  /\ UNCHANGED <<world, files, upload, pos, info, error>>

\* autoRemove: the processed file goes, unless it is the temporary file.
RemoveProcessed ==
  /\ pc = "removeProcessed"
  /\ IF processed = Absent THEN UNCHANGED <<processed, trouble>>
                           ELSE RemoveFile(processed, processed')
  /\ result' = "uploaded"
  /\ pc' = "removeTmp"
  /\ UNCHANGED <<ctx, remote, version, tmp, upload, pos, info, error>>

-----------------------------------------------------------------------------
(* Failure, cleanup, and the world around the call *)

\* mutant: a cancelled upload neither goes on nor gives up.
CopyStuck ==
  /\ pc = "download" /\ ctx = "done"
  /\ FailTo("removeTmp", "cancelled")

\* mutant: the error of a cancelled copy is taken for its end.
CopyCancelledUnseen ==
  /\ pc \in {"download", "upload"} /\ ctx = "done"
  /\ pc' = IF pc = "download" THEN "callback" ELSE "statAgain"
  /\ UNCHANGED <<world, files, call>>

\* copyWithContext finds the context done.
CopyCancelled ==
  /\ pc \in {"download", "upload"} /\ ctx = "done"
  /\ FailTo("removeTmp", "cancelled")

\* mutant: a download that fails is begun again.
DownloadBegunAgain ==
  /\ IOFails("download")
  /\ pc' = "open"
  /\ UNCHANGED <<world, files, call>>

\* Any other system call fails, after having had no effect.
StepFails ==
  /\ \E step \in {"open", "createTmp", "download", "statProcessed",
                  "openProcessed", "truncate", "upload", "statAgain"} :
       IOFails(step)
  /\ FailTo("removeTmp", pc)

\* The deferred os.Remove of the temporary file.
RemoveTmp ==
  /\ pc = "removeTmp"
  /\ RemoveFile(tmp, tmp')
  /\ pc' = "returned"
  /\ UNCHANGED <<ctx, remote, version, processed, call>>

Cancel ==
  /\ "cancel" \in Faults /\ ctx = "live"
  /\ ctx' = "done"
  /\ UNCHANGED <<trouble, pc, files, call>>

\* Another program, or another worker through a symbolic link, replaces the
\* content of the remote file.
ForeignWrite ==
  /\ "writer" \in Faults /\ version < MaxVersion
  /\ remote' = Foreign
  /\ version' = version + 1
  /\ trouble' = trouble \union {"writer"}
  /\ UNCHANGED <<ctx, pc, tmp, processed, call>>

-----------------------------------------------------------------------------
Download == \/ Stat \/ CreateTemp \/ OpenRemote \/ CreateTmp \/ DownloadChunk
            \/ DownloadEnd
Callback == ProcessFails \/ ProcessSkips \/ ProcessInPlace \/ ProcessElsewhere
Replace == \/ StatProcessed \/ OpenProcessed \/ Truncate \/ UploadChunk
           \/ UploadEnd \/ StatAgain \/ RemoveProcessed
Fail == StartFails \/ CopyCancelled \/ StepFails

Step == Download \/ Callback \/ Replace \/ Fail \/ RemoveTmp

Next == Step \/ Cancel \/ ForeignWrite

Spec == Init /\ [][Next]_vars

\* The worker keeps running and system calls and processFunc return.  Nothing
\* has to fail.
FairSpec ==
  /\ Spec
  /\ WF_vars(Download) /\ WF_vars(Callback) /\ WF_vars(Replace)
  /\ WF_vars(CopyCancelled) /\ WF_vars(RemoveTmp)

-----------------------------------------------------------------------------
\* The callback gets the whole file: a cancelled or failed copy never
\* reaches it (local.go:232-242).
CallbackSeesWholeFile ==
  pc = "callback" /\ "writer" \notin trouble => tmp = Original

\* The FileInfo of a successful call is the one a scan will find, so that the
\* status memory recognises the file (local.go:287-301).
InfoIsCurrent ==
  pc = "returned" /\ result \in {"uploaded", "skipped"} /\ "writer" \notin trouble
    => info = version

\* The temporary file never outlives the call, whichever return it takes
\* (the defer at local.go:212-216), as long as os.Remove works.
TmpRemoved == pc = "returned" /\ "remove" \notin trouble => tmp = Absent

\* What can be seen from outside of the call.
SeenRemote ==
  IF remote = Original /\ version = 1 THEN "original"
  ELSE IF remote = Output THEN "output"
  ELSE IF IsPrefix(remote, Output) THEN "partial" ELSE "mixed"
SeenLocal == IF tmp = Absent /\ processed = Absent THEN "none" ELSE "some"
SeenResult == IF pc = "returned" THEN result ELSE "none"

Contract == INSTANCE OverwriteContract WITH
  remote <- SeenRemote, local <- SeenLocal, result <- SeenResult,
  disturbed <- trouble # {}

\* Seen from outside, the call does to the remote file what OverwriteContract
\* allows: no result contradicts what is on disk, a success leaves no copy
\* behind, and a failure leaves the original or a beginning of the output, never
\* a mixture (local.go:177-314).
KeepsContract == Contract!Spec

\* The call comes back, cancelled or not.
Returns == <>(pc = "returned")

-----------------------------------------------------------------------------
(* Why it does *)

\* The system calls from this one to the return, chunks not counted.
CallsFrom(place) ==
  CASE place = "stat" -> 13 [] place = "createTemp" -> 12 [] place = "open" -> 11
    [] place = "createTmp" -> 10 [] place = "download" -> 9 [] place = "callback" -> 8
    [] place = "statProcessed" -> 7 [] place = "openProcessed" -> 6
    [] place = "truncate" -> 5 [] place = "upload" -> 4 [] place = "statAgain" -> 3
    [] place = "removeProcessed" -> 2 [] place = "removeTmp" -> 1 [] OTHER -> 0

\* What there is of a count beyond another one.
Beyond(count, other) == IF other < count THEN count - other ELSE 0

\* The chunks still to be copied.
ChunksLeft ==
  CASE pc \in {"stat", "createTemp", "open", "createTmp"} -> Len(remote) + OutputChunks
    [] pc = "download" -> Beyond(Len(remote), pos) + OutputChunks
    [] pc \in {"callback", "statProcessed", "openProcessed", "truncate"} -> OutputChunks
    [] pc = "upload" -> Beyond(OutputChunks, pos)
    [] OTHER -> 0

\* A write of another program is a step, and may add a chunk to an empty file.
StepsLeft ==
  CallsFrom(pc) + ChunksLeft + 2 * Beyond(MaxVersion, version)
    + (IF ctx = "live" THEN 1 ELSE 0)

\* A call takes at most SourceChunks + OutputChunks + 14 steps, and two for each
\* foreign write: neither copy turns without a chunk to show for it, even while another
\* program changes the file under it, and no error is answered by trying again
\* (local.go:177-353).
StepsRunOut ==
  /\ StepsLeft <= SourceChunks + OutputChunks + 14 + 2 * Beyond(MaxVersion, 1)
  /\ [][StepsLeft' < StepsLeft /\ {StepsLeft, StepsLeft'} \subseteq Nat]_vars

-----------------------------------------------------------------------------
\* "Overwrite: Download, process via callback, and optionally upload files in
\* one atomic operation" (README.md:106): the file is never left in between.
AtomicOverwrite == pc = "returned" => remote = Original \/ remote = Output

\* While a file is uploaded the shutdown signal is not obeyed
\* (plan/archtecture.md:450).
UploadIgnoresShutdown ==
  [][pc = "upload" /\ ctx = "done" => pc' # "removeTmp"]_vars

\* Temporary files are surely deleted after processing
\* (plan/archtecture.md:422).
NothingLeftBehind == pc = "returned" => tmp = Absent /\ processed = Absent

-----------------------------------------------------------------------------
(* The inductive invariant *)

\* The first n chunks of a file that came from one place.
Copied(chunk, n) == [i \in 1..n |-> chunk]

Replacing == {"statProcessed", "openProcessed", "truncate", "upload"}

\* Which copies are on the local disk, and whose they are.
Copies ==
  /\ pc \in {"stat", "createTemp"} => tmp = Absent
  /\ pc \notin {"stat", "createTemp", "returned"} => tmp # Absent
  /\ pc = "returned" /\ "remove" \notin trouble => tmp = Absent
  /\ processed \in {Absent, Output}
  /\ pc \in Replacing => Uploading = Output
  /\ result \in {"uploaded", "skipped"} /\ "remove" \notin trouble => processed = Absent
  /\ pc \in {"stat", "createTemp", "open", "createTmp", "download", "callback"} =>
       processed = Absent
  /\ result = "none" <=> pc \notin {"removeTmp", "returned"}
  /\ error = "none" <=> result # "failed"

\* Where nobody has truncated the file yet.
Reading == {"createTemp", "open", "createTmp", "download", "callback",
            "statProcessed", "openProcessed", "truncate"}

\* While no other program has written the file, how far the copy in progress is is
\* how much of it there is, and the FileInfo in hand belongs to what is there.
Undisturbed ==
  /\ pc = "stat" \/ pc \in Reading \/ result = "skipped" => remote = Original /\ version = 1
  /\ pc \in Reading \/ result = "skipped" => info = 1
  /\ pc \in {"createTmp", "truncate"} => pos = 0
  /\ pc = "download" => pos <= SourceChunks /\ tmp = Copied("original", pos)
  /\ pc = "callback" => tmp = Original
  /\ pc = "upload" => pos <= OutputChunks /\ remote = Copied("output", pos)
  /\ pc \in {"upload", "statAgain", "removeProcessed"} \/ result = "uploaded" => version > 1
  /\ pc \in {"statAgain", "removeProcessed"} \/ result = "uploaded" => remote = Output
  /\ pc = "removeProcessed" \/ result = "uploaded" => info = version
  /\ \/ remote = Original /\ version = 1
     \/ version > 1 /\ \E n \in 0..OutputChunks : remote = Copied("output", n)

\* What is on which disk at every system call (local.go:177-314).
IInv == TypeOK /\ Copies /\ ("writer" \notin trouble => Undisturbed)
=============================================================================
