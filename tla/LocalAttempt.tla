---------------------------- MODULE LocalAttempt ----------------------------
(***************************************************************************)
(* The call of LocalOverwrite as FileLifecycle has it: an attempt of       *)
(* processFile, with Overwrite in a handful of steps instead of its system *)
(* calls.  What FileLifecycle assumes of Overwrite - what each error can   *)
(* leave of the file, which FileInfo a success reports, how cancellation   *)
(* and errors share out - is here what the system calls do.                *)
(***************************************************************************)
EXTENDS LocalOverwrite

\* The parts of Overwrite that FileLifecycle tells apart.
Part(step) ==
  CASE step \in {"stat", "createTemp", "open", "createTmp", "download"} -> "download"
    [] step = "callback" -> "process"
    [] step = "statAgain" -> "stat"
    [] OTHER -> "upload"

\* A call that is over stays where its error or its success is reported.
Returning == {"removeProcessed", "removeTmp", "returned"}

AttemptPc ==
  CASE pc \in {"stat", "callback", "statAgain"} -> pc
    [] pc \in {"createTemp", "open", "createTmp", "download"} -> "download"
    [] pc \in Replacing -> "upload"
    [] pc \in Returning /\ error = "none" -> "report"
    [] pc \in Returning /\ error = "callback" -> "reject"
    [] pc \in Returning /\ error \notin {"none", "callback"} -> "failed"

\* FileLifecycle replaces the file at the end of the upload, all at once.
AttemptContent ==
  IF pc \in Replacing \/ SeenRemote = "original" THEN "raw"
  ELSE IF SeenRemote \in {"output", "partial"} THEN SeenRemote ELSE "again"

\* However many writes there have been, it counts one version.
AttemptVersion == IF pc \in Replacing \/ version <= 1 THEN 1 ELSE 2

AttemptSeen == IF info <= 1 THEN 1 ELSE 2
AttemptGot == IF pc = "callback" /\ tmp # Original THEN "partial" ELSE "raw"
AttemptLeft == IF result = "skipped" THEN {1} ELSE {}
AttemptError == IF error = "none" THEN "none" ELSE "permanent"

\* What has gone wrong: the context, a part of the call.
Failed == error \notin {"none", "cancelled"}
AttemptTrouble ==
  (IF ctx = "done" THEN {"cancel"} ELSE {}) \union (IF Failed THEN {Part(error)} ELSE {})
AttemptFaultsLeft == 2 - (IF ctx = "done" THEN 1 ELSE 0) - (IF Failed THEN 1 ELSE 0)

\* Each part may fail by the system calls in it.
AttemptFaults ==
  (Faults \intersect {"process", "cancel"})
    \union (IF "io" \in Faults THEN {"download", "upload", "stat"} ELSE {})

Lifecycle == INSTANCE FileLifecycle WITH
  MaxRetries <- 0, Stores <- {"memory"}, Links <- {FALSE}, MaxFaults <- 2,
  Faults <- AttemptFaults, happened <- AttemptTrouble, faultsLeft <- AttemptFaultsLeft,
  pc <- AttemptPc, content <- AttemptContent, version <- AttemptVersion,
  newest <- AttemptVersion, disk <- [version |-> 1, content |-> "raw"],
  seen <- AttemptSeen, got <- AttemptGot, left <- AttemptLeft, error <- AttemptError,
  kept <- "memory", db <- "open", link <- FALSE, attempt <- 0, outcome <- "none",
  course <- "rough",
  record <- [kind |-> "none", info |-> 0], durable <- [kind |-> "none", info |-> 0]

Attempts ==
  \/ Lifecycle!Attempt \/ Lifecycle!DownloadFails \/ Lifecycle!ProcessFails
  \/ Lifecycle!UploadFails \/ Lifecycle!StatAgainFails \/ Lifecycle!Cancel

\* While no other program writes the file, a call of Overwrite is an attempt as
\* FileLifecycle has it: the callback gets the whole file, no error but one of an upload
\* leaves a file that has changed and such an error leaves the file as it was, a part of
\* the output or all of it; an attempt fails only by an error or by the context, and a
\* success reports the FileInfo of the file that is there (local.go:177-314).
IsAttempt ==
  /\ AttemptPc = "stat" /\ AttemptContent = "raw"
  /\ [][Attempts \/ "writer" \in trouble']_(Lifecycle!vars)
=============================================================================
