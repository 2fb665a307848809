------------------------- MODULE OverwriteContract -------------------------
(***************************************************************************)
(* What one call of FileSystem.Overwrite (src/uobf.go) may do to the       *)
(* remote file, as the implementation for local files keeps it.  While     *)
(* nothing disturbs it (no other program writes the file and removing a    *)
(* file works), the file goes from its original content through a part of  *)
(* the new content to the whole of it; the result tells which: "uploaded"  *)
(* means the whole, "skipped" means the original, and after "failed" it    *)
(* may be any of the three.  A call that succeeds keeps no local copy.     *)
(***************************************************************************)

VARIABLES
  remote,  \* "original", "partial" (a beginning of the output) or "output"
  local,   \* are temporary copies on the local disk? "none" or "some"
  result,  \* "none" while the call runs
  disturbed

vars == <<remote, local, result, disturbed>>

Init ==
  remote = "original" /\ local = "none" /\ result = "none" /\ disturbed = FALSE

\* Copies come and go while the call runs.
Stage ==
  /\ result = "none"
  /\ local' \in {"none", "some"}
  /\ UNCHANGED <<remote, result, disturbed>>

\* Uploading needs the processed copy.
Upload ==
  /\ result = "none" /\ local = "some"
  /\ remote \in {"original", "partial"}
  /\ remote' \in {"partial", "output"}
  /\ UNCHANGED <<local, result, disturbed>>

Finish ==
  /\ result = "none"
  /\ \/ result' = "uploaded" /\ remote = "output" /\ local' = "none"
     \/ result' = "skipped" /\ remote = "original" /\ local' = "none"
     \/ result' = "failed" /\ local' \in {"none", local}
  /\ UNCHANGED <<remote, disturbed>>

\* Once disturbed, only this is left: the call ends once, with one result.
Disturbed ==
  /\ disturbed' = TRUE
  /\ result = "none" \/ UNCHANGED result
  /\ result' \in {"none", "uploaded", "skipped", "failed"}
  /\ remote' \in {"original", "partial", "output", "mixed"}
  /\ local' \in {"none", "some"}

Next == Stage \/ Upload \/ Finish \/ Disturbed

Spec == Init /\ [][Next]_vars
=============================================================================
