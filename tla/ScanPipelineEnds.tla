-------------------------- MODULE ScanPipelineEnds --------------------------
(***************************************************************************)
(* Why a scan ends and what it leaves behind, without a word of fairness:  *)
(* every step of the four goroutines uses up one of a number of steps      *)
(* fixed at the start, and the only states in which all of them wait are   *)
(* those behind an error, where a channel is full that nothing empties any *)
(* more.  TLC checks both on MCScanPipeline, ScanPipelineEndsProofs proves *)
(* them.                                                                   *)
(***************************************************************************)
EXTENDS ScanPipeline

OneIf(condition) == IF condition THEN 1 ELSE 0

\* A file takes seven steps: looked at, into walkCh, to the filter, to the converter,
\* into relPathCh, into the backlog, and one that the walker has looked at and not yet
\* sent has used the first.
FileSteps ==
  7 * (Len(Tree) + 1 - next) + 5 * Len(walkCh) + 4 * OneIf(filter = "send")
    + 3 * OneIf(converter = "send") + 2 * Len(relPathCh)

\* The ends of the three goroutines.
EndSteps ==
  (CASE walk = "entry" -> 3
     [] walk = "send" -> 2
     [] walk = "ending" -> 1
     [] OTHER -> 0)
    + OneIf(filter # "done") + OneIf(converter # "done")

\* The caller's own steps and the cancellation.
CallSteps ==
  (CASE main = "start" -> 4
     [] main = "opening" -> 3
     [] main = "writing" -> 2
     [] main = "check" -> 1
     [] OTHER -> 0)
    + OneIf(ctx = "live")

StepsLeft == FileSteps + EndSteps + CallSteps

\* A scan takes at most 7 * Len(Tree) + 10 steps, whatever Walk cannot read, whichever
\* status cannot be looked up, whoever fails and whenever it is cancelled: Walk never
\* comes to an entry twice, and no loop of the filter, the converter or the writer turns
\* without a file (workflow.go:47-86, local.go:103-170, status/memory.go:60-96).
StepsRunOut ==
  [][StepsLeft' < StepsLeft /\ {StepsLeft, StepsLeft'} \subseteq Nat]_vars

-----------------------------------------------------------------------------
(* Who can take a step *)

WalkerCan ==
  \/ walk \in {"entry", "ending"}
  \/ walk = "send" /\ (Len(walkCh) < WalkBuffer \/ ctx = "done")

FilterCan ==
  \/ filter = "recv" /\ (walkCh # <<>> \/ walk = "closed" \/ ctx = "done")
  \/ filter = "send" /\ (converter = "recv" \/ ctx = "done")

ConverterCan ==
  \/ converter = "recv" /\ filter = "done"
  \/ converter = "send" /\ (Len(relPathCh) < PathBuffer \/ ctx = "done")

MainCan ==
  \/ main \in {"start", "opening", "check"}
  \/ main = "writing" /\ (relPathCh # <<>> \/ converter = "done" \/ ctx = "done")

\* No select, send or receive can go on: everyone waits for someone else.
Stuck == ~WalkerCan /\ ~FilterCan /\ ~ConverterCan /\ ~MainCan

\* When everyone waits the scan has returned, and either all have ended or it has returned
\* an error under a live context: then the converter stands before a full relPathCh that
\* StartWriting reads no more, or, when NeedsProcessing never started a filter, Walk
\* before a full walkCh (workflow.go:42-101).
StuckOnlyBehindFull ==
  Stuck =>
    \/ main \in {"ok", "failed"} /\ AllEnded
    \/ /\ main = "failed" /\ ctx = "live"
       /\ \/ converter = "send" /\ Len(relPathCh) = PathBuffer
          \/ filter = "off" /\ walk = "send" /\ Len(walkCh) = WalkBuffer
=============================================================================
